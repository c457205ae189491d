--------------------------- MODULE PatchTask_proofs ---------------------------
(***************************************************************************)
(* ActiveIsProved, OnlyVerifiedIsCommitted, VerdictsAreTrue and            *)
(* TiersInOrder, for any policies, files, chain of tiers, processes and    *)
(* number of attempts.                                                     *)
(*                                                                         *)
(* PolicyInv says of every version which evidence its own events hold:     *)
(* the one approval adds is added to the version that was validated, and   *)
(* only a rollback leaves the evidence to the version that was copied.     *)
(* PatchInv is about a task none of whose processes outlived its lease:    *)
(* then one attempt runs at a time, and RunSound says what it has made of  *)
(* the repository by each of its steps.  TypeInv types every variable,     *)
(* which needs the resolved route to be one of the chain.  OrderInv counts *)
(* the attempts without a verdict: as far as the next attempt may skip,    *)
(* the tiers that are left have been asked.                                *)
(***************************************************************************)
EXTENDS PatchTask, SequenceTheorems, FiniteSetTheorems, WellFoundedInduction, TLAPS

EventType == {"draft_created", "canary_passed", "validated", "approved", "activated",
              "superseded", "rollback_created"}

(* The evidence for a version, as a property of a log.                     *)
Shows(log, approved) ==
    \E i, j \in DOMAIN log :
        /\ i < j /\ log[i] = "canary_passed" /\ log[j] = "validated"
        /\ approved => \E k \in DOMAIN log : j < k /\ log[k] = "approved"

Late == {"approved", "active", "superseded"}

VersionSound(v) ==
    /\ ~In(v, "draft") => validatePolicy(versions[v].policy)
    /\ In(v, "validated") => Shows(events[v], FALSE)
    /\ versions[v].state \in Late =>
           \E u \in 1..v : /\ versions[u].policy = versions[v].policy
                           /\ Shows(events[u], TRUE)

OneActive == \A u, v \in DOMAIN versions : In(u, "active") /\ In(v, "active") => u = v

TablesInv ==
    /\ versions \in Seq(Version) /\ Len(versions) <= MaxVersions
    /\ events \in Seq(Seq(EventType)) /\ Len(events) = Len(versions)

CanaryInv ==
    /\ canary = [version |-> canary.version, left |-> canary.left]
    /\ canary.version \in 0..Len(versions) /\ canary.left \subseteq Routes

PolicyInv ==
    /\ TablesInv /\ CanaryInv /\ OneActive
    /\ \A v \in DOMAIN versions : VersionSound(v)

(* What a log shows, it shows with an event more.                          *)
LEMMA ShowsMore ==
    ASSUME NEW log \in Seq(EventType), NEW e \in EventType, NEW approved \in BOOLEAN,
           Shows(log, approved)
    PROVE  Shows(Append(log, e), approved)
<1>. DEFINE l == Append(log, e)
<1>1. /\ Len(l) = Len(log) + 1 /\ DOMAIN l = 1..Len(l) /\ DOMAIN log = 1..Len(log)
      /\ \A i \in DOMAIN log : i \in DOMAIN l /\ l[i] = log[i]
  BY AppendProperties, LenProperties
<1>. HIDE DEF l
<1>2. PICK i \in DOMAIN log, j \in DOMAIN log :
          /\ i < j /\ log[i] = "canary_passed" /\ log[j] = "validated"
          /\ approved => \E k \in DOMAIN log : j < k /\ log[k] = "approved"
  BY DEF Shows
<1>3. approved => \E k \in DOMAIN l : j < k /\ l[k] = "approved"
  BY <1>1, <1>2
<1>4. Shows(l, approved)
  BY <1>1, <1>2, <1>3 DEF Shows
<1>. QED BY <1>4 DEF l

(* No version loses its policy or any of its events.                       *)
Kept ==
    /\ Len(versions) <= Len(versions')
    /\ \A v \in DOMAIN versions :
          /\ versions'[v].policy = versions[v].policy
          /\ events'[v] = events[v] \/ \E e \in EventType : events'[v] = Append(events[v], e)

(* A version that was sound, and was moved among the late states at most.  *)
LEMMA StaysSound ==
    ASSUME TablesInv, TablesInv', Kept, NEW v \in DOMAIN versions, VersionSound(v),
           \/ versions'[v].state = versions[v].state
           \/ versions[v].state \in Late /\ versions'[v].state \in Late
    PROVE  VersionSound(v)'
<1>1. /\ DOMAIN versions = 1..Len(versions) /\ DOMAIN events = 1..Len(versions)
      /\ \A u \in DOMAIN versions : events[u] \in Seq(EventType)
      /\ Len(versions) \in Nat
  BY LenProperties DEF TablesInv
<1>2. \A u \in DOMAIN versions : \A a \in BOOLEAN :
          Shows(events[u], a) => Shows(events'[u], a)
  <2>. SUFFICES ASSUME NEW u \in DOMAIN versions, NEW a \in BOOLEAN, Shows(events[u], a)
                PROVE  Shows(events'[u], a)
    OBVIOUS
  <2>1. CASE events'[u] = events[u]
    BY <2>1
  <2>2. ASSUME NEW e \in EventType, events'[u] = Append(events[u], e)
        PROVE  Shows(events'[u], a)
    <3>1. Shows(Append(events[u], e), a)
      BY <1>1, ShowsMore
    <3>. QED BY <3>1, <2>2
  <2>. QED BY <2>1, <2>2 DEF Kept
<1>3. versions'[v].policy = versions[v].policy
  BY DEF Kept
<1>4. ~In(v, "draft")' => validatePolicy(versions'[v].policy)
  <2>1. In(v, "draft")' <=> In(v, "draft")
    BY DEF In, Late
  <2>. QED BY <2>1, <1>3 DEF VersionSound
<1>5. In(v, "validated")' => Shows(events'[v], FALSE)
  BY <1>2 DEF VersionSound, In, Late
<1>6. ASSUME versions'[v].state \in Late
      PROVE  \E u \in 1..v : /\ versions'[u].policy = versions'[v].policy
                             /\ Shows(events'[u], TRUE)
  <2>1. PICK u \in 1..v : /\ versions[u].policy = versions[v].policy
                          /\ Shows(events[u], TRUE)
    BY <1>6 DEF VersionSound
  <2>2. u \in DOMAIN versions
    BY <1>1
  <2>. QED BY <2>1, <2>2, <1>2 DEF Kept
<1>7. In(v, "draft")' <=> versions'[v].state = "draft"
  BY DEF In
<1>. QED BY <1>4, <1>5, <1>6 DEF VersionSound

-----------------------------------------------------------------------------
(* PolicyStore.                                                            *)

(* A version whose row is rewritten, with an event more in its log.        *)
Rewritten(v, row, e) ==
    /\ versions' = [versions EXCEPT ![v] = row]
    /\ row.policy = versions[v].policy
    /\ events' = [events EXCEPT ![v] = Append(@, e)]

LEMMA RowMoves ==
    ASSUME TablesInv, NEW v \in DOMAIN versions, NEW row \in Version, NEW e \in EventType,
           Rewritten(v, row, e)
    PROVE  /\ TablesInv' /\ Kept /\ DOMAIN versions' = DOMAIN versions
           /\ Len(versions') = Len(versions)
           /\ versions'[v] = row /\ events'[v] = Append(events[v], e)
           /\ \A u \in DOMAIN versions \ {v} : versions'[u] = versions[u]
<1>. USE DEF Rewritten
<1>1. /\ DOMAIN versions = 1..Len(versions) /\ DOMAIN events = 1..Len(versions)
      /\ \A u \in DOMAIN versions : events[u] \in Seq(EventType)
      /\ Len(versions) \in Nat
  BY LenProperties DEF TablesInv
<1>2. Append(events[v], e) \in Seq(EventType)
  BY <1>1
<1>3. versions' \in Seq(Version) /\ Len(versions') = Len(versions)
  BY ExceptSeq DEF TablesInv
<1>4. events' \in Seq(Seq(EventType)) /\ Len(events') = Len(events)
  BY <1>1, <1>2, ExceptSeq DEF TablesInv
<1>5. TablesInv'
  BY <1>3, <1>4 DEF TablesInv
<1>6. DOMAIN versions' = DOMAIN versions
  BY <1>1, <1>3, LenProperties
<1>7. /\ versions'[v] = row /\ events'[v] = Append(events[v], e)
      /\ \A u \in DOMAIN versions \ {v} : versions'[u] = versions[u] /\ events'[u] = events[u]
  BY <1>1
<1>8. Kept
  <2>1. versions'[v].policy = versions[v].policy
    BY <1>7
  <2>2. Len(versions) <= Len(versions')
    BY <1>1, <1>3
  <2>. QED BY <2>1, <2>2, <1>7 DEF Kept
<1>. QED BY <1>3, <1>5, <1>6, <1>7, <1>8

LEMMA RowStays ==
    ASSUME TablesInv, NEW v \in DOMAIN versions, NEW e \in EventType,
           versions' = versions, events' = [events EXCEPT ![v] = Append(@, e)]
    PROVE  TablesInv' /\ Kept
<1>1. versions[v] \in Version /\ versions' = [versions EXCEPT ![v] = versions[v]]
  BY DEF TablesInv
<1>2. Rewritten(v, versions[v], e)
  BY <1>1 DEF Rewritten
<1>. QED BY <1>1, <1>2, RowMoves

LEMMA DraftKeeps ==
    ASSUME PolicyInv, NEW policy \in Policies, createDraft(policy) PROVE PolicyInv'
<1>. DEFINE row == [state |-> "draft", policy |-> policy]
<1>1. row \in Version /\ row.state = "draft"
  BY DEF Version
<1>2. /\ versions' = Append(versions, row)
      /\ events' = Append(events, <<"draft_created">>)
      /\ Len(versions) < MaxVersions /\ canary' = canary
  BY DEF createDraft
<1>. HIDE DEF row
<1>3. /\ DOMAIN versions = 1..Len(versions) /\ DOMAIN events = 1..Len(versions)
      /\ Len(versions) \in Nat /\ MaxVersions \in Nat
      /\ <<"draft_created">> \in Seq(EventType)
  BY LenProperties, PolicyAssumption DEF PolicyInv, TablesInv, EventType
<1>4. /\ versions' \in Seq(Version) /\ Len(versions') = Len(versions) + 1
      /\ versions'[Len(versions) + 1] = row
      /\ \A v \in DOMAIN versions : versions'[v] = versions[v]
  BY <1>1, <1>2, AppendProperties DEF PolicyInv, TablesInv
<1>5. /\ events' \in Seq(Seq(EventType)) /\ Len(events') = Len(events) + 1
      /\ \A v \in DOMAIN events : events'[v] = events[v]
  BY <1>2, <1>3, AppendProperties DEF PolicyInv, TablesInv
<1>6. TablesInv' /\ Kept
  BY <1>2, <1>3, <1>4, <1>5 DEF PolicyInv, TablesInv, Kept
<1>. PICK n \in Nat : n = Len(versions) + 1
  BY <1>3
<1>7. DOMAIN versions' = DOMAIN versions \cup {n}
  BY <1>3, <1>4, LenProperties
<1>8. VersionSound(n)'
  <2>1. versions'[n].state = "draft"
    BY <1>1, <1>4
  <2>. QED BY <2>1 DEF VersionSound, In, Late
<1>9. \A v \in DOMAIN versions : VersionSound(v)'
  BY <1>4, <1>6, StaysSound DEF PolicyInv
<1>10. OneActive'
  BY <1>1, <1>4, <1>7 DEF PolicyInv, OneActive, In
<1>11. CanaryInv'
  BY <1>2, <1>3, <1>4 DEF PolicyInv, CanaryInv
<1>. QED BY <1>6, <1>7, <1>8, <1>9, <1>10, <1>11 DEF PolicyInv

(* The canary writes nothing but its evidence.                             *)
LEMMA SameSound ==
    ASSUME PolicyInv, UNCHANGED <<versions, events>>, CanaryInv' PROVE PolicyInv'
BY DEF PolicyInv, TablesInv, OneActive, VersionSound, In

LEMMA CanaryKeeps ==
    ASSUME PolicyInv,
           \/ \E v \in DOMAIN versions : StartCanary(v)
           \/ \E r \in Routes : RouteAnswers(r)
           \/ CanaryFails
    PROVE  PolicyInv'
<1>0. /\ Len(versions) \in Nat /\ DOMAIN versions = 1..Len(versions)
      /\ versions' = versions /\ events' = events
  BY LenProperties DEF PolicyInv, TablesInv, StartCanary, RouteAnswers, CanaryFails
<1>1. ASSUME NEW v \in DOMAIN versions, StartCanary(v) PROVE CanaryInv'
  <2>1. versions[v] \in Version
    BY DEF PolicyInv, TablesInv
  <2>3. versions[v].policy \in Seq(Routes)
    BY <2>1, PolicyAssumption DEF Version, Policy
  <2>2. Exercised(versions[v].policy) \subseteq Routes
    BY <2>3 DEF Exercised
  <2>. QED BY <1>0, <1>1, <2>2 DEF StartCanary, CanaryInv
<1>2. ASSUME NEW r \in Routes, RouteAnswers(r) PROVE CanaryInv'
  BY <1>0, <1>2 DEF RouteAnswers, PolicyInv, CanaryInv
<1>3. ASSUME CanaryFails PROVE CanaryInv'
  <2>1. canary' = [version |-> 0, left |-> {}]
    BY <1>3 DEF CanaryFails, NoCanary
  <2>2. canary'.version = 0 /\ canary'.left = {} /\ 0 \in 0..Len(versions')
    BY <2>1, <1>0
  <2>3. canary' = [version |-> canary'.version, left |-> canary'.left]
    BY <2>1
  <2>. QED BY <2>2, <2>3 DEF CanaryInv
<1>4. CanaryInv'
  <2>1. CASE \E v \in DOMAIN versions : StartCanary(v)
    BY <1>1, <2>1
  <2>2. CASE \E r \in Routes : RouteAnswers(r)
    BY <1>2, <2>2
  <2>. QED BY <2>1, <2>2, <1>3
<1>. QED BY <1>0, <1>4, SameSound

LEMMA EvidenceKeeps ==
    ASSUME PolicyInv, recordCanaryEvidence PROVE PolicyInv'
<1>. DEFINE v == canary.version
<1>1. /\ DOMAIN versions = 1..Len(versions) /\ Len(versions) \in Nat
      /\ canary = [version |-> canary.version, left |-> canary.left]
  BY LenProperties DEF PolicyInv, TablesInv, CanaryInv
<1>2. v \in DOMAIN versions
  BY <1>1 DEF PolicyInv, CanaryInv, recordCanaryEvidence, NoCanary
<1>3. /\ versions' = versions /\ canary' = NoCanary
      /\ events' = [events EXCEPT ![v] = Append(@, "canary_passed")]
  BY DEF recordCanaryEvidence, Log
<1>. HIDE DEF v
<1>4. TablesInv' /\ Kept
  BY <1>2, <1>3, RowStays DEF PolicyInv, EventType
<1>5. \A u \in DOMAIN versions : VersionSound(u)'
  BY <1>3, <1>4, StaysSound DEF PolicyInv
<1>6. OneActive' /\ CanaryInv'
  BY <1>1, <1>3 DEF PolicyInv, OneActive, In, CanaryInv, NoCanary
<1>. QED BY <1>3, <1>4, <1>5, <1>6 DEF PolicyInv

(* Validation adds its event after the evidence it asks for, approval      *)
(* after validation, to the log of the version itself.                     *)
LEMMA ShowsAt ==
    ASSUME NEW log \in Seq(EventType)
    PROVE  /\ (\E i \in DOMAIN log : log[i] = "canary_passed") =>
                  Shows(Append(log, "validated"), FALSE)
           /\ Shows(log, FALSE) => Shows(Append(log, "approved"), TRUE)
<1>1. ASSUME NEW e \in EventType
      PROVE  LET l == Append(log, e)
             IN /\ DOMAIN l = 1..(Len(log) + 1) /\ DOMAIN log = 1..Len(log)
                /\ l[Len(log) + 1] = e /\ \A i \in DOMAIN log : l[i] = log[i]
  BY AppendProperties, LenProperties
<1>2. Len(log) \in Nat
  BY LenProperties
<1>3. ASSUME NEW i \in DOMAIN log, log[i] = "canary_passed"
      PROVE  Shows(Append(log, "validated"), FALSE)
  <2>. DEFINE l == Append(log, "validated")
  <2>1. /\ DOMAIN l = 1..(Len(log) + 1) /\ DOMAIN log = 1..Len(log)
        /\ l[Len(log) + 1] = "validated" /\ \A j \in DOMAIN log : l[j] = log[j]
    BY <1>1 DEF EventType
  <2>. HIDE DEF l
  <2>2. i \in DOMAIN l /\ Len(log) + 1 \in DOMAIN l /\ i < Len(log) + 1
        /\ l[i] = "canary_passed"
    BY <1>2, <1>3, <2>1
  <2>3. Shows(l, FALSE)
    BY <2>1, <2>2 DEF Shows
  <2>. QED BY <2>3 DEF l
<1>4. ASSUME Shows(log, FALSE) PROVE Shows(Append(log, "approved"), TRUE)
  <2>. DEFINE l == Append(log, "approved")
  <2>1. /\ DOMAIN l = 1..(Len(log) + 1) /\ DOMAIN log = 1..Len(log)
        /\ l[Len(log) + 1] = "approved" /\ \A j \in DOMAIN log : l[j] = log[j]
    BY <1>1 DEF EventType
  <2>. HIDE DEF l
  <2>2. PICK i \in DOMAIN log, j \in DOMAIN log :
            i < j /\ log[i] = "canary_passed" /\ log[j] = "validated"
    BY <1>4 DEF Shows
  <2>3. /\ i \in DOMAIN l /\ j \in DOMAIN l /\ Len(log) + 1 \in DOMAIN l
        /\ l[i] = "canary_passed" /\ l[j] = "validated" /\ j < Len(log) + 1
    BY <1>2, <2>1, <2>2
  <2>4. Shows(l, TRUE)
    BY <2>1, <2>2, <2>3 DEF Shows
  <2>. QED BY <2>4 DEF l
<1>. QED BY <1>3, <1>4

(* The owner's validation and approval.                                    *)
LEMMA MoveKeeps ==
    ASSUME PolicyInv, NEW v \in DOMAIN versions, validate(v) \/ approve(v)
    PROVE  PolicyInv'
<1>. PICK to \in {"validated", "approved"} :
         IF to = "validated" THEN validate(v) ELSE approve(v)
  OBVIOUS
<1>. DEFINE from == IF to = "validated" THEN "draft" ELSE "validated"
<1>. PICK row : row = [versions[v] EXCEPT !.state = to]
  OBVIOUS
<1>1. /\ In(v, from) /\ canary' = canary
      /\ versions' = [versions EXCEPT ![v].state = to]
      /\ events' = [events EXCEPT ![v] = Append(@, to)]
  BY DEF validate, approve, Moves, Log
<1>2. /\ versions[v] \in Version /\ DOMAIN versions = 1..Len(versions)
      /\ DOMAIN events = 1..Len(versions) /\ events[v] \in Seq(EventType)
  BY LenProperties DEF PolicyInv, TablesInv
<1>3. /\ row \in Version /\ row.policy = versions[v].policy /\ row.state = to
      /\ versions' = [versions EXCEPT ![v] = row]
  BY <1>1, <1>2 DEF Version
<1>4. versions[v].state = from /\ to \in EventType
  BY <1>1 DEF In, EventType
<1>5. /\ to = "validated" => from = "draft"
      /\ to # "validated" => to = "approved" /\ from = "validated"
      /\ from \notin Late \cup {"active"} /\ to # "active"
  BY DEF Late
<1>t. TablesInv
  BY DEF PolicyInv
<1>. HIDE DEF from
<1>6. /\ TablesInv' /\ Kept /\ DOMAIN versions' = DOMAIN versions
      /\ Len(versions') = Len(versions)
      /\ versions'[v] = row /\ events'[v] = Append(events[v], to)
      /\ \A u \in DOMAIN versions \ {v} : versions'[u] = versions[u]
  <2>1. Rewritten(v, row, to)
    BY <1>1, <1>3 DEF Rewritten
  <2>. QED BY <1>t, <1>3, <1>4, <2>1, RowMoves
<1>7. \A u \in DOMAIN versions \ {v} : VersionSound(u)'
  BY <1>6, StaysSound DEF PolicyInv
<1>8. VersionSound(v)'
  <2>1. validatePolicy(versions[v].policy)
    BY <1>1, <1>4, <1>5 DEF PolicyInv, VersionSound, In, validate
  <2>2. CASE to = "validated"
    <3>1. Shows(events'[v], FALSE)
      BY <1>2, <1>6, <2>2, ShowsAt DEF validate, Passed
    <3>. QED BY <1>3, <1>6, <2>1, <2>2, <3>1 DEF VersionSound, In, Late
  <2>3. CASE to = "approved"
    <3>1. Shows(events[v], FALSE)
      BY <1>1, <1>5, <2>3 DEF PolicyInv, VersionSound, from
    <3>2. Shows(events'[v], TRUE)
      BY <1>2, <1>6, <2>3, <3>1, ShowsAt
    <3>3. v \in 1..v
      BY <1>2, LenProperties DEF PolicyInv, TablesInv
    <3>. QED BY <1>3, <1>6, <2>1, <2>3, <3>2, <3>3 DEF VersionSound, In, Late
  <2>. QED BY <2>2, <2>3
<1>9. OneActive'
  BY <1>3, <1>5, <1>6 DEF PolicyInv, OneActive, In
<1>10. CanaryInv'
  BY <1>1, <1>6 DEF PolicyInv, CanaryInv
<1>. QED BY <1>6, <1>7, <1>8, <1>9, <1>10 DEF PolicyInv

(* What the two tables a and l are after v has become the active one.      *)
MadeActive(rows, log, v, a, l) ==
    /\ a \in Seq(Version) /\ Len(a) = Len(rows)
    /\ l \in Seq(Seq(EventType)) /\ Len(l) = Len(rows)
    /\ \A u \in DOMAIN rows :
          /\ a[u].policy = rows[u].policy
          /\ a[u].state = IF u = v THEN "active"
                          ELSE IF rows[u].state = "active" THEN "superseded"
                          ELSE rows[u].state
          /\ l[u] = log[u] \/ \E e \in EventType : l[u] = Append(log[u], e)

LEMMA ActivationRows ==
    ASSUME NEW rows \in Seq(Version), NEW log \in Seq(Seq(EventType)),
           Len(log) = Len(rows), NEW v \in DOMAIN rows
    PROVE  MadeActive(rows, log, v, Activated(rows, v), ActivationLog(rows, log, v))
<1>. DEFINE a == Activated(rows, v)
            l == ActivationLog(rows, log, v)
<1>. PICK n \in Nat : n = Len(rows)
  BY LenProperties
<1>1. DOMAIN rows = 1..n /\ DOMAIN log = 1..n
  BY LenProperties
<1>2. \A u \in 1..n : rows[u] \in Version /\ log[u] \in Seq(EventType)
  BY <1>1
<1>3. \A u \in 1..n :
          /\ a[u] \in Version /\ a[u].policy = rows[u].policy
          /\ a[u].state = IF u = v THEN "active"
                          ELSE IF rows[u].state = "active" THEN "superseded"
                          ELSE rows[u].state
  BY <1>1, <1>2 DEF Activated, Version
<1>4. "activated" \in EventType /\ "superseded" \in EventType
  BY DEF EventType
<1>5. \A u \in 1..n : l[u] = log[u] \/ \E e \in EventType : l[u] = Append(log[u], e)
  BY <1>1, <1>4 DEF ActivationLog
<1>6. \A u \in 1..n : l[u] \in Seq(EventType)
  <2>. TAKE u \in 1..n
  <2>1. \A e \in EventType : Append(log[u], e) \in Seq(EventType)
    BY <1>2
  <2>. QED BY <2>1, <1>2, <1>5
<1>7. a = [u \in 1..n |-> a[u]] /\ l = [u \in 1..n |-> l[u]]
  BY <1>1 DEF Activated, ActivationLog
<1>. HIDE DEF a, l
<1>8. a \in [1..n -> Version] /\ l \in [1..n -> Seq(EventType)]
  BY <1>3, <1>6, <1>7
<1>9. a \in Seq(Version) /\ l \in Seq(Seq(EventType))
  <2>1. a \in UNION {[1..m -> Version] : m \in Nat}
    BY <1>8
  <2>2. a \in Seq(Version)
    BY <2>1, SeqDef
  <2>. DEFINE Logs == Seq(EventType)
  <2>3. l \in [1..n -> Logs]
    BY <1>8
  <2>. HIDE DEF Logs
  <2>4. l \in UNION {[1..m -> Logs] : m \in Nat}
    BY <2>3
  <2>5. l \in Seq(Logs)
    BY <2>4, SeqDef
  <2>. QED BY <2>2, <2>5 DEF Logs
<1>10. Len(a) = n /\ Len(l) = n
  BY <1>8, <1>9, LenProperties
<1>. QED BY <1>1, <1>3, <1>5, <1>9, <1>10 DEF a, l, MadeActive

LEMMA ActivateKeeps ==
    ASSUME PolicyInv, NEW v \in DOMAIN versions, activate(v) PROVE PolicyInv'
<1>1. /\ DOMAIN versions = 1..Len(versions) /\ Len(versions) \in Nat
      /\ versions \in Seq(Version) /\ events \in Seq(Seq(EventType))
      /\ Len(events) = Len(versions)
  BY LenProperties DEF PolicyInv, TablesInv
<1>2. /\ versions[v].state = "approved" /\ canary' = canary
      /\ versions' = Activated(versions, v)
      /\ events' = ActivationLog(versions, events, v)
  BY DEF activate, In
<1>3. /\ versions' \in Seq(Version) /\ Len(versions') = Len(versions)
      /\ events' \in Seq(Seq(EventType)) /\ Len(events') = Len(versions)
      /\ \A u \in DOMAIN versions :
            /\ versions'[u].policy = versions[u].policy
            /\ versions'[u].state = IF u = v THEN "active"
                                    ELSE IF versions[u].state = "active" THEN "superseded"
                                    ELSE versions[u].state
            /\ events'[u] = events[u] \/ \E e \in EventType : events'[u] = Append(events[u], e)
  <2>1. MadeActive(versions, events, v, versions', events')
    BY <1>1, <1>2, ActivationRows
  <2>. QED BY <2>1 DEF MadeActive
<1>4. TablesInv' /\ Kept /\ DOMAIN versions' = DOMAIN versions
  BY <1>1, <1>3, LenProperties DEF PolicyInv, TablesInv, Kept
<1>5. ASSUME NEW u \in DOMAIN versions PROVE VersionSound(u)'
  <2>1. \/ versions'[u].state = versions[u].state
        \/ versions[u].state \in Late /\ versions'[u].state \in Late
    BY <1>2, <1>3 DEF Late
  <2>. QED BY <2>1, <1>4, StaysSound DEF PolicyInv
<1>6. OneActive'
  BY <1>3, <1>4 DEF OneActive, In
<1>7. CanaryInv'
  BY <1>2, <1>3 DEF PolicyInv, CanaryInv
<1>. QED BY <1>4, <1>5, <1>6, <1>7 DEF PolicyInv

(* The copy has no evidence of its own: it is the superseded version's.    *)
LEMMA RollbackKeeps ==
    ASSUME PolicyInv, NEW target \in DOMAIN versions, rollback(target) PROVE PolicyInv'
<1>1. /\ DOMAIN versions = 1..Len(versions) /\ Len(versions) \in Nat
      /\ versions \in Seq(Version) /\ events \in Seq(Seq(EventType))
      /\ Len(events) = Len(versions) /\ DOMAIN events = 1..Len(versions)
      /\ versions[target] \in Version /\ MaxVersions \in Nat
  BY LenProperties, PolicyAssumption DEF PolicyInv, TablesInv
<1>. PICK n \in Nat : n = Len(versions) + 1
  BY <1>1
<1>. PICK row : row = [versions[target] EXCEPT !.state = "approved"]
  OBVIOUS
<1>. DEFINE rows == Append(versions, row)
            log == Append(events, <<"rollback_created">>)
<1>2. row \in Version /\ row.policy = versions[target].policy /\ row.state = "approved"
  BY <1>1 DEF Version
<1>3. <<"rollback_created">> \in Seq(EventType)
  BY DEF EventType
<1>4. /\ rows \in Seq(Version) /\ Len(rows) = n /\ rows[n] = row
      /\ \A u \in DOMAIN versions : rows[u] = versions[u]
      /\ log \in Seq(Seq(EventType)) /\ Len(log) = n
      /\ \A u \in DOMAIN versions : log[u] = events[u]
  BY <1>1, <1>2, <1>3, AppendProperties
<1>5. DOMAIN rows = 1..n /\ n \in DOMAIN rows /\ DOMAIN versions \cup {n} = 1..n
      /\ n \notin DOMAIN versions
  BY <1>1, <1>4, LenProperties
<1>6. /\ versions[target].state = "superseded" /\ Len(versions) < MaxVersions
      /\ versions' = Activated(rows, n) /\ events' = ActivationLog(rows, log, n)
      /\ canary' = canary
  BY <1>4 DEF rollback, In
<1>. HIDE DEF rows, log
<1>7. /\ versions' \in Seq(Version) /\ Len(versions') = n
      /\ events' \in Seq(Seq(EventType)) /\ Len(events') = n
      /\ \A u \in 1..n :
            /\ versions'[u].policy = rows[u].policy
            /\ versions'[u].state = IF u = n THEN "active"
                                    ELSE IF rows[u].state = "active" THEN "superseded"
                                    ELSE rows[u].state
            /\ events'[u] = log[u] \/ \E e \in EventType : events'[u] = Append(log[u], e)
  <2>1. MadeActive(rows, log, n, versions', events')
    BY <1>4, <1>5, <1>6, ActivationRows
  <2>. QED BY <2>1, <1>4, <1>5 DEF MadeActive
<1>8. \A u \in DOMAIN versions :
            /\ versions'[u].policy = versions[u].policy
            /\ versions'[u].state = IF versions[u].state = "active" THEN "superseded"
                                    ELSE versions[u].state
            /\ events'[u] = events[u] \/ \E e \in EventType : events'[u] = Append(events[u], e)
  <2>. SUFFICES ASSUME NEW u \in DOMAIN versions
       PROVE  /\ versions'[u].policy = versions[u].policy
              /\ versions'[u].state = IF versions[u].state = "active" THEN "superseded"
                                      ELSE versions[u].state
              /\ \/ events'[u] = events[u]
                 \/ \E e \in EventType : events'[u] = Append(events[u], e)
    OBVIOUS
  <2>1. u \in 1..n /\ u # n /\ rows[u] = versions[u] /\ log[u] = events[u]
    BY <1>4, <1>5
  <2>. QED BY <2>1, <1>7
<1>9. TablesInv'
  BY <1>1, <1>6, <1>7 DEF TablesInv
<1>10. Kept
  BY <1>1, <1>7, <1>8 DEF Kept
<1>11. DOMAIN versions' = DOMAIN versions \cup {n}
  BY <1>5, <1>7, LenProperties
<1>12. ASSUME NEW u \in DOMAIN versions PROVE VersionSound(u)'
  <2>1. \/ versions'[u].state = versions[u].state
        \/ versions[u].state \in Late /\ versions'[u].state \in Late
    BY <1>8 DEF Late
  <2>. QED BY <2>1, <1>9, <1>10, StaysSound DEF PolicyInv
<1>13. VersionSound(n)'
  <2>1. versions'[n].state = "active" /\ versions'[n].policy = versions'[target].policy
    BY <1>2, <1>4, <1>5, <1>7, <1>8
  <2>2. versions'[target].state = "superseded" /\ VersionSound(target)'
    BY <1>6, <1>8, <1>12
  <2>3. validatePolicy(versions'[n].policy)
    BY <2>1, <2>2 DEF VersionSound, In
  <2>4. \E u \in 1..n : /\ versions'[u].policy = versions'[n].policy
                        /\ Shows(events'[u], TRUE)
    <3>1. PICK u \in 1..target : /\ versions'[u].policy = versions'[target].policy
                                 /\ Shows(events'[u], TRUE)
      BY <2>2 DEF VersionSound, Late
    <3>2. u \in 1..n
      BY <1>1, <1>5
    <3>. QED BY <2>1, <3>1, <3>2
  <2>. QED BY <2>1, <2>3, <2>4 DEF VersionSound, In
<1>14. OneActive'
  BY <1>7, <1>8, <1>11 DEF OneActive, In
<1>15. CanaryInv'
  BY <1>1, <1>6, <1>7 DEF PolicyInv, CanaryInv
<1>. QED BY <1>9, <1>11, <1>12, <1>13, <1>14, <1>15 DEF PolicyInv

LEMMA PolicyInvHolds == Spec => []PolicyInv
<1>1. Init => PolicyInv
  <2>. SUFFICES ASSUME Init PROVE PolicyInv
    OBVIOUS
  <2>1. versions = <<>> /\ events = <<>> /\ canary = [version |-> 0, left |-> {}]
    BY DEF Init, PolicyInit, NoCanary
  <2>2. DOMAIN versions = {} /\ Len(versions) = 0 /\ Len(events) = 0
        /\ versions \in Seq(Version) /\ events \in Seq(Seq(EventType))
    BY <2>1
  <2>3. CanaryInv
    BY <2>1, <2>2 DEF CanaryInv
  <2>. QED BY <2>2, <2>3, PolicyAssumption DEF PolicyInv, TablesInv, OneActive
<1>2. PolicyInv /\ [Next]_vars => PolicyInv'
  <2>. SUFFICES ASSUME PolicyInv, [Next]_vars PROVE PolicyInv'
    OBVIOUS
  <2>1. CASE UNCHANGED policies
    BY <2>1, SameSound DEF policies, PolicyInv, CanaryInv
  <2>2. CASE PolicyNext
    BY <2>2, DraftKeeps, CanaryKeeps, EvidenceKeeps, MoveKeeps, ActivateKeeps, RollbackKeeps
       DEF PolicyNext
  <2>3. ASSUME NEW p \in Processes, QueueStep(p) \/ DriverStep(p)
        PROVE  UNCHANGED policies
    BY <2>3 DEF QueueStep, DriverStep, Lease, Return, Die, Stall, Restart, Resolve,
         ResolveFails, ProviderAnswers, ProviderFails, ProviderAbsent, ScopeChecked, Apply,
         ApplyFails, CopyWorkspace, CallFails, Accept, Reject, Revert, Commit, Record, Hook
  <2>. QED BY <2>1, <2>2, <2>3 DEF Next, OwnerStep, vars
<1>. QED BY <1>1, <1>2, PTL DEF Spec

(* At most one policy is active, and none leaves its draft without a live  *)
(* canary, a validation and an approval, in this order, of itself or of    *)
(* the version it is a copy of.                                            *)
THEOREM OnlyProvedIsActive == Spec => []ActiveIsProved
<1>1. PolicyInv => ActiveIsProved
  <2>. SUFFICES ASSUME PolicyInv PROVE ActiveIsProved
    OBVIOUS
  <2>1. PolicyTypeOK
    BY LenProperties DEF PolicyInv, TablesInv, CanaryInv, PolicyTypeOK
  <2>2. \A u, v \in DOMAIN versions : In(u, "active") /\ In(v, "active") => u = v
    BY DEF PolicyInv, OneActive
  <2>3. ASSUME NEW v \in DOMAIN versions, ~In(v, "draft")
        PROVE  /\ validatePolicy(versions[v].policy)
               /\ \E u \in 1..v : /\ versions[u].policy = versions[v].policy
                                  /\ Proved(u, ~In(v, "validated"))
    <3>1. VersionSound(v) /\ versions[v].state \in Late \cup {"validated"} /\ v \in 1..v
      <4>1. versions[v] \in Version /\ v \in 1..Len(versions) /\ Len(versions) \in Nat
        BY LenProperties DEF PolicyInv, TablesInv
      <4>2. versions[v].state \in {"draft", "validated", "approved", "active", "superseded"}
        BY <4>1 DEF Version
      <4>. QED BY <2>3, <4>1, <4>2 DEF PolicyInv, Late, In
    <3>2. \A u : \A a \in BOOLEAN : Shows(events[u], a) => Proved(u, a)
      BY DEF Shows, Proved
    <3>3. CASE In(v, "validated")
      BY <2>3, <3>1, <3>2, <3>3 DEF VersionSound
    <3>4. CASE ~In(v, "validated")
      BY <2>3, <3>1, <3>2, <3>4 DEF VersionSound, In
    <3>. QED BY <3>3, <3>4
  <2>. QED BY <2>1, <2>2, <2>3 DEF ActiveIsProved
<1>. QED BY <1>1, PolicyInvHolds, PTL

-----------------------------------------------------------------------------
(* The repository.                                                         *)

(* run[p], but for its route, which the repository does not depend on.     *)
Shaped(r) ==
    /\ r = [at |-> r.at, n |-> r.n, route |-> r.route, writes |-> r.writes, ok |-> r.ok]
    /\ r.at \in Steps /\ r.n \in Nat \ {0} /\ r.writes \subseteq Files /\ r.ok \in BOOLEAN

ShapeInv ==
    /\ run = [p \in Processes |-> run[p]]
    /\ \A p \in Processes : run[p] = NoRun \/ Shaped(run[p])
    /\ task = [state |-> task.state, attempt |-> task.attempt, holder |-> task.holder]
    /\ task.attempt \in Nat
    /\ \E S : artifacts \in Seq(S)

(* Only the lease holder is in an attempt, and it is the task's last.      *)
Alone ==
    \A p \in Processes : run[p] # NoRun =>
        task.holder = p /\ task.state = "running" /\ run[p].n = task.attempt

(* A committed file stays as it is, and no file is from an attempt to come.*)
TreeInv ==
    /\ {tree, head, copy} \subseteq [Files -> Nat]
    /\ \A f \in Files : tree[f] <= task.attempt /\ (head[f] # 0 => tree[f] = head[f])
    /\ \A f \in Files : head[f] # 0 => \E t \in passed : t[f] = head[f]

Verdict(a) ==
    /\ a.attempt \in 1..task.attempt
    /\ IF a.status = "accepted" THEN Wrote(head, a.attempt)
       ELSE ~Wrote(tree, a.attempt) /\ ~Wrote(head, a.attempt)

Accepted(n) ==
    \E i \in DOMAIN artifacts : artifacts[i].attempt = n /\ artifacts[i].status = "accepted"

VerdictInv ==
    /\ \A i \in DOMAIN artifacts : Verdict(artifacts[i])
    /\ task.state = "succeeded" => Accepted(task.attempt)

Unapplied == {"resolve", "call", "scope", "apply"}
Applied == {"copy", "verify", "revert", "commit"}

(* What an attempt has made of the repository by each of its steps.        *)
RunSound(r) ==
    /\ r.at \in Unapplied =>
          /\ ~r.ok /\ ~Wrote(tree, r.n)
          /\ \A i \in DOMAIN artifacts : artifacts[i].attempt # r.n
    /\ r.at \in {"scope", "apply"} => r.writes # {}
    /\ r.at \in Applied => ~r.ok /\ Wrote(tree, r.n) /\ ~Wrote(head, r.n)
    /\ r.at \in {"verify", "commit"} => \A f \in Files : tree[f] # 0 => copy[f] = tree[f]
    /\ r.at = "commit" => copy \in passed
    /\ r.at = "record" => IF r.ok THEN Wrote(head, r.n)
                          ELSE ~Wrote(tree, r.n) /\ ~Wrote(head, r.n)
    /\ r.at \in {"hook", "return"} /\ r.ok => Accepted(r.n)

RunInv == \A p \in Processes : run[p] # NoRun => RunSound(run[p])

Quiet == ShapeInv /\ Alone /\ TreeInv /\ VerdictInv /\ RunInv

PatchInv == stalled \/ Quiet

LEMMA OnlyRun ==
    ASSUME Quiet, NEW p \in Processes, run[p] # NoRun
    PROVE  /\ Shaped(run[p]) /\ RunSound(run[p]) /\ run[p].n = task.attempt
           /\ task.state = "running"
           /\ \A q \in Processes \ {p} : run[q] = NoRun
BY DEF Quiet, ShapeInv, Alone, RunInv

(* A step of the driver, from what it leaves of the repository.            *)
LEMMA Closes ==
    ASSUME Quiet, NEW p \in Processes, run[p] # NoRun,
           NEW r, Shaped(r), r.n = run[p].n, run' = [run EXCEPT ![p] = r],
           UNCHANGED task, \E S : artifacts' \in Seq(S),
           TreeInv', VerdictInv', RunSound(r)'
    PROVE  Quiet'
<1>1. /\ run' = [q \in Processes |-> run'[q]] /\ run'[p] = r
      /\ \A q \in Processes \ {p} : run'[q] = NoRun
  <2>1. \A q \in Processes \ {p} : run[q] = NoRun
    BY OnlyRun
  <2>. QED BY <2>1 DEF Quiet, ShapeInv
<1>2. ShapeInv'
  <2>1. \A q \in Processes : run'[q] = NoRun \/ Shaped(run'[q])
    BY <1>1
  <2>. QED BY <1>1, <2>1 DEF Quiet, ShapeInv
<1>3. Alone'
  BY <1>1 DEF Quiet, Alone
<1>4. RunInv'
  BY <1>1 DEF RunInv
<1>. QED BY <1>2, <1>3, <1>4 DEF Quiet

LEMMA NoEffect ==
    ASSUME Quiet, NEW p \in Processes, run[p] # NoRun,
           NEW r, Shaped(r), r.n = run[p].n, run' = [run EXCEPT ![p] = r],
           UNCHANGED <<task, artifacts, repository>>, passed \subseteq passed',
           RunSound(r)'
    PROVE  Quiet'
<1>1. TreeInv'
  BY DEF Quiet, TreeInv, repository
<1>2. VerdictInv'
  BY DEF Quiet, VerdictInv, Verdict, Accepted, Wrote, repository
<1>3. \E S : artifacts' \in Seq(S)
  BY DEF Quiet, ShapeInv
<1>. QED BY <1>1, <1>2, <1>3, Closes

(* A step that only says where the attempt is.                             *)
LEMMA GoesOn ==
    ASSUME NEW p \in Processes, Shaped(run[p]), run = [q \in Processes |-> run[q]],
           NEW step \in Steps, Goto(p, step)
    PROVE  \E r : /\ Shaped(r) /\ r.n = run[p].n /\ run' = [run EXCEPT ![p] = r]
                  /\ r.at = step /\ r.ok = run[p].ok /\ r.writes = run[p].writes
<1>. DEFINE r == [run[p] EXCEPT !.at = step]
<1>1. /\ r = [at |-> step, n |-> run[p].n, route |-> run[p].route,
              writes |-> run[p].writes, ok |-> run[p].ok]
  BY DEF Shaped
<1>2. run' = [run EXCEPT ![p] = r]
  BY DEF Goto
<1>3. Shaped(r)
  BY <1>1 DEF Shaped
<1>4. /\ r.n = run[p].n /\ r.at = step /\ r.writes = run[p].writes
      /\ r.ok = run[p].ok
  BY <1>1
<1>. HIDE DEF r
<1>. QED BY <1>2, <1>3, <1>4

(* A driver that throws says nothing more of the repository.               *)
LEMMA ThrowKeeps ==
    ASSUME Quiet, NEW p \in Processes, run[p] # NoRun, Throws(p),
           UNCHANGED <<task, artifacts, repository, passed>>
    PROVE  Quiet'
<1>1. Shaped(run[p]) /\ run = [q \in Processes |-> run[q]]
  BY OnlyRun DEF Quiet, ShapeInv
<1>2. PICK r : r = [run[p] EXCEPT !.at = "return", !.ok = FALSE]
  OBVIOUS
<1>3. r = [at |-> "return", n |-> run[p].n, route |-> run[p].route,
           writes |-> run[p].writes, ok |-> FALSE]
  BY <1>1, <1>2 DEF Shaped
<1>4. run' = [run EXCEPT ![p] = r]
  BY <1>2 DEF Throws
<1>5. Shaped(r)
  BY <1>1, <1>3 DEF Shaped, Steps
<1>6. RunSound(r)'
  BY <1>3 DEF RunSound, Unapplied, Applied
<1>. QED BY <1>3, <1>4, <1>5, <1>6, NoEffect

(* The steps that leave the repository and the verdicts alone.             *)
LEMMA QuietSteps ==
    ASSUME Quiet, NEW p \in Processes,
           \/ Resolve(p) \/ ResolveFails(p)
           \/ ProviderAnswers(p) \/ ProviderFails(p) \/ ProviderAbsent(p) \/ ScopeChecked(p)
           \/ ApplyFails(p) \/ CallFails(p) \/ Accept(p) \/ Reject(p) \/ Hook(p)
    PROVE  Quiet'
<1>1. run[p] # NoRun
  <2>1. run[p].at # "none"
    BY DEF Resolve, ResolveFails, ProviderAnswers, ProviderFails, ProviderAbsent,
           ScopeChecked, ApplyFails, CallFails, Accept, Reject, Hook, At
  <2>. QED BY <2>1 DEF NoRun
<1>2. /\ Shaped(run[p]) /\ RunSound(run[p]) /\ run = [q \in Processes |-> run[q]]
      /\ run[p].n \in Nat \ {0} /\ TreeInv
  BY <1>1, OnlyRun DEF Quiet, ShapeInv, Shaped
<1>h. \A f \in Files : head[f] = run[p].n => tree[f] = run[p].n
  BY <1>2 DEF TreeInv
<1>3. CASE Resolve(p)
  <2>1. /\ At(p, "resolve") /\ UNCHANGED <<task, artifacts, repository, passed>>
        /\ \E active, models, rows, listed : Resolved(p, active, models, rows, listed)
    BY <1>3 DEF Resolve
  <2>2. PICK route : run' = [run EXCEPT ![p].at = "call", ![p].route = route]
    BY <2>1 DEF Resolved
  <2>3. PICK r : r = [run[p] EXCEPT !.at = "call", !.route = route]
    OBVIOUS
  <2>4. r = [at |-> "call", n |-> run[p].n, route |-> route,
             writes |-> run[p].writes, ok |-> run[p].ok]
    BY <1>2, <2>3 DEF Shaped
  <2>5. run' = [run EXCEPT ![p] = r]
    BY <2>2, <2>3
  <2>6. Shaped(r)
    BY <1>2, <2>4 DEF Shaped, Steps
  <2>7. RunSound(r)'
    BY <1>2, <2>1, <2>4 DEF RunSound, At, Unapplied, Applied, Wrote, repository
  <2>. QED BY <1>1, <2>1, <2>4, <2>5, <2>6, <2>7, NoEffect
<1>4. CASE ProviderAnswers(p)
  <2>1. /\ At(p, "call") /\ UNCHANGED <<task, artifacts, repository, passed>>
    BY <1>4 DEF ProviderAnswers, past
  <2>2. PICK writes \in (SUBSET Files) \ {{}} :
            run' = [run EXCEPT ![p].at = "scope", ![p].writes = writes]
    BY <1>4 DEF ProviderAnswers
  <2>3. PICK r : r = [run[p] EXCEPT !.at = "scope", !.writes = writes]
    OBVIOUS
  <2>4. r = [at |-> "scope", n |-> run[p].n, route |-> run[p].route,
             writes |-> writes, ok |-> run[p].ok]
    BY <1>2, <2>3 DEF Shaped
  <2>5. run' = [run EXCEPT ![p] = r]
    BY <2>2, <2>3
  <2>6. Shaped(r)
    BY <1>2, <2>4 DEF Shaped, Steps
  <2>7. /\ r.at = "scope" /\ r.n = run[p].n /\ r.ok = run[p].ok /\ r.writes = writes
        /\ UNCHANGED <<artifacts, tree>>
    BY <2>1, <2>4 DEF repository
  <2>9. r.writes # {}
    BY <2>2, <2>7
  <2>8. RunSound(r)'
    BY <1>2, <2>1, <2>7, <2>9 DEF RunSound, At, Unapplied, Applied, Wrote
  <2>. QED BY <1>1, <2>1, <2>4, <2>5, <2>6, <2>8, NoEffect
<1>5. CASE ResolveFails(p) \/ ProviderFails(p) \/ ProviderAbsent(p)
  BY <1>1, <1>5, ThrowKeeps DEF ResolveFails, ProviderFails, ProviderAbsent, past
<1>6. CASE ScopeChecked(p)
  <2>1. /\ At(p, "scope") /\ UNCHANGED <<task, artifacts, repository, passed>>
        /\ Goto(p, "apply") \/ Goto(p, "record")
    BY <1>6 DEF ScopeChecked, past
  <2>2. PICK r : /\ Shaped(r) /\ r.n = run[p].n /\ run' = [run EXCEPT ![p] = r]
                 /\ r.at \in {"apply", "record"}
                 /\ r.ok = run[p].ok /\ r.writes = run[p].writes
    BY <1>2, <2>1, GoesOn DEF Steps
  <2>3. RunSound(r)'
    BY <1>2, <1>h, <2>1, <2>2 DEF RunSound, At, Unapplied, Applied, Wrote, repository
  <2>. QED BY <1>1, <2>1, <2>2, <2>3, NoEffect
<1>7. CASE ApplyFails(p)
  <2>1. /\ At(p, "apply") /\ UNCHANGED <<task, artifacts, repository, passed>>
        /\ Goto(p, "record")
    BY <1>7 DEF ApplyFails, past
  <2>2. PICK r : /\ Shaped(r) /\ r.n = run[p].n /\ run' = [run EXCEPT ![p] = r]
                 /\ r.at = "record" /\ r.ok = run[p].ok
    BY <1>2, <2>1, GoesOn DEF Steps
  <2>3. RunSound(r)'
    BY <1>2, <1>h, <2>1, <2>2 DEF RunSound, At, Unapplied, Applied, Wrote, repository
  <2>. QED BY <1>1, <2>1, <2>2, <2>3, NoEffect
<1>8. CASE CallFails(p)
  BY <1>1, <1>8, ThrowKeeps DEF CallFails, past
<1>9. CASE Accept(p)
  <2>1. /\ At(p, "verify") /\ UNCHANGED <<task, artifacts, repository>>
        /\ Goto(p, "commit") /\ passed' = passed \cup {copy}
    BY <1>9 DEF Accept
  <2>2. PICK r : /\ Shaped(r) /\ r.n = run[p].n /\ run' = [run EXCEPT ![p] = r]
                 /\ r.at = "commit" /\ r.ok = run[p].ok
    BY <1>2, <2>1, GoesOn DEF Steps
  <2>3. RunSound(r)'
    BY <1>2, <2>1, <2>2 DEF RunSound, At, Unapplied, Applied, Wrote, repository
  <2>. QED BY <1>1, <2>1, <2>2, <2>3, NoEffect
<1>10. CASE Reject(p)
  <2>1. /\ At(p, "verify") /\ UNCHANGED <<task, artifacts, repository, passed>>
        /\ Goto(p, "revert")
    BY <1>10 DEF Reject, past
  <2>2. PICK r : /\ Shaped(r) /\ r.n = run[p].n /\ run' = [run EXCEPT ![p] = r]
                 /\ r.at = "revert" /\ r.ok = run[p].ok
    BY <1>2, <2>1, GoesOn DEF Steps
  <2>3. RunSound(r)'
    BY <1>2, <2>1, <2>2 DEF RunSound, At, Unapplied, Applied, Wrote, repository
  <2>. QED BY <1>1, <2>1, <2>2, <2>3, NoEffect
<1>11. CASE Hook(p)
  <2>1. /\ At(p, "hook") /\ UNCHANGED <<task, artifacts, repository, passed>>
        /\ Goto(p, "return")
    BY <1>11 DEF Hook, past
  <2>2. PICK r : /\ Shaped(r) /\ r.n = run[p].n /\ run' = [run EXCEPT ![p] = r]
                 /\ r.at = "return" /\ r.ok = run[p].ok
    BY <1>2, <2>1, GoesOn DEF Steps
  <2>3. RunSound(r)'
    BY <1>2, <2>1, <2>2 DEF RunSound, At, Unapplied, Applied, Accepted
  <2>. QED BY <1>1, <2>1, <2>2, <2>3, NoEffect
<1>. QED BY <1>3, <1>4, <1>5, <1>6, <1>7, <1>8, <1>9, <1>10, <1>11

(* The files of a patch are new ones, and the attempt's own.               *)
LEMMA ApplyKeeps ==
    ASSUME Quiet, NEW p \in Processes, Apply(p) PROVE Quiet'
<1>1. /\ run[p] # NoRun /\ run[p].at = "apply"
      /\ UNCHANGED <<task, artifacts, head, copy, passed>>
      /\ \A f \in run[p].writes : tree[f] = 0
      /\ tree' = [f \in Files |-> IF f \in run[p].writes THEN run[p].n ELSE tree[f]]
  BY DEF Apply, At, NoRun, past
<1>2. /\ Shaped(run[p]) /\ RunSound(run[p]) /\ run = [q \in Processes |-> run[q]]
      /\ TreeInv /\ VerdictInv /\ run[p].n = task.attempt
      /\ \E S : artifacts \in Seq(S)
  BY <1>1, OnlyRun DEF Quiet, ShapeInv
<1>3. PICK n \in Nat \ {0} : n = run[p].n
  BY <1>2 DEF Shaped
<1>4. PICK writes \in SUBSET Files : writes = run[p].writes
  BY <1>2 DEF Shaped
<1>5. writes # {} /\ ~Wrote(tree, n) /\ ~run[p].ok
      /\ \A i \in DOMAIN artifacts : artifacts[i].attempt # n
  BY <1>1, <1>2, <1>3, <1>4 DEF RunSound, Unapplied
<1>6. \A f \in Files : tree'[f] = IF f \in writes THEN n ELSE tree[f]
  BY <1>1, <1>3, <1>4
<1>7. \A f \in Files : tree[f] \in Nat /\ tree[f] <= n /\ (head[f] # 0 => tree[f] = head[f])
  BY <1>2, <1>3 DEF TreeInv
<1>8. PICK r : r = [run[p] EXCEPT !.at = "copy", !.writes = {}]
  OBVIOUS
<1>9. r = [at |-> "copy", n |-> n, route |-> run[p].route, writes |-> {},
           ok |-> run[p].ok]
  BY <1>2, <1>3, <1>8 DEF Shaped
<1>10. run' = [run EXCEPT ![p] = r]
  BY <1>8 DEF Apply
<1>11. Shaped(r)
  BY <1>2, <1>9 DEF Shaped, Steps
<1>12. TreeInv'
  <2>1. tree' \in [Files -> Nat]
    BY <1>1, <1>3, <1>4, <1>7
  <2>2. \A f \in Files : tree'[f] <= n /\ (head[f] # 0 => tree'[f] = head[f])
    BY <1>1, <1>4, <1>6, <1>7
  <2>. QED BY <1>1, <1>2, <1>3, <2>1, <2>2 DEF TreeInv
<1>13. VerdictInv'
  <2>1. ASSUME NEW i \in DOMAIN artifacts PROVE Verdict(artifacts[i])'
    <3>1. Verdict(artifacts[i]) /\ artifacts[i].attempt # n
      BY <1>2, <1>5 DEF VerdictInv
    <3>2. Wrote(tree', artifacts[i].attempt) => Wrote(tree, artifacts[i].attempt)
      BY <1>6, <3>1 DEF Wrote
    <3>. QED BY <1>1, <3>1, <3>2 DEF Verdict
  <2>. QED BY <1>1, <1>2, <2>1 DEF VerdictInv, Accepted
<1>14. RunSound(r)'
  <2>1. Wrote(tree', n)
    BY <1>5, <1>6 DEF Wrote
  <2>2. ~Wrote(head, n)
    BY <1>5, <1>7 DEF Wrote
  <2>. QED BY <1>1, <1>5, <1>9, <2>1, <2>2 DEF RunSound, Unapplied, Applied
<1>. QED BY <1>1, <1>2, <1>3, <1>9, <1>10, <1>11, <1>12, <1>13, <1>14, Closes

LEMMA CopyKeeps ==
    ASSUME Quiet, NEW p \in Processes, CopyWorkspace(p) PROVE Quiet'
<1>1. /\ run[p] # NoRun /\ run[p].at = "copy" /\ Goto(p, "verify")
      /\ UNCHANGED <<task, artifacts, tree, head, passed>>
      /\ copy' = [f \in Files |-> IF tree[f] # 0 THEN tree[f] ELSE copy[f]]
  BY DEF CopyWorkspace, Copied, At, NoRun, past
<1>2. /\ Shaped(run[p]) /\ RunSound(run[p]) /\ run = [q \in Processes |-> run[q]]
      /\ TreeInv /\ VerdictInv /\ \E S : artifacts \in Seq(S)
  BY <1>1, OnlyRun DEF Quiet, ShapeInv
<1>3. PICK r : /\ Shaped(r) /\ r.n = run[p].n /\ run' = [run EXCEPT ![p] = r]
               /\ r.at = "verify" /\ r.ok = run[p].ok
  BY <1>1, <1>2, GoesOn DEF Steps
<1>4. TreeInv'
  <2>1. copy' \in [Files -> Nat]
    BY <1>1, <1>2 DEF TreeInv
  <2>. QED BY <1>1, <1>2, <2>1 DEF TreeInv
<1>5. VerdictInv'
  BY <1>1, <1>2 DEF VerdictInv, Verdict, Accepted, Wrote
<1>6. \A f \in Files : tree[f] # 0 => copy'[f] = tree[f]
  BY <1>1
<1>7. RunSound(r)'
  BY <1>1, <1>2, <1>3, <1>6 DEF RunSound, Unapplied, Applied, Wrote
<1>. QED BY <1>1, <1>2, <1>3, <1>4, <1>5, <1>7, Closes

LEMMA RevertKeeps ==
    ASSUME Quiet, NEW p \in Processes, Revert(p) PROVE Quiet'
<1>1. /\ run[p] # NoRun /\ run[p].at = "revert" /\ Goto(p, "record")
      /\ UNCHANGED <<task, artifacts, head, copy, passed>> /\ tree' = head
  BY DEF Revert, At, NoRun, past
<1>2. /\ Shaped(run[p]) /\ RunSound(run[p]) /\ run = [q \in Processes |-> run[q]]
      /\ TreeInv /\ VerdictInv /\ \E S : artifacts \in Seq(S)
      /\ task.attempt \in Nat
  BY <1>1, OnlyRun DEF Quiet, ShapeInv
<1>3. PICK r : /\ Shaped(r) /\ r.n = run[p].n /\ run' = [run EXCEPT ![p] = r]
               /\ r.at = "record" /\ r.ok = run[p].ok
  BY <1>1, <1>2, GoesOn DEF Steps
<1>4. TreeInv'
  <2>1. \A f \in Files : head[f] <= task.attempt
    <3>. SUFFICES ASSUME NEW f \in Files PROVE head[f] <= task.attempt
      OBVIOUS
    <3>1. head[f] \in Nat /\ (head[f] # 0 => head[f] <= task.attempt)
      BY <1>2 DEF TreeInv
    <3>. QED BY <3>1, <1>2
  <2>. QED BY <1>1, <1>2, <2>1 DEF TreeInv
<1>5. VerdictInv'
  <2>1. ASSUME NEW i \in DOMAIN artifacts PROVE Verdict(artifacts[i])'
    BY <1>1, <1>2 DEF VerdictInv, Verdict
  <2>. QED BY <1>1, <1>2, <2>1 DEF VerdictInv, Accepted
<1>6. RunSound(r)'
  BY <1>1, <1>2, <1>3 DEF RunSound, Unapplied, Applied, Wrote
<1>. QED BY <1>1, <1>2, <1>3, <1>4, <1>5, <1>6, Closes

(* What is committed is in the copy that passed.                           *)
LEMMA CommitKeeps ==
    ASSUME Quiet, NEW p \in Processes, Commit(p) PROVE Quiet'
<1>1. /\ run[p] # NoRun /\ run[p].at = "commit"
      /\ UNCHANGED <<task, artifacts, tree, copy, passed>>
  BY DEF Commit, At, NoRun, past
<1>2. /\ Shaped(run[p]) /\ RunSound(run[p]) /\ run = [q \in Processes |-> run[q]]
      /\ TreeInv /\ VerdictInv /\ \E S : artifacts \in Seq(S)
  BY <1>1, OnlyRun DEF Quiet, ShapeInv
<1>3. CASE tree = head
  BY <1>1, <1>3, ThrowKeeps DEF Commit, repository
<1>4. CASE tree # head
  <2>1. head' = tree /\ run' = [run EXCEPT ![p].at = "record", ![p].ok = TRUE]
    BY <1>4 DEF Commit
  <2>2. PICK r : r = [run[p] EXCEPT !.at = "record", !.ok = TRUE]
    OBVIOUS
  <2>3. r = [at |-> "record", n |-> run[p].n, route |-> run[p].route,
             writes |-> run[p].writes, ok |-> TRUE]
    BY <1>2, <2>2 DEF Shaped
  <2>4. run' = [run EXCEPT ![p] = r]
    BY <2>1, <2>2
  <2>5. Shaped(r)
    BY <1>2, <2>3 DEF Shaped, Steps
  <2>6. TreeInv'
    <3>1. \A f \in Files : tree[f] # 0 => copy[f] = tree[f]
      BY <1>1, <1>2 DEF RunSound
    <3>2. copy \in passed
      BY <1>1, <1>2 DEF RunSound
    <3>3. \A f \in Files : tree[f] # 0 => \E t \in passed : t[f] = tree[f]
      BY <3>1, <3>2
    <3>. QED BY <1>1, <1>2, <2>1, <3>3 DEF TreeInv
  <2>7. VerdictInv'
    <3>1. ASSUME NEW i \in DOMAIN artifacts PROVE Verdict(artifacts[i])'
      <4>1. Verdict(artifacts[i])
        BY <1>2 DEF VerdictInv
      <4>2. ASSUME Wrote(head, artifacts[i].attempt)
            PROVE  Wrote(tree, artifacts[i].attempt)
        <5>1. PICK f \in Files : head[f] = artifacts[i].attempt
          BY <4>2 DEF Wrote
        <5>2. head[f] # 0
          BY <4>1, <5>1 DEF Verdict
        <5>. QED BY <1>2, <5>1, <5>2 DEF TreeInv, Wrote
      <4>. QED BY <1>1, <2>1, <4>1, <4>2 DEF Verdict
    <3>. QED BY <1>1, <1>2, <3>1 DEF VerdictInv, Accepted
  <2>8. RunSound(r)'
    <3>1. Wrote(tree, run[p].n)
      BY <1>1, <1>2 DEF RunSound, Applied
    <3>. QED BY <2>1, <2>3, <3>1 DEF RunSound, Unapplied, Applied
  <2>. QED BY <1>1, <1>2, <2>3, <2>4, <2>5, <2>6, <2>7, <2>8, Closes
<1>. QED BY <1>3, <1>4

(* The verdict's row is true of the repository as the attempt leaves it.   *)
LEMMA RecordKeeps ==
    ASSUME Quiet, NEW p \in Processes, Record(p) PROVE Quiet'
<1>1. /\ run[p] # NoRun /\ run[p].at = "record"
      /\ UNCHANGED <<task, tree, head, copy, passed>>
  BY DEF Record, At, NoRun, past, repository
<1>2. /\ Shaped(run[p]) /\ RunSound(run[p]) /\ run = [q \in Processes |-> run[q]]
      /\ TreeInv /\ VerdictInv /\ run[p].n = task.attempt /\ task.attempt \in Nat
      /\ task.state = "running"
  BY <1>1, OnlyRun DEF Quiet, ShapeInv
<1>3. PICK a : a = [attempt |-> run[p].n, route |-> run[p].route,
                    status |-> IF run[p].ok THEN "accepted" ELSE "rejected"]
  OBVIOUS
<1>4. PICK S : artifacts \in Seq(S)
  BY DEF Quiet, ShapeInv
<1>5. artifacts' = Append(artifacts, a)
  BY <1>3 DEF Record
<1>6. artifacts \in Seq(S \cup {a}) /\ a \in S \cup {a}
  <2>1. PICK m \in Nat : artifacts \in [1..m -> S]
    BY <1>4, SeqDef
  <2>2. artifacts \in [1..m -> S \cup {a}]
    BY <2>1
  <2>3. artifacts \in UNION {[1..k -> S \cup {a}] : k \in Nat}
    BY <2>2
  <2>. QED BY <2>3, SeqDef
<1>7. /\ artifacts' \in Seq(S \cup {a})
      /\ DOMAIN artifacts' = DOMAIN artifacts \cup {Len(artifacts) + 1}
      /\ artifacts'[Len(artifacts) + 1] = a
      /\ \A i \in DOMAIN artifacts : artifacts'[i] = artifacts[i]
  <2>1. /\ Append(artifacts, a) \in Seq(S \cup {a})
        /\ Len(Append(artifacts, a)) = Len(artifacts) + 1
        /\ \A i \in 1..Len(artifacts) : Append(artifacts, a)[i] = artifacts[i]
        /\ Append(artifacts, a)[Len(artifacts) + 1] = a
    BY <1>6, AppendProperties
  <2>2. DOMAIN Append(artifacts, a) = 1..(Len(artifacts) + 1)
    BY <2>1, LenProperties
  <2>3. DOMAIN artifacts = 1..Len(artifacts) /\ Len(artifacts) \in Nat
    BY <1>6, LenProperties
  <2>. QED BY <1>5, <2>1, <2>2, <2>3
<1>8. PICK r : /\ Shaped(r) /\ r.n = run[p].n /\ run' = [run EXCEPT ![p] = r]
               /\ r.at = (IF run[p].ok THEN "hook" ELSE "return") /\ r.ok = run[p].ok
  <2>1. Goto(p, IF run[p].ok THEN "hook" ELSE "return")
    BY DEF Record
  <2>2. (IF run[p].ok THEN "hook" ELSE "return") \in Steps
    BY DEF Steps
  <2>. QED BY <1>2, <2>1, <2>2, GoesOn
<1>9. TreeInv'
  BY <1>1, <1>2 DEF TreeInv
<1>10. Verdict(a)
  <2>1. a.attempt = run[p].n /\ a.attempt \in 1..task.attempt
    BY <1>2, <1>3 DEF Shaped
  <2>2. a.status = IF run[p].ok THEN "accepted" ELSE "rejected"
    BY <1>3
  <2>3. IF run[p].ok THEN Wrote(head, run[p].n)
        ELSE ~Wrote(tree, run[p].n) /\ ~Wrote(head, run[p].n)
    BY <1>1, <1>2 DEF RunSound
  <2>. QED BY <2>1, <2>2, <2>3 DEF Verdict
<1>11. VerdictInv'
  <2>1. \A i \in DOMAIN artifacts' : Verdict(artifacts'[i])
    BY <1>2, <1>7, <1>10 DEF VerdictInv
  <2>2. ASSUME NEW i \in DOMAIN artifacts' PROVE Verdict(artifacts[i])'
    BY <1>1, <2>1 DEF Verdict
  <2>. QED BY <1>1, <1>2, <2>2 DEF VerdictInv
<1>12. RunSound(r)'
  <2>1. r.ok => Accepted(r.n)'
    <3>1. a.attempt = r.n /\ (r.ok => a.status = "accepted")
      BY <1>3, <1>8
    <3>. QED BY <1>7, <3>1 DEF Accepted
  <2>. QED BY <1>8, <2>1 DEF RunSound, Unapplied, Applied
<1>13. \E T : artifacts' \in Seq(T)
  BY <1>7
<1>. QED BY <1>1, <1>8, <1>9, <1>11, <1>12, <1>13, Closes

(* The queue, as long as no process outlives its lease.                    *)
LEMMA LeaseKeeps ==
    ASSUME Quiet, NEW p \in Processes, Lease(p) PROVE Quiet'
<1>1. /\ run[p] = NoRun /\ task.state = "queued"
      /\ task' = [state |-> "running", attempt |-> task.attempt + 1, holder |-> p]
      /\ run' = [run EXCEPT ![p] = [at |-> "resolve", n |-> task.attempt + 1,
                                    route |-> Chain[1], writes |-> {}, ok |-> FALSE]]
      /\ UNCHANGED <<artifacts, tree, head, copy, passed>>
  BY DEF Lease, repository, past
<1>2. /\ TreeInv /\ VerdictInv /\ run = [q \in Processes |-> run[q]]
      /\ \A q \in Processes : run[q] = NoRun
      /\ \E S : artifacts \in Seq(S)
  BY <1>1 DEF Quiet, ShapeInv, Alone
<1>3. PICK k \in Nat : k = task.attempt
  BY DEF Quiet, ShapeInv
<1>4. PICK r : r = [at |-> "resolve", n |-> k + 1, route |-> Chain[1],
                    writes |-> {}, ok |-> FALSE]
  OBVIOUS
<1>5. /\ run' = [q \in Processes |-> run'[q]] /\ run'[p] = r
      /\ \A q \in Processes \ {p} : run'[q] = NoRun
      /\ task'.attempt = k + 1 /\ task'.state = "running" /\ task'.holder = p
      /\ task' = [state |-> task'.state, attempt |-> task'.attempt, holder |-> task'.holder]
  BY <1>1, <1>2, <1>3, <1>4
<1>6. ShapeInv'
  <2>1. Shaped(r)
    BY <1>4 DEF Shaped, Steps
  <2>2. \A q \in Processes : run'[q] = NoRun \/ Shaped(run'[q])
    BY <1>5, <2>1
  <2>3. \E S : artifacts' \in Seq(S)
    BY <1>1, <1>2
  <2>4. task'.attempt \in Nat
    BY <1>3, <1>5
  <2>. QED BY <1>5, <2>2, <2>3, <2>4 DEF ShapeInv
<1>7. Alone'
  BY <1>4, <1>5 DEF Alone
<1>t. \A f \in Files : tree[f] \in Nat /\ tree[f] <= k
  BY <1>2, <1>3 DEF TreeInv
<1>8. TreeInv'
  BY <1>1, <1>2, <1>5, <1>t DEF TreeInv
<1>9. VerdictInv'
  <2>1. ASSUME NEW i \in DOMAIN artifacts PROVE Verdict(artifacts[i])'
    BY <1>1, <1>2, <1>3, <1>5 DEF VerdictInv, Verdict
  <2>. QED BY <1>1, <1>5, <2>1 DEF VerdictInv
<1>10. RunSound(r)'
  <2>1. ~Wrote(tree, k + 1)
    BY <1>t DEF Wrote
  <2>2. \A i \in DOMAIN artifacts : artifacts[i].attempt # k + 1
    BY <1>2, <1>3 DEF VerdictInv, Verdict
  <2>. QED BY <1>1, <1>4, <2>1, <2>2 DEF RunSound, Unapplied, Applied
<1>11. RunInv'
  BY <1>5, <1>10 DEF RunInv
<1>. QED BY <1>6, <1>7, <1>8, <1>9, <1>11 DEF Quiet

LEMMA EndKeeps ==
    ASSUME Quiet, NEW p \in Processes, run[p] # NoRun, NEW success \in BOOLEAN,
           Ended(success), success => Accepted(run[p].n),
           run' = [run EXCEPT ![p] = NoRun],
           UNCHANGED <<artifacts, tree, head, copy, passed>>
    PROVE  Quiet'
<1>1. /\ TreeInv /\ VerdictInv /\ run = [q \in Processes |-> run[q]]
      /\ \A q \in Processes \ {p} : run[q] = NoRun
      /\ run[p].n = task.attempt /\ task.attempt \in Nat
      /\ task = [state |-> task.state, attempt |-> task.attempt, holder |-> task.holder]
      /\ \E S : artifacts \in Seq(S)
  BY OnlyRun DEF Quiet, ShapeInv
<1>2. /\ run' = [q \in Processes |-> run'[q]]
      /\ \A q \in Processes : run'[q] = NoRun
  BY <1>1
<1>3. PICK state : state = IF success THEN "succeeded"
                           ELSE IF task.attempt < MaxAttempts THEN "queued" ELSE "failed"
  OBVIOUS
<1>4. task' = [state |-> state, attempt |-> task.attempt, holder |-> "nobody"]
  BY <1>1, <1>3 DEF Ended
<1>5. ShapeInv'
  BY <1>1, <1>2, <1>4 DEF ShapeInv
<1>6. Alone' /\ RunInv'
  BY <1>2 DEF Alone, RunInv
<1>7. TreeInv'
  BY <1>1, <1>4 DEF TreeInv
<1>8. VerdictInv'
  <2>1. ASSUME NEW i \in DOMAIN artifacts PROVE Verdict(artifacts[i])'
    BY <1>1, <1>4 DEF VerdictInv, Verdict
  <2>2. state = "succeeded" => Accepted(task.attempt)
    BY <1>1, <1>3
  <2>. QED BY <1>4, <2>1, <2>2 DEF VerdictInv, Accepted
<1>. QED BY <1>5, <1>6, <1>7, <1>8 DEF Quiet

LEMMA PatchInvHolds == Spec => []PatchInv
<1>1. Init => PatchInv
  <2>. SUFFICES ASSUME Init PROVE Quiet
    BY DEF PatchInv
  <2>1. /\ artifacts = <<>> /\ run = [p \in Processes |-> NoRun]
        /\ tree = [f \in Files |-> 0] /\ head = [f \in Files |-> 0]
        /\ copy = [f \in Files |-> 0]
        /\ task = [state |-> "queued", attempt |-> 0, holder |-> "nobody"]
    BY DEF Init, Scaffold
  <2>2. ShapeInv
    BY <2>1 DEF ShapeInv
  <2>3. TreeInv
    BY <2>1 DEF TreeInv
  <2>. QED BY <2>1, <2>2, <2>3 DEF Quiet, Alone, RunInv, VerdictInv
<1>2. PatchInv /\ [Next]_vars => PatchInv'
  <2>. SUFFICES ASSUME PatchInv, [Next]_vars PROVE PatchInv'
    OBVIOUS
  <2>1. CASE stalled
    BY <2>1 DEF PatchInv, Next, vars, OwnerStep, QueueStep, DriverStep, Lease, Return, Die,
         Stall, Restart, Resolve, ResolveFails, ProviderAnswers, ProviderFails,
         ProviderAbsent, ScopeChecked, Apply, ApplyFails, CopyWorkspace, CallFails,
         Accept, Reject, Revert, Commit, Record, Hook, past
  <2>2. CASE ~stalled
    <3>. USE DEF PatchInv
    <3>1. Quiet
      BY <2>2
    <3>2. CASE UNCHANGED <<task, artifacts, repository, run, passed>>
      <4>. USE <3>1, <3>2 DEF Quiet, repository
      <4>1. ShapeInv'
        BY DEF ShapeInv
      <4>2. Alone' /\ TreeInv'
        BY DEF Alone, TreeInv
      <4>3. VerdictInv'
        BY DEF VerdictInv, Verdict, Accepted, Wrote
      <4>4. \A r : RunSound(r) => RunSound(r)'
        BY DEF RunSound, Accepted, Wrote
      <4>5. RunInv'
        BY <4>4 DEF RunInv
      <4>. QED BY <4>1, <4>2, <4>3, <4>5
    <3>3. ASSUME NEW p \in Processes, Stall(p) PROVE PatchInv'
      BY <3>3 DEF Stall
    <3>4. ASSUME NEW p \in Processes, Return(p) PROVE PatchInv'
      <4>1. run[p] # NoRun /\ At(p, "return")
        BY <3>4 DEF Return, At, NoRun
      <4>2. task.holder = p /\ RunSound(run[p]) /\ Shaped(run[p])
        BY <3>1, <4>1, OnlyRun DEF Quiet, Alone
      <4>3. /\ Ended(run[p].ok) /\ run' = [run EXCEPT ![p] = NoRun]
            /\ UNCHANGED <<artifacts, tree, head, copy, passed>>
        BY <3>4, <4>2 DEF Return, repository, past
      <4>4. run[p].ok \in BOOLEAN /\ (run[p].ok => Accepted(run[p].n))
        BY <4>1, <4>2 DEF RunSound, Shaped, At
      <4>. QED BY <3>1, <4>1, <4>3, <4>4, EndKeeps
    <3>5. ASSUME NEW p \in Processes, Die(p) PROVE PatchInv'
      <4>1. run[p] # NoRun
        BY <3>5 DEF Die
      <4>2. task.holder = p
        BY <3>1, <4>1 DEF Quiet, Alone
      <4>3. /\ Ended(FALSE) /\ run' = [run EXCEPT ![p] = NoRun]
            /\ UNCHANGED <<artifacts, tree, head, copy, passed>>
        BY <3>5, <4>2 DEF Die, repository, past
      <4>. QED BY <3>1, <4>1, <4>3, EndKeeps
    <3>6. ASSUME NEW p \in Processes, DriverStep(p) PROVE PatchInv'
      BY <3>1, <3>6, QuietSteps, ApplyKeeps, CopyKeeps, RevertKeeps, CommitKeeps,
         RecordKeeps DEF DriverStep
    <3>7. ASSUME NEW p \in Processes, Lease(p) PROVE PatchInv'
      BY <3>1, <3>7, LeaseKeeps
    <3>8. CASE OwnerStep \/ \E p \in Processes : Restart(p)
      BY <3>2, <3>8 DEF OwnerStep, Restart, past
    <3>. QED BY <3>2, <3>3, <3>4, <3>5, <3>6, <3>7, <3>8 DEF Next, QueueStep, vars, past
  <2>. QED BY <2>1, <2>2
<1>. QED BY <1>1, <1>2, PTL DEF Spec

(* A committed file is as a verification saw and passed it, whatever an    *)
(* attempt that died left in the tree, unless a process outlived its lease.*)
THEOREM OnlyVerified == Spec => []OnlyVerifiedIsCommitted
<1>1. PatchInv => OnlyVerifiedIsCommitted
  BY DEF PatchInv, Quiet, TreeInv, OnlyVerifiedIsCommitted
<1>. QED BY <1>1, PatchInvHolds, PTL

(* A verdict that is recorded is true of the repository, from then on, and *)
(* a task that succeeded has an accepted one for its last attempt; unless  *)
(* a process outlived its lease.                                           *)
THEOREM RecordedVerdictsAreTrue == Spec => []VerdictsAreTrue
<1>1. PatchInv => VerdictsAreTrue
  BY DEF PatchInv, Quiet, VerdictInv, Verdict, Accepted, VerdictsAreTrue
<1>. QED BY <1>1, PatchInvHolds, PTL

-----------------------------------------------------------------------------
(* The chain of tiers.                                                     *)

(* How many of the remaining tiers come before one.                        *)
Ahead(tiers, i) == Cardinality(Before(tiers, i))

(* The routes that were asked hold all the first `skip` remaining tiers    *)
(* lead past, and the one they lead to.                                    *)
Reached(tiers, asked, skip) == \A i \in tiers : Ahead(tiers, i) < skip => Chain[i] \in asked
Ready(tiers, asked, skip) == \A i \in tiers : Ahead(tiers, i) <= skip => Chain[i] \in asked

Tiers(n) == SUBSET (1..n)

LEMMA Smallest ==
    ASSUME NEW S, S \subseteq Nat, S # {} PROVE \E m \in S : \A k \in S : m <= k
<1>1. PICK m \in S : \A k \in S : <<k, m>> \notin OpToRel(<, Nat)
  BY NatLessThanWellFounded, WFMin, Zenon
<1>2. \A k \in S : k < m => <<k, m>> \in OpToRel(<, Nat)
  BY DEF OpToRel
<1>3. \A k \in S : ~(k < m)
  BY <1>1, <1>2, Zenon
<1>. QED BY <1>3

LEMMA LastIsIn ==
    ASSUME NEW n \in Nat, NEW S \in Tiers(n), S # {}
    PROVE  Last(S) \in S /\ \A j \in S : j <= Last(S)
<1>. DEFINE D == {n - i : i \in S}
<1>1. \A i \in S : i \in 1..n
  BY DEF Tiers
<1>2. D \subseteq Nat /\ D # {}
  BY <1>1
<1>3. PICK m \in D : \A k \in D : m <= k
  <2>. HIDE DEF D
  <2>. QED BY <1>2, Smallest
<1>4. PICK i \in S : m = n - i
  BY <1>3
<1>5. \A j \in S : j <= i
  <2>. SUFFICES ASSUME NEW j \in S PROVE j <= i
    OBVIOUS
  <2>1. n - j \in D
    OBVIOUS
  <2>2. n - i <= n - j
    BY <1>3, <1>4, <2>1
  <2>. HIDE DEF D
  <2>. QED BY <1>1, <2>2
<1>. QED BY <1>5 DEF Last

LEMMA FewAhead ==
    ASSUME NEW n \in Nat, NEW S \in Tiers(n), NEW i \in S
    PROVE  /\ Ahead(S, i) \in Nat /\ IsFiniteSet(Before(S, i))
           /\ \A j \in S : j < i => Ahead(S, j) < Ahead(S, i)
<1>1. IsFiniteSet(1..n)
  BY FS_Interval
<1>2. S \subseteq 1..n
  BY DEF Tiers
<1>3. ASSUME NEW j \in S PROVE IsFiniteSet(Before(S, j)) /\ Ahead(S, j) \in Nat
  <2>1. Before(S, j) \in SUBSET (1..n)
    BY <1>2 DEF Before
  <2>. QED BY <1>1, <2>1, FS_Subset, FS_CardinalityType DEF Ahead
<1>4. ASSUME NEW j \in S, j < i PROVE Ahead(S, j) < Ahead(S, i)
  <2>1. j \notin Before(S, j) /\ j \in 1..n /\ i \in 1..n
    BY <1>2 DEF Before
  <2>2. Before(S, j) \cup {j} \in SUBSET Before(S, i)
    <3>1. ASSUME NEW k \in Before(S, j) PROVE k \in S /\ k < i
      BY <1>2, <1>4, <2>1 DEF Before
    <3>. QED BY <1>4, <3>1 DEF Before
  <2>3. Cardinality(Before(S, j) \cup {j}) = Ahead(S, j) + 1
    BY <1>3, <2>1, FS_AddElement DEF Ahead
  <2>4. Cardinality(Before(S, j) \cup {j}) <= Ahead(S, i)
    BY <1>3, <2>2, FS_Subset DEF Ahead
  <2>. QED BY <1>3, <2>3, <2>4
<1>. QED BY <1>3, <1>4

(* The tier that is next has every remaining one before it asked already.  *)
LEMMA NextIsReached ==
    ASSUME NEW n \in Nat, NEW S \in Tiers(n), S # {}, NEW s \in Nat
    PROVE  /\ Last(Within(S, s)) \in S
           /\ \A asked : Reached(S, asked, s) =>
                 /\ \A j \in S : j < Last(Within(S, s)) => Chain[j] \in asked
                 /\ Ready(S, asked \cup {Chain[Last(Within(S, s))]}, s)
<1>1. S \subseteq 1..n /\ S \subseteq Nat
  BY DEF Tiers
<1>2. Within(S, s) # {}
  <2>1. PICK m \in S : \A k \in S : m <= k
    BY <1>1, Smallest
  <2>2. Before(S, m) = {}
    <3>1. \A k \in S : ~(k < m)
      BY <1>1, <2>1
    <3>. QED BY <3>1, Zenon DEF Before
  <2>3. Cardinality(Before(S, m)) = 0
    BY <2>2, FS_EmptySet
  <2>. QED BY <2>1, <2>3 DEF Within
<1>3. Within(S, s) \in Tiers(n)
  BY <1>1 DEF Within, Tiers
<1>4. PICK i : i = Last(Within(S, s))
  OBVIOUS
<1>5. i \in Within(S, s) /\ \A j \in Within(S, s) : j <= i
  BY <1>2, <1>3, <1>4, LastIsIn
<1>6. i \in S /\ Ahead(S, i) <= s
  BY <1>5 DEF Within, Ahead
<1>7. ASSUME NEW asked, Reached(S, asked, s)
      PROVE  /\ \A j \in S : j < i => Chain[j] \in asked
             /\ Ready(S, asked \cup {Chain[i]}, s)
  <2>1. ASSUME NEW j \in S, j < i PROVE Chain[j] \in asked
    <3>1. Ahead(S, j) < Ahead(S, i) /\ Ahead(S, j) \in Nat /\ Ahead(S, i) \in Nat
      BY <1>6, <2>1, FewAhead
    <3>2. Ahead(S, j) < s
      BY <1>6, <3>1
    <3>. QED BY <1>7, <3>2 DEF Reached
  <2>2. ASSUME NEW j \in S, Ahead(S, j) <= s PROVE Chain[j] \in asked \cup {Chain[i]}
    <3>1. j \in Within(S, s)
      BY <2>2 DEF Within, Ahead
    <3>2. j <= i /\ j \in Nat /\ i \in Nat
      BY <1>1, <1>5, <1>6, <3>1
    <3>3. j < i \/ j = i
      BY <3>2
    <3>. QED BY <2>1, <3>3
  <2>. QED BY <2>1, <2>2 DEF Ready
<1>. QED BY <1>4, <1>6, <1>7

(* One attempt more without a verdict, and one tier less, ask for no more. *)
LEMMA OneMoreSkipped ==
    ASSUME NEW n \in Nat, NEW S \in Tiers(n), NEW asked, NEW u \in Nat,
           Ready(S, asked, u \div 2)
    PROVE  Reached(S, asked, (u + 1) \div 2)
<1>. SUFFICES ASSUME NEW i \in S, Ahead(S, i) < (u + 1) \div 2 PROVE Chain[i] \in asked
  BY DEF Reached
<1>1. Ahead(S, i) \in Nat
  BY FewAhead
<1>2. Ahead(S, i) <= u \div 2
  BY <1>1
<1>. QED BY <1>2 DEF Ready

LEMMA OneTierLess ==
    ASSUME NEW n \in Nat, NEW S \in Tiers(n), NEW T \in SUBSET S, NEW x, S \ T \subseteq {x},
           NEW asked, NEW s \in Nat, Ready(S, asked, s)
    PROVE  Reached(T, asked, s)
<1>. SUFFICES ASSUME NEW i \in T, Ahead(T, i) < s PROVE Chain[i] \in asked
  BY DEF Reached
<1>1. T \in Tiers(n)
  BY DEF Tiers
<1>2. IsFiniteSet(Before(T, i)) /\ Ahead(T, i) \in Nat /\ Ahead(S, i) \in Nat
  BY <1>1, FewAhead
<1>3. Before(S, i) \in SUBSET (Before(T, i) \cup {x})
  BY DEF Before
<1>4. /\ IsFiniteSet(Before(T, i) \cup {x})
      /\ Cardinality(Before(T, i) \cup {x}) \in {Ahead(T, i), Ahead(T, i) + 1}
  BY <1>2, FS_AddElement DEF Ahead
<1>5. Ahead(S, i) <= Cardinality(Before(T, i) \cup {x})
  BY <1>3, <1>4, FS_Subset DEF Ahead
<1>6. Ahead(S, i) <= s
  BY <1>2, <1>4, <1>5
<1>. QED BY <1>6 DEF Ready

LEMMA ChainTyped ==
    /\ Len(Chain) \in Nat /\ DOMAIN Chain = 1..Len(Chain) /\ 1 \in DOMAIN Chain
    /\ \A i \in DOMAIN Chain : Chain[i] \in Routes
<1>1. Chain \in Seq(Routes) /\ Chain # <<>>
  BY RoutingAssumption
<1>2. Len(Chain) \in Nat /\ DOMAIN Chain = 1..Len(Chain) /\ Len(Chain) # 0
  BY <1>1, LenProperties, EmptySeq
<1>3. \A i \in 1..Len(Chain) : Chain[i] \in Routes
  BY <1>1, ElementOfSeq
<1>. QED BY <1>2, <1>3

LEMMA TiersOfChain ==
    ASSUME NEW rows, NEW listed
    PROVE  /\ Open(listed) \in Tiers(Len(Chain)) /\ Open(listed) \subseteq DOMAIN Chain
           /\ Remaining(rows, listed) \in Tiers(Len(Chain))
           /\ Remaining(rows, listed) \subseteq Open(listed)
BY ChainTyped DEF Open, Remaining, Tiers

LEMMA UnsettledTyped ==
    ASSUME NEW rows, Len(rows) \in Nat, NEW ordinal \in Nat
    PROVE  unsettled(rows, ordinal) \in Nat /\ unsettled(rows, ordinal) \div 2 \in Nat
<1>1. unsettled(rows, ordinal) \in Nat
  BY DEF unsettled
<1>. QED BY <1>1

(* The static chain's choice, from what the earlier attempts have reached. *)
Follows(i, rows, listed, skip) ==
    \A asked :
        /\ \A k \in DOMAIN rows : rows[k].route \in asked
        /\ Reached(Remaining(rows, listed), asked, skip)
        => /\ \A j \in Open(listed) : j < i => Chain[j] \in asked
           /\ Ready(Remaining(rows, listed), asked \cup {Chain[i]}, skip)

LEMMA NextTier ==
    ASSUME NEW rows, Len(rows) \in Nat, NEW listed, NEW ordinal \in Nat
    PROVE  \E i \in DOMAIN Chain :
              /\ nextStaticTier(rows, listed, ordinal) = Chain[i]
              /\ Follows(i, rows, listed, unsettled(rows, ordinal) \div 2)
<1>. DEFINE open == Open(listed)
            remaining == Remaining(rows, listed)
            skip == unsettled(rows, ordinal) \div 2
<1>0. skip \in Nat
  BY UnsettledTyped
<1>1. /\ open \in Tiers(Len(Chain)) /\ remaining \in Tiers(Len(Chain))
      /\ open \subseteq DOMAIN Chain /\ remaining \subseteq open /\ Len(Chain) \in Nat
  BY TiersOfChain, ChainTyped
<1>2. \A j \in open \ remaining : \E k \in DOMAIN rows : rows[k].route = Chain[j]
  BY DEF Remaining, settled
<1>3. nextStaticTier(rows, listed, ordinal) =
          Chain[IF open = {} THEN 1
                ELSE IF remaining = {} THEN Last(open)
                ELSE Last(Within(remaining, skip))]
  BY DEF nextStaticTier
<1>r. Remaining(rows, listed) = remaining /\ Open(listed) = open
      /\ skip = unsettled(rows, ordinal) \div 2
  OBVIOUS
<1>. HIDE DEF open, remaining, skip
<1>4. CASE open = {}
  BY <1>1, <1>3, <1>4, <1>r, ChainTyped DEF Follows, Ready
<1>5. CASE open # {} /\ remaining = {}
  <2>1. Last(open) \in open
    BY <1>1, <1>5, LastIsIn
  <2>2. Follows(Last(open), rows, listed, skip)
    BY <1>2, <1>5, <1>r DEF Follows, Ready
  <2>. QED BY <1>1, <1>3, <1>5, <1>r, <2>1, <2>2
<1>6. CASE open # {} /\ remaining # {}
  <2>1. PICK i : i = Last(Within(remaining, skip))
    OBVIOUS
  <2>2. /\ i \in remaining
        /\ \A asked : Reached(remaining, asked, skip) =>
              /\ \A j \in remaining : j < i => Chain[j] \in asked
              /\ Ready(remaining, asked \cup {Chain[i]}, skip)
    BY <1>0, <1>1, <1>6, <2>1, NextIsReached
  <2>3. Follows(i, rows, listed, skip)
    BY <1>2, <1>r, <2>2 DEF Follows
  <2>. QED BY <1>1, <1>3, <1>6, <1>r, <2>1, <2>2, <2>3
<1>. QED BY <1>4, <1>5, <1>6

LEMMA ResolveTyped ==
    ASSUME NEW active, NEW known, NEW offered,
           NEW rows, Len(rows) \in Nat, NEW listed, NEW ordinal \in Nat
    PROVE  resolve(active, known, offered, rows, listed, ordinal) \in Routes
<1>1. nextStaticTier(rows, listed, ordinal) \in Routes
  BY NextTier, ChainTyped
<1>2. \A route : staticRouteFor(route) => route \in Routes
  BY ChainTyped DEF staticRouteFor
<1>. QED BY <1>1, <1>2 DEF resolve

(* A verdict more settles no route but its own, and unsettles none.        *)
LEMMA SettledGrows ==
    ASSUME NEW rows \in Seq(Artifact), NEW a \in Artifact
    PROVE  /\ settled(rows) \subseteq settled(Append(rows, a))
           /\ settled(Append(rows, a)) \subseteq settled(rows) \cup {a.route}
<1>. DEFINE more == Append(rows, a)
            n == Len(rows) + 1
<1>1. /\ Len(rows) \in Nat /\ DOMAIN rows = 1..Len(rows)
      /\ DOMAIN more = DOMAIN rows \cup {n} /\ n \notin DOMAIN rows
      /\ more[n] = a /\ \A i \in DOMAIN rows : more[i] = rows[i]
  <2>1. /\ more \in Seq(Artifact) /\ Len(more) = Len(rows) + 1 /\ more[n] = a
        /\ \A i \in 1..Len(rows) : more[i] = rows[i]
    BY AppendProperties
  <2>2. /\ Len(rows) \in Nat /\ DOMAIN rows = 1..Len(rows) /\ DOMAIN more = 1..Len(more)
    BY <2>1, LenProperties
  <2>. QED BY <2>1, <2>2
<1>. HIDE DEF more, n
<1>2. ASSUME NEW r
      PROVE  /\ IsFiniteSet(Verdicts(rows, r))
             /\ Verdicts(more, r) = IF r = a.route THEN Verdicts(rows, r) \cup {n}
                                    ELSE Verdicts(rows, r)
             /\ n \notin Verdicts(rows, r)
  <2>1. Verdicts(rows, r) \in SUBSET (1..Len(rows)) /\ IsFiniteSet(1..Len(rows))
    BY <1>1, FS_Interval DEF Verdicts
  <2>. QED BY <1>1, <2>1, FS_Subset DEF Verdicts
<1>3. ASSUME NEW i \in DOMAIN rows, ~isDeepSeekRepairRetryEligible(rows, i)
      PROVE  ~isDeepSeekRepairRetryEligible(more, i)
  <2>1. more[i] = rows[i] /\ i \in Verdicts(rows, rows[i].route)
    BY <1>1 DEF Verdicts
  <2>2. ASSUME rows[i].route = a.route, Cardinality(Verdicts(more, rows[i].route)) = 1
        PROVE  FALSE
    <3>1. Cardinality(Verdicts(rows, a.route)) \in Nat
          /\ Cardinality(Verdicts(rows, a.route)) # 0
      BY <1>2, <2>1, <2>2, FS_EmptySet, FS_CardinalityType
    <3>2. Cardinality(Verdicts(rows, a.route) \cup {n})
            = Cardinality(Verdicts(rows, a.route)) + 1
      BY <1>2, FS_AddElement
    <3>3. Verdicts(more, rows[i].route) = Verdicts(rows, a.route) \cup {n}
      BY <1>2, <2>2
    <3>. QED BY <2>2, <3>1, <3>2, <3>3
  <2>. QED BY <1>2, <1>3, <2>1, <2>2 DEF isDeepSeekRepairRetryEligible
<1>4. ASSUME NEW i \in DOMAIN rows, rows[i].route # a.route,
             ~isDeepSeekRepairRetryEligible(more, i)
      PROVE  ~isDeepSeekRepairRetryEligible(rows, i)
  BY <1>1, <1>2, <1>4 DEF isDeepSeekRepairRetryEligible
<1>5. settled(rows) \subseteq settled(more)
  BY <1>1, <1>3 DEF settled
<1>6. settled(more) \subseteq settled(rows) \cup {a.route}
  BY <1>1, <1>4 DEF settled
<1>. QED BY <1>5, <1>6 DEF more

LEMMA RemainingShrinks ==
    ASSUME NEW rows \in Seq(Artifact), NEW a \in Artifact, NEW listed
    PROVE  /\ Remaining(Append(rows, a), listed) \in SUBSET Remaining(rows, listed)
           /\ \E x : Remaining(rows, listed) \ Remaining(Append(rows, a), listed) \subseteq {x}
<1>1. Remaining(Append(rows, a), listed) \in SUBSET Remaining(rows, listed)
  BY SettledGrows DEF Remaining
<1>2. \A i \in Remaining(rows, listed) \ Remaining(Append(rows, a), listed) :
          i \in DOMAIN Chain /\ Chain[i] = a.route
  BY SettledGrows DEF Remaining, Open
<1>3. \A i, j \in DOMAIN Chain : Chain[i] = Chain[j] => i = j
  BY RoutingAssumption
<1>4. \A i, j \in Remaining(rows, listed) \ Remaining(Append(rows, a), listed) : i = j
  BY <1>2, <1>3
<1>. QED BY <1>1, <1>4

-----------------------------------------------------------------------------
(* The types, which need the tier that is resolved to be one of the chain. *)

TaskTyped ==
    /\ task \in [state : {"queued", "running", "succeeded", "failed"},
                 attempt : 0..MaxAttempts, holder : Processes \cup {"nobody"}]
    /\ stalled \in BOOLEAN /\ faults \in 0..MaxFaults /\ available \in Adapters

RunTyped == run \in [Processes -> Attempt \cup {NoRun}]

RowsTyped ==
    /\ artifacts \in Seq(Artifact)
    /\ tried \in Seq([attempt : 1..MaxAttempts, route : Routes])

MemoTyped == steady \in BOOLEAN /\ absent \in [Processes -> SUBSET DOMAIN Tier]

TreesTyped == {tree, head, copy} \cup passed \subseteq Tree

TypeInv == TaskTyped /\ RunTyped /\ RowsTyped /\ TreesTyped

LEMMA InAttempt ==
    ASSUME RunTyped, NEW p \in Processes, run[p].at # "none"
    PROVE  run[p] \in Attempt
BY DEF RunTyped, NoRun

LEMMA AttemptMoves ==
    ASSUME NEW a \in Attempt, NEW step \in Steps
    PROVE  /\ [a EXCEPT !.at = step] \in Attempt
           /\ \A b \in BOOLEAN : [a EXCEPT !.at = step, !.ok = b] \in Attempt
           /\ \A r \in Routes : [a EXCEPT !.at = step, !.route = r] \in Attempt
           /\ \A w \in SUBSET Files : [a EXCEPT !.at = step, !.writes = w] \in Attempt
BY DEF Attempt

LEMMA RunMoves ==
    ASSUME RunTyped, NEW p \in Processes, NEW r \in Attempt \cup {NoRun},
           run' = [run EXCEPT ![p] = r]
    PROVE  RunTyped'
BY DEF RunTyped

LEMMA GotoTyped ==
    ASSUME RunTyped, NEW p \in Processes, run[p].at # "none", NEW step \in Steps,
           Goto(p, step)
    PROVE  RunTyped'
<1>1. run' = [run EXCEPT ![p] = [run[p] EXCEPT !.at = step]]
  BY DEF Goto
<1>2. [run[p] EXCEPT !.at = step] \in Attempt
  BY InAttempt, AttemptMoves
<1>. QED BY <1>1, <1>2, RunMoves

LEMMA ThrowsTyped ==
    ASSUME RunTyped, NEW p \in Processes, run[p].at # "none", Throws(p)
    PROVE  RunTyped'
<1>1. run' = [run EXCEPT ![p] = [run[p] EXCEPT !.at = "return", !.ok = FALSE]]
  BY DEF Throws
<1>2. [run[p] EXCEPT !.at = "return", !.ok = FALSE] \in Attempt
  BY InAttempt, AttemptMoves DEF Steps
<1>. QED BY <1>1, <1>2, RunMoves

LEMMA EndedTyped ==
    ASSUME TaskTyped, NEW success \in BOOLEAN, Ended(success),
           stalled' \in BOOLEAN, faults' \in 0..MaxFaults, available' = available
    PROVE  TaskTyped'
<1>1. PICK state : state = IF success THEN "succeeded"
                           ELSE IF task.attempt < MaxAttempts THEN "queued" ELSE "failed"
  OBVIOUS
<1>2. task' = [state |-> state, attempt |-> task.attempt, holder |-> "nobody"]
  BY <1>1 DEF TaskTyped, Ended
<1>3. state \in {"queued", "running", "succeeded", "failed"}
  BY <1>1
<1>. QED BY <1>2, <1>3 DEF TaskTyped

LEMMA FaultTyped ==
    ASSUME TaskTyped, Fault PROVE faults' \in 0..MaxFaults
BY PatchAssumption DEF TaskTyped, Fault

(* The queue's steps.                                                      *)
LEMMA QueueTyped ==
    ASSUME TypeInv, NEW p \in Processes, QueueStep(p) PROVE TypeInv'
<1>0. TaskTyped /\ RunTyped /\ RowsTyped /\ TreesTyped
  BY DEF TypeInv
<1>1. UNCHANGED <<artifacts, tree, head, copy, tried, passed, available>>
  BY DEF QueueStep, Lease, Return, Die, Stall, Restart, past, repository
<1>2. RowsTyped' /\ TreesTyped'
  BY <1>0, <1>1 DEF RowsTyped, TreesTyped
<1>3. CASE Lease(p)
  <2>1. PICK k : k = task.attempt
    OBVIOUS
  <2>2. k \in Nat /\ k + 1 \in 1..MaxAttempts /\ MaxAttempts \in Nat
    BY <1>0, <1>3, <2>1, PatchAssumption DEF Lease, TaskTyped
  <2>3. /\ task' = [state |-> "running", attempt |-> k + 1, holder |-> p]
        /\ UNCHANGED <<stalled, faults>>
    BY <1>3, <2>1 DEF Lease, past
  <2>4. TaskTyped'
    BY <1>0, <1>1, <2>2, <2>3 DEF TaskTyped
  <2>5. PICK r : r = [at |-> "resolve", n |-> k + 1, route |-> Chain[1], writes |-> {},
                      ok |-> FALSE]
    OBVIOUS
  <2>6. r \in Attempt
    BY <2>2, <2>5, ChainTyped DEF Attempt, Steps
  <2>7. run' = [run EXCEPT ![p] = r]
    BY <1>3, <2>1, <2>5 DEF Lease
  <2>8. RunTyped'
    BY <1>0, <2>6, <2>7, RunMoves
  <2>. QED BY <1>2, <2>4, <2>8 DEF TypeInv
<1>4. CASE Return(p)
  <2>1. run[p] \in Attempt
    BY <1>0, <1>4, InAttempt DEF Return, At
  <2>2. run[p].ok \in BOOLEAN
    BY <2>1 DEF Attempt
  <2>3. TaskTyped'
    <3>1. UNCHANGED <<stalled, faults, available>> /\ (Ended(run[p].ok) \/ UNCHANGED task)
      BY <1>4 DEF Return, past
    <3>2. CASE UNCHANGED task
      BY <1>0, <3>1, <3>2 DEF TaskTyped
    <3>3. CASE Ended(run[p].ok)
      BY <1>0, <2>2, <3>1, <3>3, EndedTyped DEF TaskTyped
    <3>. QED BY <3>1, <3>2, <3>3
  <2>4. RunTyped'
    BY <1>0, <1>4, RunMoves DEF Return
  <2>. QED BY <1>2, <2>3, <2>4 DEF TypeInv
<1>5. CASE Die(p)
  <2>1. TaskTyped'
    <3>1. UNCHANGED <<stalled, available>> /\ (Ended(FALSE) \/ UNCHANGED task)
          /\ faults' \in 0..MaxFaults
      BY <1>0, <1>5, FaultTyped DEF Die, past
    <3>2. CASE UNCHANGED task
      BY <1>0, <3>1, <3>2 DEF TaskTyped
    <3>3. CASE Ended(FALSE)
      BY <1>0, <3>1, <3>3, EndedTyped DEF TaskTyped
    <3>. QED BY <3>1, <3>2, <3>3
  <2>2. RunTyped'
    BY <1>0, <1>5, RunMoves DEF Die
  <2>. QED BY <1>2, <2>1, <2>2 DEF TypeInv
<1>6. CASE Stall(p)
  <2>1. Ended(FALSE) /\ stalled' = TRUE /\ faults' \in 0..MaxFaults /\ UNCHANGED run
    BY <1>0, <1>6, FaultTyped DEF Stall
  <2>2. TaskTyped'
    BY <1>0, <1>1, <2>1, EndedTyped
  <2>. QED BY <1>0, <1>2, <2>1, <2>2 DEF TypeInv, RunTyped
<1>7. CASE Restart(p)
  BY <1>0, <1>2, <1>7 DEF Restart, past, TypeInv, TaskTyped, RunTyped
<1>. QED BY <1>3, <1>4, <1>5, <1>6, <1>7 DEF QueueStep

LEMMA CopiedTyped ==
    ASSUME NEW s \in Tree, NEW d \in Tree PROVE Copied(s, d) \in Tree
BY DEF Tree, Copied

(* The driver's.                                                           *)
LEMMA DriverTyped ==
    ASSUME TypeInv, NEW p \in Processes, DriverStep(p) PROVE TypeInv'
<1>0. TaskTyped /\ RunTyped /\ RowsTyped /\ TreesTyped
  BY DEF TypeInv
<1>1. run[p].at \in Steps
  BY DEF DriverStep, Resolve, ResolveFails, ProviderAnswers, ProviderFails,
         ProviderAbsent, ScopeChecked, Apply, ApplyFails, CopyWorkspace, CallFails,
         Accept, Reject, Revert, Commit, Record, Hook, At, Steps
<1>2. run[p].at # "none" /\ run[p] \in Attempt
  BY <1>0, <1>1, InAttempt DEF Steps
<1>3. /\ run[p].n \in 1..MaxAttempts /\ run[p].route \in Routes
      /\ run[p].writes \subseteq Files /\ run[p].ok \in BOOLEAN
  BY <1>2 DEF Attempt
<1>4. ASSUME UNCHANGED <<task, stalled, available>>, faults' = faults \/ Fault
      PROVE  TaskTyped'
  BY <1>0, <1>4, FaultTyped DEF TaskTyped
<1>5. ASSUME UNCHANGED <<artifacts, tried>> PROVE RowsTyped'
  BY <1>0, <1>5 DEF RowsTyped
<1>6. ASSUME UNCHANGED <<repository, passed>> PROVE TreesTyped'
  BY <1>0, <1>6 DEF TreesTyped, repository
<1>7. ASSUME NEW step \in Steps, Goto(p, step) PROVE RunTyped'
  BY <1>0, <1>2, <1>7, GotoTyped
<1>8. ASSUME Throws(p) PROVE RunTyped'
  BY <1>0, <1>2, <1>8, ThrowsTyped
<1>10. CASE Resolve(p)
  <2>1. PICK active \in {Active, <<>>}, models \in Adapters, rows \in {artifacts, <<>>} :
            \E listed : Resolved(p, active, models, rows, listed)
    BY <1>10 DEF Resolve
  <2>l. PICK listed : Resolved(p, active, models, rows, listed)
    BY <2>1
  <2>2. PICK route : route = resolve(active, artifacts, Listed(p, models), rows, listed,
                                     run[p].n)
    OBVIOUS
  <2>3. route \in Routes
    <3>1. Len(rows) \in Nat /\ run[p].n \in Nat
      <4>1. Len(artifacts) \in Nat
        BY <1>0, LenProperties DEF RowsTyped
      <4>. QED BY <1>3, <4>1
    <3>. QED BY <2>2, <3>1, ResolveTyped
  <2>4. /\ run' = [run EXCEPT ![p] = [run[p] EXCEPT !.at = "call", !.route = route]]
        /\ tried' = Append(tried, [attempt |-> run[p].n, route |-> route])
    BY <2>l, <2>2 DEF Resolved
  <2>5. RunTyped'
    <3>1. [run[p] EXCEPT !.at = "call", !.route = route] \in Attempt
      BY <1>2, <2>3, AttemptMoves DEF Steps
    <3>. QED BY <1>0, <2>4, <3>1, RunMoves
  <2>6. RowsTyped'
    <3>1. artifacts' = artifacts
      BY <1>10 DEF Resolve
    <3>2. tried' \in Seq([attempt : 1..MaxAttempts, route : Routes])
      BY <1>0, <1>3, <2>3, <2>4, AppendProperties DEF RowsTyped
    <3>. QED BY <1>0, <3>1, <3>2 DEF RowsTyped
  <2>7. TaskTyped'
    <3>1. UNCHANGED <<task, stalled>> /\ available' \in Adapters /\ faults' \in 0..MaxFaults
      BY <1>0, <1>10, FaultTyped DEF Resolve, TaskTyped
    <3>. QED BY <1>0, <3>1 DEF TaskTyped
  <2>. QED BY <1>6, <1>10, <2>5, <2>6, <2>7 DEF Resolve, TypeInv
<1>11. CASE ProviderAnswers(p)
  <2>1. PICK writes \in SUBSET Files :
            run' = [run EXCEPT ![p] = [run[p] EXCEPT !.at = "scope", !.writes = writes]]
    BY <1>11 DEF ProviderAnswers
  <2>2. RunTyped'
    <3>1. [run[p] EXCEPT !.at = "scope", !.writes = writes] \in Attempt
      BY <1>2, AttemptMoves DEF Steps
    <3>. QED BY <1>0, <2>1, <3>1, RunMoves
  <2>. QED BY <1>4, <1>5, <1>6, <1>11, <2>2 DEF ProviderAnswers, past, TypeInv
<1>12. CASE ResolveFails(p) \/ ProviderFails(p) \/ ProviderAbsent(p)
  BY <1>4, <1>5, <1>6, <1>8, <1>12
     DEF ResolveFails, ProviderFails, ProviderAbsent, past, TypeInv
<1>13. CASE ScopeChecked(p)
  <2>1. RunTyped'
    BY <1>7, <1>13 DEF ScopeChecked, Steps
  <2>. QED BY <1>4, <1>5, <1>6, <1>13, <2>1 DEF ScopeChecked, past, TypeInv
<1>14. CASE Apply(p)
  <2>1. run' = [run EXCEPT ![p] = [run[p] EXCEPT !.at = "copy", !.writes = {}]]
    BY <1>14 DEF Apply
  <2>2. RunTyped'
    <3>1. [run[p] EXCEPT !.at = "copy", !.writes = {}] \in Attempt
      BY <1>2, AttemptMoves DEF Steps
    <3>. QED BY <1>0, <2>1, <3>1, RunMoves
  <2>3. TreesTyped'
    <3>1. /\ tree' = [f \in Files |-> IF f \in run[p].writes THEN run[p].n ELSE tree[f]]
          /\ UNCHANGED <<head, copy, passed>>
      BY <1>14 DEF Apply, past
    <3>2. tree' \in Tree
      BY <1>0, <1>3, <3>1 DEF TreesTyped, Tree
    <3>. QED BY <1>0, <3>1, <3>2 DEF TreesTyped
  <2>. QED BY <1>4, <1>5, <1>14, <2>2, <2>3 DEF Apply, past, TypeInv
<1>15. CASE ApplyFails(p)
  <2>1. RunTyped'
    BY <1>7, <1>15 DEF ApplyFails, Steps
  <2>. QED BY <1>4, <1>5, <1>6, <1>15, <2>1 DEF ApplyFails, past, TypeInv
<1>16. CASE CopyWorkspace(p)
  <2>1. RunTyped'
    BY <1>7, <1>16 DEF CopyWorkspace, Steps
  <2>2. TreesTyped'
    <3>1. copy' \in Tree
      BY <1>0, <1>16, CopiedTyped DEF CopyWorkspace, TreesTyped
    <3>2. UNCHANGED <<tree, head, passed>>
      BY <1>16 DEF CopyWorkspace, past
    <3>. QED BY <1>0, <3>1, <3>2 DEF TreesTyped
  <2>. QED BY <1>4, <1>5, <1>16, <2>1, <2>2 DEF CopyWorkspace, past, TypeInv
<1>17. CASE CallFails(p)
  BY <1>4, <1>5, <1>6, <1>8, <1>17 DEF CallFails, past, TypeInv
<1>18. CASE Accept(p)
  <2>1. RunTyped'
    BY <1>7, <1>18 DEF Accept, Steps
  <2>2. TreesTyped'
    BY <1>0, <1>18 DEF Accept, TreesTyped, repository
  <2>. QED BY <1>4, <1>5, <1>18, <2>1, <2>2 DEF Accept, TypeInv
<1>19. CASE Reject(p)
  <2>1. RunTyped'
    BY <1>7, <1>19 DEF Reject, Steps
  <2>. QED BY <1>4, <1>5, <1>6, <1>19, <2>1 DEF Reject, past, TypeInv
<1>20. CASE Revert(p)
  <2>1. RunTyped'
    BY <1>7, <1>20 DEF Revert, Steps
  <2>2. TreesTyped'
    BY <1>0, <1>20 DEF Revert, TreesTyped, past
  <2>. QED BY <1>4, <1>5, <1>20, <2>1, <2>2 DEF Revert, past, TypeInv
<1>21. CASE Commit(p)
  <2>1. RunTyped'
    <3>1. CASE Throws(p)
      BY <1>8, <3>1
    <3>2. CASE run' = [run EXCEPT ![p] = [run[p] EXCEPT !.at = "record", !.ok = TRUE]]
      <4>1. [run[p] EXCEPT !.at = "record", !.ok = TRUE] \in Attempt
        BY <1>2, AttemptMoves DEF Steps
      <4>. QED BY <1>0, <3>2, <4>1, RunMoves
    <3>. QED BY <1>21, <3>1, <3>2 DEF Commit
  <2>2. TreesTyped'
    BY <1>0, <1>21 DEF Commit, TreesTyped, past
  <2>. QED BY <1>4, <1>5, <1>21, <2>1, <2>2 DEF Commit, past, TypeInv
<1>22. CASE Record(p)
  <2>1. RunTyped'
    BY <1>3, <1>7, <1>22 DEF Record, Steps
  <2>2. RowsTyped'
    <3>1. PICK a : a = [attempt |-> run[p].n, route |-> run[p].route,
                        status |-> IF run[p].ok THEN "accepted" ELSE "rejected"]
      OBVIOUS
    <3>2. a \in Artifact
      BY <1>3, <3>1, PatchAssumption DEF Artifact
    <3>3. artifacts' = Append(artifacts, a) /\ tried' = tried
      BY <1>22, <3>1 DEF Record, past
    <3>. QED BY <1>0, <3>2, <3>3, AppendProperties DEF RowsTyped
  <2>. QED BY <1>4, <1>6, <1>22, <2>1, <2>2 DEF Record, past, TypeInv
<1>23. CASE Hook(p)
  <2>1. RunTyped'
    BY <1>7, <1>23 DEF Hook, Steps
  <2>. QED BY <1>4, <1>5, <1>6, <1>23, <2>1 DEF Hook, past, TypeInv
<1>. QED BY <1>10, <1>11, <1>12, <1>13, <1>14, <1>15, <1>16, <1>17, <1>18, <1>19, <1>20,
            <1>21, <1>22, <1>23 DEF DriverStep

LEMMA TypeInvHolds == Spec => []TypeInv
<1>1. Init => TypeInv
  <2>. SUFFICES ASSUME Init PROVE TypeInv
    OBVIOUS
  <2>1. TaskTyped
    <3>1. 0 \in 0..MaxAttempts /\ 0 \in 0..MaxFaults
      BY PatchAssumption
    <3>. QED BY <3>1 DEF Init, TaskTyped
  <2>2. RunTyped
    BY DEF Init, RunTyped
  <2>3. RowsTyped
    BY EmptySeq DEF Init, RowsTyped
  <2>4. TreesTyped
    BY PatchAssumption DEF Init, TreesTyped, Tree, Scaffold
  <2>. QED BY <2>1, <2>2, <2>3, <2>4 DEF TypeInv
<1>2. TypeInv /\ [Next]_vars => TypeInv'
  <2>. SUFFICES ASSUME TypeInv, [Next]_vars PROVE TypeInv'
    OBVIOUS
  <2>1. CASE UNCHANGED <<task, available, artifacts, repository, run, past, faults>>
    BY <2>1 DEF TypeInv, TaskTyped, RunTyped, RowsTyped, TreesTyped, repository, past
  <2>2. ASSUME NEW p \in Processes, QueueStep(p) PROVE TypeInv'
    BY <2>2, QueueTyped
  <2>3. ASSUME NEW p \in Processes, DriverStep(p) PROVE TypeInv'
    BY <2>3, DriverTyped
  <2>. QED BY <2>1, <2>2, <2>3 DEF Next, OwnerStep, vars
<1>. QED BY <1>1, <1>2, PTL DEF Spec

LEMMA MemoInvHolds == Spec => []MemoTyped
<1>1. Init => MemoTyped
  BY DEF Init, MemoTyped
<1>2. MemoTyped /\ TypeInv /\ [Next]_vars => MemoTyped'
  <2>. SUFFICES ASSUME MemoTyped, TypeInv, [Next]_vars PROVE MemoTyped'
    OBVIOUS
  <2>1. CASE UNCHANGED <<absent, steady>>
    BY <2>1 DEF MemoTyped
  <2>2. ASSUME NEW p \in Processes, Die(p) \/ Restart(p) PROVE MemoTyped'
    BY <2>2 DEF Die, Restart, past, MemoTyped
  <2>3. ASSUME NEW p \in Processes, ProviderAbsent(p) PROVE MemoTyped'
    <3>1. PICK provider : provider = run[p].route.provider
      OBVIOUS
    <3>2. run[p].route \in Routes
      <4>1. run[p] \in Attempt
        BY <2>3, InAttempt DEF ProviderAbsent, At, TypeInv
      <4>. QED BY <4>1 DEF Attempt
    <3>3. provider \in DOMAIN Tier
      BY <3>1, <3>2, RoutingAssumption
    <3>4. absent' = [absent EXCEPT ![p] = absent[p] \cup {provider}] /\ UNCHANGED steady
      BY <2>3, <3>1 DEF ProviderAbsent, past
    <3>. QED BY <3>3, <3>4 DEF MemoTyped
  <2>4. ASSUME NEW p \in Processes, Resolve(p) PROVE MemoTyped'
    <3>1. steady' \in BOOLEAN /\ UNCHANGED absent
      BY <2>4 DEF Resolve
    <3>. QED BY <3>1 DEF MemoTyped
  <2>. QED BY <2>1, <2>2, <2>3, <2>4
     DEF Next, vars, OwnerStep, QueueStep, DriverStep, Lease, Return, Stall, ResolveFails,
         ProviderAnswers, ProviderFails, ScopeChecked, Apply, ApplyFails, CopyWorkspace,
         CallFails, Accept, Reject, Revert, Commit, Record, Hook, past
<1>. QED BY <1>1, <1>2, TypeInvHolds, PTL DEF Spec

LEMMA TypesHold == TypeInv /\ MemoTyped /\ PolicyTypeOK => TypeOK
BY DEF TypeInv, TaskTyped, RunTyped, RowsTyped, TreesTyped, MemoTyped, TypeOK

-----------------------------------------------------------------------------
(* The tiers in order.                                                     *)

AskedRoutes == {tried[k].route : k \in DOMAIN tried}

Judging == {"call", "scope", "apply", "copy", "verify", "revert", "commit", "record"}

(* The first n attempts are over, or the n-th has asked: unless one of     *)
(* them ended before it asked, those without a verdict have reached as far *)
(* as the next attempt will skip.                                          *)
Walked(n) ==
    /\ Len(artifacts) <= n /\ Len(tried) <= n
    /\ Len(tried) = n => Reached(Remaining(artifacts, available), AskedRoutes,
                                 (n - Len(artifacts)) \div 2)

Walking(n) ==
    /\ Len(artifacts) < n /\ Len(tried) <= n
    /\ Len(tried) = n => Ready(Remaining(artifacts, available), AskedRoutes,
                               (n - 1 - Len(artifacts)) \div 2)

RunWalks(r) ==
    /\ r.at = "resolve" => Walked(task.attempt - 1)
    /\ r.at \in Judging => r.route \in AskedRoutes /\ Walking(task.attempt)
    /\ r.at \in {"hook", "return"} => Walked(task.attempt)

InOrder ==
    \A n \in DOMAIN tried : \A i, j \in DOMAIN Chain :
       /\ tried[n].attempt = n
       /\ i < j /\ tried[n].route = Chain[j] /\ CanBeHad(Chain[i])
       => AskedBefore(n, Chain[i])

RowsAsked == \A i \in DOMAIN artifacts : artifacts[i].route \in AskedRoutes

ChainInv ==
    /\ InOrder /\ RowsAsked
    /\ (\A p \in Processes : run[p] = NoRun) => Walked(task.attempt)
    /\ \A p \in Processes : run[p] # NoRun => RunWalks(run[p])

OrderInv == stalled \/ ~steady \/ versions # <<>> \/ ChainInv

LEMMA WalkingEnds ==
    ASSUME TypeInv, NEW n \in Nat, Walking(n) PROVE Walked(n)
<1>. DEFINE u == n - 1 - Len(artifacts)
            S == Remaining(artifacts, available)
<1>1. Len(artifacts) \in Nat /\ Len(artifacts) < n /\ Len(tried) <= n
  BY LenProperties DEF TypeInv, RowsTyped, Walking
<1>2. u \in Nat /\ u + 1 = n - Len(artifacts)
  BY <1>1
<1>3. S \in Tiers(Len(Chain)) /\ Len(Chain) \in Nat
  BY TiersOfChain, ChainTyped
<1>4. Len(tried) = n => Ready(S, AskedRoutes, u \div 2)
  BY DEF Walking
<1>5. Len(tried) = n => Reached(S, AskedRoutes, (u + 1) \div 2)
  <2>. HIDE DEF u, S
  <2>. QED BY <1>2, <1>3, <1>4, OneMoreSkipped
<1>. QED BY <1>1, <1>2, <1>5 DEF Walked

(* A step of the one attempt that runs.                                    *)
LEMMA ChainCloses ==
    ASSUME Quiet, NEW p \in Processes, run[p] # NoRun, NEW r, r # NoRun,
           run' = [run EXCEPT ![p] = r], InOrder', RowsAsked', RunWalks(r)'
    PROVE  ChainInv'
<1>1. \A q \in Processes \ {p} : run[q] = NoRun
  BY OnlyRun
<1>2. run = [q \in Processes |-> run[q]]
  BY DEF Quiet, ShapeInv
<1>3. run'[p] = r /\ \A q \in Processes \ {p} : run'[q] = NoRun
  BY <1>1, <1>2
<1>. QED BY <1>3 DEF ChainInv

LEMMA SameChain ==
    ASSUME UNCHANGED <<task, artifacts, available, tried>>
    PROVE  /\ (InOrder => InOrder') /\ (RowsAsked => RowsAsked')
           /\ \A n : Walked(n) => Walked(n)'
           /\ \A r : RunWalks(r) => RunWalks(r)'
BY DEF InOrder, RowsAsked, Walked, Walking, RunWalks, AskedRoutes, CanBeHad, AskedBefore

(* An attempt that goes on to be judged, or gives up on it.                *)
LEMMA JudgingGoesOn ==
    ASSUME Quiet, ChainInv, TypeInv, NEW p \in Processes, run[p] # NoRun, NEW r,
           run' = [run EXCEPT ![p] = r], r.route = run[p].route,
           UNCHANGED <<task, artifacts, available, tried>>,
           \/ run[p].at \in Judging /\ r.at \in Judging \cup {"return"}
           \/ run[p].at = "hook" /\ r.at = "return"
    PROVE  ChainInv'
<1>1. InOrder /\ RowsAsked /\ RunWalks(run[p]) /\ task.attempt \in Nat
  BY DEF ChainInv, Quiet, ShapeInv
<1>2. r # NoRun
  BY DEF NoRun, Judging
<1>3. RunWalks(r)
  <2>1. CASE run[p].at \in Judging
    BY <1>1, <2>1, WalkingEnds DEF RunWalks, Judging
  <2>2. CASE run[p].at = "hook" /\ r.at = "return"
    BY <1>1, <2>2 DEF RunWalks, Judging
  <2>. QED BY <2>1, <2>2
<1>. QED BY <1>1, <1>2, <1>3, SameChain, ChainCloses

LEMMA ResolveStatic ==
    ASSUME NEW known, NEW offered, NEW rows, NEW listed, NEW ordinal
    PROVE  resolve(<<>>, known, offered, rows, listed, ordinal)
              = nextStaticTier(rows, listed, ordinal)
BY DEF resolve

LEMMA ActiveIsNone ==
    ASSUME versions = <<>> PROVE Active = <<>>
<1>1. {v \in DOMAIN versions : In(v, "active")} = {}
  OBVIOUS
<1>2. Cardinality({v \in DOMAIN versions : In(v, "active")}) = 0
  BY <1>1, FS_EmptySet
<1>. QED BY <1>2 DEF Active

LEMMA ResolveOrdered ==
    ASSUME Quiet, ChainInv, TypeInv, versions = <<>>, NEW p \in Processes, Resolve(p),
           steady'
    PROVE  ChainInv'
<1>1. /\ run[p] # NoRun /\ run[p].at = "resolve" /\ run[p].n = task.attempt
      /\ task.attempt \in Nat /\ RunWalks(run[p]) /\ InOrder /\ RowsAsked
  <2>1. run[p] # NoRun /\ run[p].at = "resolve"
    BY DEF Resolve, At, NoRun
  <2>. QED BY <2>1, OnlyRun DEF Quiet, ShapeInv, ChainInv
<1>2. PICK n \in Nat : n = task.attempt
  BY <1>1
<1>3. PICK L : L = Len(artifacts)
  OBVIOUS
<1>4. PICK m : m = Len(tried)
  OBVIOUS
<1>5. /\ L \in Nat /\ m \in Nat /\ L <= n - 1 /\ m <= n - 1
      /\ m = n - 1 => Reached(Remaining(artifacts, available), AskedRoutes,
                              (n - 1 - L) \div 2)
  BY <1>1, <1>2, <1>3, <1>4, LenProperties DEF TypeInv, RowsTyped, RunWalks, Walked
<1>6. unsettled(artifacts, n) = n - 1 - L
  BY <1>3, <1>5 DEF unsettled
<1>7. PICK i \in DOMAIN Chain :
          /\ nextStaticTier(artifacts, available, n) = Chain[i]
          /\ Follows(i, artifacts, available, (n - 1 - L) \div 2)
  BY <1>3, <1>5, <1>6, NextTier
<1>8. /\ run' = [run EXCEPT ![p].at = "call", ![p].route = Chain[i]]
      /\ tried' = Append(tried, [attempt |-> n, route |-> Chain[i]])
  <2>1. PICK active \in {Active, <<>>}, models \in Adapters :
            Resolved(p, active, models, artifacts, available)
    BY DEF Resolve
  <2>2. active = <<>>
    BY <2>1, ActiveIsNone
  <2>3. resolve(active, artifacts, Listed(p, models), artifacts, available, run[p].n)
           = Chain[i]
    BY <1>1, <1>2, <1>7, <2>2, ResolveStatic
  <2>. QED BY <1>1, <1>2, <2>1, <2>3 DEF Resolved
<1>9. UNCHANGED <<task, artifacts, available>>
  BY DEF Resolve
<1>10. /\ DOMAIN tried = 1..m /\ DOMAIN tried' = 1..(m + 1) /\ Len(tried') = m + 1
       /\ tried'[m + 1].attempt = n /\ tried'[m + 1].route = Chain[i]
       /\ \A k \in 1..m : tried'[k] = tried[k]
  <2>. DEFINE T == [attempt : 1..MaxAttempts, route : Routes]
              e == [attempt |-> n, route |-> Chain[i]]
  <2>1. e \in T
    <3>1. n \in 1..MaxAttempts
      BY <1>1, <1>2, <1>5, PatchAssumption DEF TypeInv, TaskTyped
    <3>. QED BY <3>1, ChainTyped
  <2>2. tried \in Seq(T)
    BY DEF TypeInv, RowsTyped
  <2>3. e.attempt = n /\ e.route = Chain[i] /\ tried' = Append(tried, e)
    BY <1>8
  <2>. HIDE DEF T, e
  <2>4. /\ tried' \in Seq(T) /\ Len(tried') = m + 1 /\ tried'[m + 1] = e
        /\ \A k \in 1..m : tried'[k] = tried[k]
    BY <1>4, <2>1, <2>2, <2>3, AppendProperties
  <2>5. DOMAIN tried = 1..m /\ DOMAIN tried' = 1..(m + 1)
    BY <1>4, <2>2, <2>4, LenProperties
  <2>. QED BY <2>3, <2>4, <2>5
<1>11. AskedRoutes' = AskedRoutes \cup {Chain[i]}
  BY <1>5, <1>10 DEF AskedRoutes
<1>12. ASSUME m = n - 1
       PROVE  /\ \A j \in Open(available) : j < i => Chain[j] \in AskedRoutes
              /\ Ready(Remaining(artifacts, available), AskedRoutes \cup {Chain[i]},
                       (n - 1 - L) \div 2)
  BY <1>1, <1>5, <1>7, <1>12 DEF Follows, RowsAsked
<1>13. InOrder'
  <2>. SUFFICES ASSUME NEW k \in 1..(m + 1), NEW a \in DOMAIN Chain, NEW b \in DOMAIN Chain,
                       tried'[k].attempt = k, a < b, tried'[k].route = Chain[b],
                       CanBeHad(Chain[a])
                PROVE  \E l \in 1..(k - 1) : tried'[l].route = Chain[a]
    BY <1>9, <1>10 DEF InOrder, AskedBefore, CanBeHad
  <2>1. CASE k \in 1..m
    <3>1. tried[k].attempt = k /\ tried[k].route = Chain[b] /\ k \in DOMAIN tried
      BY <1>10, <2>1
    <3>2. PICK l \in 1..(k - 1) : tried[l].route = Chain[a]
      BY <1>1, <3>1 DEF InOrder, AskedBefore
    <3>3. l \in 1..m
      BY <1>5, <2>1, <3>2
    <3>. QED BY <1>10, <3>2, <3>3
  <2>2. CASE k = m + 1
    <3>1. m = n - 1 /\ b = i
      <4>1. tried'[m + 1].attempt = m + 1 /\ Chain[b] = Chain[i]
        BY <1>10, <2>2
      <4>. QED BY <1>5, <1>10, <4>1, RoutingAssumption
    <3>2. a \in Open(available)
      BY DEF Open, CanBeHad
    <3>3. PICK l \in 1..m : tried[l].route = Chain[a]
      BY <1>10, <1>12, <3>1, <3>2 DEF AskedRoutes
    <3>. QED BY <1>5, <1>10, <2>2, <3>3
  <2>. QED BY <1>5, <2>1, <2>2
<1>14. RowsAsked'
  BY <1>1, <1>9, <1>11 DEF RowsAsked
<1>15. PICK r : r = [run[p] EXCEPT !.at = "call", !.route = Chain[i]]
  OBVIOUS
<1>16. r.at = "call" /\ r.route = Chain[i] /\ run' = [run EXCEPT ![p] = r]
  <2>1. Shaped(run[p])
    BY <1>1, OnlyRun
  <2>2. r = [at |-> "call", n |-> run[p].n, route |-> Chain[i],
             writes |-> run[p].writes, ok |-> run[p].ok]
    BY <1>15, <2>1 DEF Shaped
  <2>. QED BY <1>8, <1>15, <2>2
<1>17. RunWalks(r)'
  <2>1. Walking(n)'
    <3>1. Len(artifacts') = L /\ L < n /\ Len(tried') <= n
      BY <1>3, <1>5, <1>9, <1>10
    <3>2. ASSUME Len(tried') = n
          PROVE  Ready(Remaining(artifacts', available'), AskedRoutes',
                       (n - 1 - Len(artifacts')) \div 2)
      <4>1. m = n - 1
        BY <1>5, <1>10, <3>2
      <4>. QED BY <1>9, <1>11, <1>12, <3>1, <4>1
    <3>. QED BY <3>1, <3>2 DEF Walking
  <2>2. task'.attempt = n
    BY <1>2, <1>9
  <2>3. r.route \in AskedRoutes'
    BY <1>11, <1>16
  <2>. QED BY <1>16, <2>1, <2>2, <2>3 DEF RunWalks, Judging
<1>18. r # NoRun
  BY <1>16 DEF NoRun
<1>. QED BY <1>1, <1>13, <1>14, <1>16, <1>17, <1>18, ChainCloses

LEMMA RecordOrdered ==
    ASSUME Quiet, ChainInv, TypeInv, NEW p \in Processes, Record(p)
    PROVE  ChainInv'
<1>1. /\ run[p] # NoRun /\ run[p].at = "record" /\ RunWalks(run[p])
      /\ InOrder /\ RowsAsked
  <2>1. run[p] # NoRun /\ run[p].at = "record"
    BY DEF Record, At, NoRun
  <2>. QED BY <2>1 DEF ChainInv
<1>2. PICK n \in Nat : n = task.attempt
  BY DEF Quiet, ShapeInv
<1>3. /\ UNCHANGED <<task, available, tried>> /\ AskedRoutes' = AskedRoutes
  BY DEF Record, past, AskedRoutes
<1>4. PICK a : a = [attempt |-> run[p].n, route |-> run[p].route,
                    status |-> IF run[p].ok THEN "accepted" ELSE "rejected"]
  OBVIOUS
<1>5. a \in Artifact /\ a.route = run[p].route
  <2>1. run[p] \in Attempt
    BY <1>1 DEF TypeInv, RunTyped
  <2>. QED BY <1>4, <2>1, PatchAssumption DEF Attempt, Artifact
<1>6. artifacts' = Append(artifacts, a) /\ artifacts \in Seq(Artifact)
  BY <1>4 DEF Record, TypeInv, RowsTyped
<1>7. PICK L \in Nat : L = Len(artifacts)
  BY <1>6, LenProperties
<1>8. /\ DOMAIN artifacts' = DOMAIN artifacts \cup {L + 1} /\ Len(artifacts') = L + 1
      /\ artifacts'[L + 1] = a /\ \A i \in DOMAIN artifacts : artifacts'[i] = artifacts[i]
  <2>1. /\ artifacts' \in Seq(Artifact) /\ Len(artifacts') = L + 1
        /\ artifacts'[L + 1] = a /\ \A i \in 1..L : artifacts'[i] = artifacts[i]
    BY <1>5, <1>6, <1>7, AppendProperties
  <2>2. DOMAIN artifacts' = 1..(L + 1) /\ DOMAIN artifacts = 1..L
    BY <1>6, <1>7, <2>1, LenProperties
  <2>. QED BY <1>7, <2>1, <2>2
<1>9. Walking(n) /\ run[p].route \in AskedRoutes
  BY <1>1, <1>2 DEF RunWalks, Judging
<1>10. InOrder'
  BY <1>1, <1>3 DEF InOrder, CanBeHad, AskedBefore
<1>11. RowsAsked'
  BY <1>1, <1>3, <1>5, <1>8, <1>9 DEF RowsAsked
<1>12. Walked(n)'
  <2>1. Len(artifacts') <= n /\ Len(tried') <= n /\ n - Len(artifacts') = n - 1 - L
        /\ n - 1 - L \in Nat
    BY <1>3, <1>7, <1>8, <1>9 DEF Walking
  <2>2. ASSUME Len(tried) = n
        PROVE  Reached(Remaining(artifacts', available), AskedRoutes, (n - 1 - L) \div 2)
    <3>. DEFINE S == Remaining(artifacts, available)
                T == Remaining(artifacts', available)
                s == (n - 1 - L) \div 2
    <3>1. S \in Tiers(Len(Chain)) /\ Len(Chain) \in Nat
      BY TiersOfChain, ChainTyped
    <3>2. T \in SUBSET S /\ \E x : S \ T \subseteq {x}
      BY <1>5, <1>6, RemainingShrinks
    <3>3. Ready(S, AskedRoutes, s) /\ s \in Nat
      BY <1>7, <1>9, <2>1, <2>2 DEF Walking
    <3>. HIDE DEF S, T, s
    <3>4. Reached(T, AskedRoutes, s)
      BY <3>1, <3>2, <3>3, OneTierLess
    <3>. QED BY <3>4 DEF T, s
  <2>. QED BY <1>3, <2>1, <2>2 DEF Walked
<1>13. PICK r : r = [run[p] EXCEPT !.at = IF run[p].ok THEN "hook" ELSE "return"]
  OBVIOUS
<1>14. /\ r.at \in {"hook", "return"} /\ run' = [run EXCEPT ![p] = r]
  <2>1. Shaped(run[p])
    BY <1>1, OnlyRun
  <2>2. r = [at |-> IF run[p].ok THEN "hook" ELSE "return", n |-> run[p].n,
             route |-> run[p].route, writes |-> run[p].writes, ok |-> run[p].ok]
    BY <1>13, <2>1 DEF Shaped
  <2>. QED BY <1>13, <2>2 DEF Record, Goto
<1>15. RunWalks(r)' /\ r # NoRun
  BY <1>2, <1>3, <1>12, <1>14 DEF RunWalks, Judging, NoRun
<1>. QED BY <1>1, <1>10, <1>11, <1>14, <1>15, ChainCloses

(* The driver's other steps leave the route of the attempt as it is.       *)
LEMMA JudgingOrdered ==
    ASSUME Quiet, ChainInv, TypeInv, NEW p \in Processes,
           DriverStep(p), ~Resolve(p), ~ResolveFails(p), ~Record(p)
    PROVE  ChainInv'
<1>1. /\ run[p].at \in Judging \cup {"hook"} /\ run[p] # NoRun
      /\ UNCHANGED <<task, artifacts, available, tried>>
  BY DEF DriverStep, ProviderAnswers, ProviderFails, ProviderAbsent, ScopeChecked,
         Apply, ApplyFails, CopyWorkspace, CallFails, Accept, Reject, Revert, Commit,
         Hook, At, Judging, NoRun, past
<1>2. Shaped(run[p])
  BY <1>1, OnlyRun
<1>3. ASSUME NEW step \in (IF run[p].at = "hook" THEN {"return"}
                           ELSE Judging \cup {"return"}),
             NEW r, r.at = step, r.route = run[p].route, run' = [run EXCEPT ![p] = r]
      PROVE  ChainInv'
  <2>1. \/ run[p].at \in Judging /\ r.at \in Judging \cup {"return"}
        \/ run[p].at = "hook" /\ r.at = "return"
    BY <1>1, <1>3
  <2>. QED BY <1>1, <1>3, <2>1, JudgingGoesOn
<1>4. ASSUME NEW step \in (IF run[p].at = "hook" THEN {"return"}
                           ELSE Judging \cup {"return"}),
             Goto(p, step)
      PROVE  ChainInv'
  <2>1. PICK r : r = [run[p] EXCEPT !.at = step]
    OBVIOUS
  <2>2. r.at = step /\ r.route = run[p].route
    <3>1. r = [at |-> step, n |-> run[p].n, route |-> run[p].route,
               writes |-> run[p].writes, ok |-> run[p].ok]
      BY <1>2, <2>1 DEF Shaped
    <3>. QED BY <3>1
  <2>3. run' = [run EXCEPT ![p] = r]
    BY <1>4, <2>1 DEF Goto
  <2>. QED BY <1>3, <2>2, <2>3
<1>5. ASSUME NEW step \in (IF run[p].at = "hook" THEN {"return"}
                           ELSE Judging \cup {"return"}), NEW ok,
             run' = [run EXCEPT ![p].at = step, ![p].ok = ok]
      PROVE  ChainInv'
  <2>1. PICK r : r = [run[p] EXCEPT !.at = step, !.ok = ok]
    OBVIOUS
  <2>2. r.at = step /\ r.route = run[p].route
    <3>1. r = [at |-> step, n |-> run[p].n, route |-> run[p].route,
               writes |-> run[p].writes, ok |-> ok]
      BY <1>2, <2>1 DEF Shaped
    <3>. QED BY <3>1
  <2>3. run' = [run EXCEPT ![p] = r]
    BY <1>5, <2>1
  <2>. QED BY <1>3, <2>2, <2>3
<1>6. ASSUME NEW step \in Judging, NEW writes, run[p].at # "hook",
             run' = [run EXCEPT ![p].at = step, ![p].writes = writes]
      PROVE  ChainInv'
  <2>1. PICK r : r = [run[p] EXCEPT !.at = step, !.writes = writes]
    OBVIOUS
  <2>2. r.at = step /\ r.route = run[p].route
    <3>1. r = [at |-> step, n |-> run[p].n, route |-> run[p].route,
               writes |-> writes, ok |-> run[p].ok]
      BY <1>2, <2>1 DEF Shaped
    <3>. QED BY <3>1
  <2>3. run' = [run EXCEPT ![p] = r]
    BY <1>6, <2>1
  <2>. QED BY <1>3, <1>6, <2>2, <2>3
<1>7. CASE \/ ScopeChecked(p) \/ ApplyFails(p) \/ CopyWorkspace(p) \/ Accept(p)
           \/ Reject(p) \/ Revert(p) \/ Hook(p)
  BY <1>4, <1>7 DEF ScopeChecked, ApplyFails, CopyWorkspace, Accept, Reject, Revert,
                    Hook, At, Judging
<1>8. CASE ProviderFails(p) \/ ProviderAbsent(p) \/ CallFails(p)
  BY <1>5, <1>8 DEF ProviderFails, ProviderAbsent, CallFails, Throws
<1>9. CASE Commit(p)
  BY <1>5, <1>9 DEF Commit, Throws, At, Judging
<1>10. CASE ProviderAnswers(p) \/ Apply(p)
  BY <1>6, <1>10 DEF ProviderAnswers, Apply, At, Judging
<1>. QED BY <1>7, <1>8, <1>9, <1>10 DEF DriverStep

LEMMA LeaseOrdered ==
    ASSUME Quiet, ChainInv, TypeInv, NEW p \in Processes, Lease(p) PROVE ChainInv'
<1>1. /\ \A q \in Processes : run[q] = NoRun
      /\ run = [q \in Processes |-> run[q]] /\ task.attempt \in Nat
  BY DEF Lease, Quiet, Alone, ShapeInv
<1>2. PICK n \in Nat : n = task.attempt
  BY <1>1
<1>3. /\ task'.attempt = n + 1 /\ UNCHANGED <<artifacts, available, tried>>
  BY <1>2 DEF Lease, past
<1>4. Walked(n) /\ InOrder /\ RowsAsked
  BY <1>1, <1>2 DEF ChainInv
<1>5. Walked(n)' /\ InOrder' /\ RowsAsked'
  BY <1>3, <1>4 DEF Walked, InOrder, RowsAsked, AskedRoutes, CanBeHad, AskedBefore
<1>6. PICK r : r = [at |-> "resolve", n |-> n + 1, route |-> Chain[1], writes |-> {},
                    ok |-> FALSE]
  OBVIOUS
<1>7. run' = [run EXCEPT ![p] = r]
  BY <1>2, <1>6 DEF Lease
<1>8. run'[p] = r /\ \A q \in Processes \ {p} : run'[q] = NoRun
  BY <1>1, <1>7
<1>9. RunWalks(r)' /\ r # NoRun
  <2>1. task'.attempt - 1 = n
    BY <1>3
  <2>. QED BY <1>5, <1>6, <2>1 DEF RunWalks, Judging, NoRun
<1>. QED BY <1>5, <1>8, <1>9 DEF ChainInv

(* However it ends, an attempt that ended counts as one of the first n.    *)
LEMMA EndOrdered ==
    ASSUME Quiet, ChainInv, TypeInv, NEW p \in Processes, run[p] # NoRun,
           task'.attempt = task.attempt, run' = [run EXCEPT ![p] = NoRun],
           UNCHANGED <<artifacts, available, tried>>
    PROVE  ChainInv'
<1>1. PICK n \in Nat : n = task.attempt
  BY DEF Quiet, ShapeInv
<1>2. RunWalks(run[p]) /\ InOrder /\ RowsAsked /\ run[p].at \in Steps
  BY OnlyRun DEF ChainInv, Shaped
<1>3. Walked(n)
  <2>1. CASE run[p].at = "resolve"
    <3>1. Len(artifacts) \in Nat /\ Len(tried) \in Nat
      BY LenProperties DEF TypeInv, RowsTyped
    <3>. QED BY <1>1, <1>2, <2>1, <3>1 DEF RunWalks, Walked
  <2>2. CASE run[p].at \in Judging
    BY <1>1, <1>2, <2>2, WalkingEnds DEF RunWalks
  <2>3. CASE run[p].at \in {"hook", "return"}
    BY <1>1, <1>2, <2>3 DEF RunWalks
  <2>. QED BY <1>2, <2>1, <2>2, <2>3 DEF Steps, Judging
<1>4. Walked(n)' /\ InOrder' /\ RowsAsked'
  BY <1>2, <1>3 DEF Walked, InOrder, RowsAsked, AskedRoutes, CanBeHad, AskedBefore
<1>5. \A q \in Processes : run'[q] = NoRun
  <2>1. \A q \in Processes \ {p} : run[q] = NoRun
    BY OnlyRun
  <2>2. run = [q \in Processes |-> run[q]]
    BY DEF Quiet, ShapeInv
  <2>. QED BY <2>1, <2>2
<1>6. task'.attempt = n
  BY <1>1
<1>. QED BY <1>4, <1>5, <1>6 DEF ChainInv

LEMMA VersionsStay ==
    ASSUME TablesInv, versions # <<>>, PolicyNext PROVE versions' # <<>>
<1>1. versions \in Seq(Version) /\ DOMAIN versions = 1..Len(versions) /\ Len(versions) \in Nat
  BY LenProperties DEF TablesInv
<1>2. DOMAIN versions # {}
  <2>1. Len(versions) # 0
    BY <1>1, EmptySeq
  <2>2. 1 \in 1..Len(versions)
    BY <1>1, <2>1
  <2>. QED BY <1>1, <2>2
<1>3. ASSUME NEW v \in Version PROVE Append(versions, v) # <<>>
  <2>1. Len(Append(versions, v)) = Len(versions) + 1
    BY <1>1, AppendProperties
  <2>. QED BY <1>1, <2>1, EmptySeq
<1>4. ASSUME NEW policy \in Policies, createDraft(policy) PROVE versions' # <<>>
  <2>1. [state |-> "draft", policy |-> policy] \in Version
    BY DEF Version
  <2>. QED BY <1>3, <1>4, <2>1 DEF createDraft
<1>5. ASSUME NEW v \in DOMAIN versions,
             \/ StartCanary(v) \/ validate(v) \/ approve(v) \/ activate(v)
      PROVE  DOMAIN versions' = DOMAIN versions
  BY <1>5 DEF StartCanary, validate, approve, activate, Moves, Activated
<1>6. ASSUME NEW v \in DOMAIN versions, rollback(v) PROVE versions' # <<>>
  <2>1. PICK rows : /\ rows = Append(versions, [versions[v] EXCEPT !.state = "approved"])
                    /\ versions' = Activated(rows, Len(rows))
    BY <1>6 DEF rollback
  <2>2. DOMAIN rows # {}
    BY <1>1, <2>1
  <2>3. DOMAIN versions' # {}
    BY <2>1, <2>2 DEF Activated
  <2>. QED BY <2>3
<1>7. ASSUME UNCHANGED versions PROVE versions' # <<>>
  BY <1>7
<1>. QED BY <1>2, <1>4, <1>5, <1>6, <1>7
        DEF PolicyNext, RouteAnswers, CanaryFails, recordCanaryEvidence

LEMMA OrderInvHolds == Spec => []OrderInv
<1>1. Init => OrderInv
  <2>. SUFFICES ASSUME Init PROVE ChainInv
    BY DEF OrderInv
  <2>1. /\ artifacts = <<>> /\ tried = <<>> /\ run = [p \in Processes |-> NoRun]
        /\ task.attempt = 0
    BY DEF Init
  <2>2. InOrder /\ RowsAsked
    BY <2>1 DEF InOrder, RowsAsked
  <2>3. Walked(0)
    <3>. DEFINE S == Remaining(artifacts, available)
    <3>1. \A i \in S : Ahead(S, i) \in Nat
      <4>1. S \in Tiers(Len(Chain)) /\ Len(Chain) \in Nat
        BY TiersOfChain, ChainTyped
      <4>. HIDE DEF S
      <4>. QED BY <4>1, FewAhead
    <3>2. (0 - Len(artifacts)) \div 2 = 0 /\ Len(artifacts) = 0 /\ Len(tried) = 0
      BY <2>1
    <3>3. Reached(S, AskedRoutes, 0)
      <4>. HIDE DEF S
      <4>. QED BY <3>1 DEF Reached
    <3>. QED BY <3>2, <3>3 DEF Walked
  <2>. QED BY <2>1, <2>2, <2>3 DEF ChainInv
<1>2. OrderInv /\ PatchInv /\ TypeInv /\ PolicyInv /\ [Next]_vars => OrderInv'
  <2>. SUFFICES ASSUME OrderInv, PatchInv, TypeInv, PolicyInv, [Next]_vars PROVE OrderInv'
    OBVIOUS
  <2>1. CASE stalled
    <3>1. stalled'
      BY <2>1 DEF Next, vars, OwnerStep, QueueStep, DriverStep, Lease, Return, Die,
         Stall, Restart, Resolve, ResolveFails, ProviderAnswers, ProviderFails,
         ProviderAbsent, ScopeChecked, Apply, ApplyFails, CopyWorkspace, CallFails,
         Accept, Reject, Revert, Commit, Record, Hook, past
    <3>. QED BY <3>1 DEF OrderInv
  <2>2. CASE versions # <<>>
    <3>1. PolicyNext \/ UNCHANGED versions
      BY DEF Next, vars, policies, OwnerStep, QueueStep, DriverStep, Lease, Return, Die,
         Stall, Restart, Resolve, ResolveFails, ProviderAnswers, ProviderFails,
         ProviderAbsent, ScopeChecked, Apply, ApplyFails, CopyWorkspace, CallFails,
         Accept, Reject, Revert, Commit, Record, Hook
    <3>. QED BY <2>2, <3>1, VersionsStay DEF OrderInv, PolicyInv
  <2>3. CASE ~stalled /\ steady /\ versions = <<>>
    <3>1. Quiet /\ ChainInv
      BY <2>3 DEF PatchInv, OrderInv
    <3>2. CASE UNCHANGED <<task, available, artifacts, run, tried>>
      <4>1. ChainInv'
        BY <3>1, <3>2, SameChain DEF ChainInv
      <4>. QED BY <4>1 DEF OrderInv
    <3>3. ASSUME NEW p \in Processes, DriverStep(p) PROVE OrderInv'
      <4>1. ~ResolveFails(p)
        BY <2>3, ActiveIsNone DEF ResolveFails
      <4>. QED BY <2>3, <3>1, <3>3, <4>1, ResolveOrdered, RecordOrdered, JudgingOrdered
                  DEF OrderInv
    <3>4. ASSUME NEW p \in Processes, Lease(p) PROVE OrderInv'
      BY <3>1, <3>4, LeaseOrdered DEF OrderInv
    <3>5. ASSUME NEW p \in Processes, Return(p) \/ Die(p) PROVE OrderInv'
      <4>1. run[p] # NoRun /\ run' = [run EXCEPT ![p] = NoRun]
            /\ UNCHANGED <<artifacts, available, tried>>
        <5>1. CASE Return(p)
          BY <5>1 DEF Return, At, NoRun, past
        <5>2. CASE Die(p)
          BY <5>2 DEF Die, past
        <5>. QED BY <3>5, <5>1, <5>2
      <4>2. task'.attempt = task.attempt
        BY <3>1, <3>5 DEF Return, Die, Ended, Quiet, ShapeInv
      <4>. QED BY <3>1, <4>1, <4>2, EndOrdered DEF OrderInv
    <3>6. ASSUME NEW p \in Processes, Stall(p) PROVE OrderInv'
      BY <3>6 DEF Stall, OrderInv
    <3>7. ASSUME NEW p \in Processes, Restart(p) PROVE OrderInv'
      BY <3>2, <3>7 DEF Restart, past
    <3>. QED BY <3>2, <3>3, <3>4, <3>5, <3>6, <3>7 DEF Next, OwnerStep, QueueStep, vars, past
  <2>4. CASE ~steady
    <3>1. ASSUME NEW p \in Processes, Resolve(p) PROVE ~steady'
      BY <2>4, <3>1 DEF Resolve
    <3>2. ASSUME NEW p \in Processes, DriverStep(p), ~Resolve(p) PROVE steady' = steady
      BY <3>2 DEF DriverStep, ResolveFails, ProviderAnswers, ProviderFails, ProviderAbsent,
         ScopeChecked, Apply, ApplyFails, CopyWorkspace, CallFails, Accept, Reject,
         Revert, Commit, Record, Hook, past
    <3>3. ASSUME NEW p \in Processes, QueueStep(p) PROVE steady' = steady
      BY <3>3 DEF QueueStep, Lease, Return, Die, Stall, Restart, past
    <3>4. CASE OwnerStep \/ UNCHANGED vars
      BY <2>4, <3>4 DEF OwnerStep, vars, past, OrderInv
    <3>. QED BY <2>4, <3>1, <3>2, <3>3, <3>4 DEF Next, OrderInv
  <2>. QED BY <2>1, <2>2, <2>3, <2>4
<1>. QED BY <1>1, <1>2, PatchInvHolds, TypeInvHolds, PolicyInvHolds, PTL DEF Spec

(* With no policy, no process that outlived its lease, and as long as every*)
(* attempt reads its rows and the same list of models, no attempt goes to  *)
(* a tier before every cheaper one that can be had was asked, by however   *)
(* many attempts, and whichever of them left no verdict.                   *)
THEOREM TiersAreWalked == Spec => []TiersInOrder
<1>1. OrderInv /\ TypeOK => TiersInOrder
  BY DEF OrderInv, ChainInv, InOrder, TiersInOrder
<1>2. ActiveIsProved => PolicyTypeOK
  BY DEF ActiveIsProved
<1>. QED BY <1>1, <1>2, TypesHold, OrderInvHolds, TypeInvHolds, MemoInvHolds,
            OnlyProvedIsActive, PTL

===============================================================================
