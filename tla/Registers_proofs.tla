---------------------------- MODULE Registers_proofs ----------------------------
(***************************************************************************)
(* PublishedOnce, for any paths and any number of commits.  It is not      *)
(* inductive: what a run that is on will record or push has to be tied to  *)
(* the history it found, and the record to the first commit.               *)
(*                                                                         *)
(* LeasesAreBacked, for any requests and limits: a lease has to be told    *)
(* from an older one of the same request, by its fence.                    *)
(***************************************************************************)
EXTENDS Capacity, Publication, Sums_proofs, TLAPS

-----------------------------------------------------------------------------
(* Publication.                                                            *)

(* The first commit on the baseline is the contract's.                     *)
FirstIsOwn ==
    /\ HeadSha >= 1
    /\ history[1].trailer /\ history[1].paths \subseteq Owned

Records ==
    /\ contract \in [preparing : BOOLEAN, prepared : Nat, published : Nat]
    /\ contract.prepared # NoSha => contract.prepared = 1 /\ FirstIsOwn
    /\ contract.published # NoSha => contract.published \in remote

Repository ==
    /\ history \in Seq(Commit) /\ HeadSha <= MaxCommits
    /\ dirty \subseteq Owned \cup Foreign
    /\ remote \subseteq {1}
    /\ remote # {} => FirstIsOwn

Run == [at : {"preparing", "commit", "prepared", "push", "published"}, sha : Nat,
        paths : SUBSET Owned]

(* A run that has not committed is on the baseline; one that has, pushes   *)
(* the first commit.                                                       *)
RunOn ==
    /\ publication \in {NotPublishing} \cup Run
    /\ publication.at \in {"preparing", "commit"} => HeadSha = 0
    /\ publication.at \in {"prepared", "push", "published"} =>
           publication.sha = 1 /\ FirstIsOwn
    /\ publication.at = "published" => 1 \in remote

PublicationInv == Records /\ Repository /\ RunOn

(* A commit more leaves the first one where it was.                        *)
LEMMA FirstStays ==
    ASSUME NEW h \in Seq(Commit), NEW c \in Commit
    PROVE  /\ Append(h, c) \in Seq(Commit)
           /\ Len(Append(h, c)) = Len(h) + 1
           /\ Len(h) >= 1 => Append(h, c)[1] = h[1]
           /\ Len(h) = 0 => Append(h, c)[1] = c
  OBVIOUS

(* At the start nothing is recorded, committed or pushed.                  *)
LEMMA InitPublicationInv == PublicationInit => PublicationInv
<1>1. MaxCommits \in Nat /\ NoSha \in Nat /\ NoSha # 0
  BY PublicationAssumption DEF NoSha
<1>2. <<>> \in Seq(Commit) /\ Len(<<>>) = 0
  OBVIOUS
<1>. QED
  BY <1>1, <1>2 DEF PublicationInit, PublicationInv, Records, Repository, RunOn, Run,
     NotPublishing, HeadSha

(* Nothing but a commit changes the history, and none replaces its first.  *)
LEMMA CommitKeepsFirst ==
    ASSUME PublicationInv, NEW c \in Commit, history' = Append(history, c)
    PROVE  /\ history' \in Seq(Commit) /\ HeadSha' = HeadSha + 1
           /\ FirstIsOwn => FirstIsOwn'
  BY FirstStays DEF PublicationInv, Repository, FirstIsOwn, HeadSha

(* Each of the run's steps, and of others', keeps the invariant.           *)
LEMMA PublicationStep == PublicationInv /\ [PublicationNext]_published => PublicationInv'
<1>. SUFFICES ASSUME PublicationInv, [PublicationNext]_published
              PROVE  PublicationInv'
  OBVIOUS
<1>0. MaxCommits \in Nat /\ NoSha = MaxCommits + 1 /\ Len(history) \in Nat
  BY PublicationAssumption DEF NoSha, PublicationInv, Repository
<1>. USE DEF PublicationInv, Records, Repository, RunOn, Run, NotPublishing, Publishing,
             Proceed, HeadSha
<1>a. UNCHANGED history => (FirstIsOwn <=> FirstIsOwn') /\ HeadSha' = HeadSha
  BY DEF FirstIsOwn
<1>1. CASE publishContract
  <2>0. UNCHANGED <<contract, history, dirty, remote>>
    BY <1>1 DEF publishContract
  <2>1. CASE contract.preparing /\ contract.prepared = NoSha /\ HeadSha # 0
    <3>1. FirstIsOwn /\ HeadSha = 1
      BY <1>1, <2>1 DEF publishContract, Reconcilable, FirstIsOwn
    <3>2. publication' = [at |-> "prepared", sha |-> 1, paths |-> {}]
      BY <1>1, <2>1, <3>1 DEF publishContract
    <3>. QED BY <1>0, <1>a, <2>0, <3>1, <3>2
  <2>2. CASE ~(contract.preparing /\ contract.prepared = NoSha /\ HeadSha # 0)
    <3>1. Plannable
      BY <1>1, <2>2 DEF publishContract
    <3>2. publication' = [at |-> IF contract.prepared # NoSha THEN "push"
                                 ELSE IF contract.preparing THEN "commit"
                                 ELSE "preparing",
                          sha |-> contract.prepared, paths |-> dirty]
      BY <1>1, <2>2 DEF publishContract
    <3>3. dirty \in SUBSET Owned
      BY <3>1 DEF Plannable
    <3>4. CASE contract.prepared # NoSha
      BY <1>0, <1>a, <2>0, <3>2, <3>3, <3>4
    <3>5. CASE contract.prepared = NoSha
      <4>1. HeadSha = 0
        BY <3>1, <3>5 DEF Plannable
      <4>. QED BY <1>0, <1>a, <2>0, <3>2, <3>3, <3>5, <4>1
    <3>. QED BY <3>4, <3>5
  <2>. QED BY <2>1, <2>2
<1>2. CASE RecordPreparing
  <2>1. publication \in Run /\ HeadSha = 0
    BY <1>2 DEF RecordPreparing
  <2>2. publication' = [publication EXCEPT !.at = "commit"]
    BY <1>2 DEF RecordPreparing
  <2>3. contract' = [contract EXCEPT !.preparing = TRUE]
    BY <1>2 DEF RecordPreparing
  <2>. QED BY <1>0, <1>2, <1>a, <2>1, <2>2, <2>3 DEF RecordPreparing
<1>3. CASE CommitPaths
  <2>1. publication \in Run /\ HeadSha = 0
    BY <1>3 DEF CommitPaths
  <2>2. [paths |-> publication.paths, trailer |-> TRUE] \in Commit
    BY <2>1 DEF Commit
  <2>3. /\ history' \in Seq(Commit) /\ HeadSha' = 1
        /\ history'[1] = [paths |-> publication.paths, trailer |-> TRUE]
    BY <1>3, <2>1, <2>2, FirstStays DEF CommitPaths
  <2>4. FirstIsOwn'
    BY <2>1, <2>3 DEF FirstIsOwn
  <2>5. publication' = [publication EXCEPT !.at = "prepared", !.sha = 1]
    BY <1>3, <2>1 DEF CommitPaths
  <2>6. publication' \in Run /\ publication'.at = "prepared" /\ publication'.sha = 1
    BY <2>1, <2>5
  <2>7. UNCHANGED <<contract, remote>> /\ dirty' \subseteq dirty /\ MaxCommits >= 1
    BY <1>0, <1>3, <2>1 DEF CommitPaths
  <2>. QED BY <1>0, <2>3, <2>4, <2>6, <2>7
<1>4. CASE RecordPrepared
  <2>1. publication \in Run /\ publication.sha = 1 /\ FirstIsOwn
    BY <1>4 DEF RecordPrepared
  <2>2. publication' = [publication EXCEPT !.at = "push"]
    BY <1>4 DEF RecordPrepared
  <2>3. contract' = [contract EXCEPT !.prepared = 1]
    BY <1>4, <2>1 DEF RecordPrepared
  <2>. QED BY <1>0, <1>4, <1>a, <2>1, <2>2, <2>3 DEF RecordPrepared
<1>5. CASE Push
  BY <1>0, <1>5 DEF Push, FirstIsOwn
<1>6. CASE RecordPublished
  BY <1>0, <1>6 DEF RecordPublished, FirstIsOwn
<1>7. CASE RunDies
  BY <1>7 DEF RunDies, FirstIsOwn
<1>8. CASE SomebodyElse
  <2>1. CASE UNCHANGED history
    BY <1>8, <2>1 DEF SomebodyElse, FirstIsOwn
  <2>2. CASE ~UNCHANGED history
    <3>1. PICK paths \in SUBSET (Owned \cup Foreign) :
             history' = Append(history, [paths |-> paths, trailer |-> FALSE])
      BY <1>8, <2>2 DEF SomebodyElse
    <3>2. [paths |-> paths, trailer |-> FALSE] \in Commit
      BY DEF Commit
    <3>3. /\ history' \in Seq(Commit) /\ HeadSha' = HeadSha + 1
          /\ FirstIsOwn => FirstIsOwn'
      BY <3>1, <3>2, CommitKeepsFirst
    <3>. QED BY <1>0, <1>8, <2>2, <3>3 DEF SomebodyElse
  <2>. QED BY <2>1, <2>2
<1>9. CASE UNCHANGED published
  BY <1>9 DEF published, FirstIsOwn
<1>. QED
  BY <1>1, <1>2, <1>3, <1>4, <1>5, <1>6, <1>7, <1>8, <1>9 DEF PublicationNext

(* The invariant says more than the property.                              *)
LEMMA PublicationInvGives == PublicationInv => PublishedOnce
<1>. SUFFICES ASSUME PublicationInv PROVE PublishedOnce
  OBVIOUS
<1>. USE DEF PublicationInv, Records, Repository, FirstIsOwn, HeadSha
<1>0. MaxCommits \in Nat /\ NoSha = MaxCommits + 1 /\ Len(history) \in Nat
  BY PublicationAssumption DEF NoSha
<1>1. remote # {} => 1 \in 1..MaxCommits
  BY <1>0
<1>2. contract.prepared \in 0..NoSha
  BY <1>0
<1>3. contract.published \in 0..NoSha
  BY <1>0, <1>1
<1>. QED
  BY <1>0, <1>1, <1>2, <1>3 DEF PublishedOnce, PublicationTypeOK

(* However often a run of publishContract() dies or fails, and whatever    *)
(* others commit in between, one commit is pushed: the first on the        *)
(* baseline, with the contract's trailer and paths; and what is recorded   *)
(* as published was pushed.                                                *)
THEOREM PublishedOneCommit == PublicationSpec => []PublishedOnce
<1>1. PublicationSpec => []PublicationInv
  BY InitPublicationInv, PublicationStep, PTL DEF PublicationSpec
<1>. QED BY <1>1, PublicationInvGives, PTL

-----------------------------------------------------------------------------
(* Capacity.                                                               *)

USE CapacityAssumption DEF CapacityAssumption

(* What the limits say of a set of requests.                               *)
Limited(S) ==
    /\ Cardinality(S) <= globalConcurrency
    /\ Cpu(S) <= cpuMillis
    /\ \A r \in S :
          /\ Cardinality(Of(S, providerOf, providerOf[r])) <= providerConcurrency
          /\ Cardinality(Of(S, projectOf, projectOf[r])) <= projectConcurrency

Reserved == DOMAIN reservations

(* The row of each request, fenced no higher than the sequence has come.   *)
RowsFenced ==
    /\ fence \in Nat /\ clock \in Nat
    /\ Reserved \subseteq Requests /\ IsFiniteSet(Reserved)
    /\ \A r \in Reserved :
          /\ reservations[r].fence \in Nat /\ reservations[r].fence <= fence
          /\ reservations[r].expires \in Nat

(* A lease that has the fence of its request's row is that row's lease,    *)
(* and one that nobody can think has run out has.                          *)
HasRow(lease) ==
    lease.request \in Reserved /\ reservations[lease.request].fence = lease.fence

LeaseKept(lease) ==
    /\ lease \in Lease /\ lease.fence <= fence
    /\ HasRow(lease) => reservations[lease.request].expires = lease.expires
    /\ lease.expires > clock + 1 => HasRow(lease)

CapacityInv == RowsFenced /\ Limited(Reserved) /\ \A lease \in held : LeaseKept(lease)

(* Fewer requests stay within the limits;                                  *)
LEMMA FewerAreLimited ==
    ASSUME NEW S \in SUBSET Requests, IsFiniteSet(S), Limited(S), NEW T \in SUBSET S
    PROVE  Limited(T)
<1>1. Cardinality(T) <= Cardinality(S) /\ Cardinality(T) \in Nat /\ Cardinality(S) \in Nat
  BY FS_Subset, FS_CardinalityType
<1>2. Cpu(T) <= cpuMillis
  <2>1. \A x \in S : cpuOf[x] \in Nat
    OBVIOUS
  <2>2. SumOver(cpuOf, T) <= SumOver(cpuOf, S)
    BY <2>1, SumOfPart
  <2>3. SumOver(cpuOf, S) \in Nat /\ SumOver(cpuOf, T) \in Nat
    <3>1. IsFiniteSet(T) /\ \A x \in T : cpuOf[x] \in Nat
      BY FS_Subset
    <3>. QED BY <2>1, <3>1, SumIsNatural
  <2>. QED BY <2>2, <2>3 DEF Limited, Cpu
<1>3. ASSUME NEW f, NEW value
      PROVE  /\ Cardinality(Of(T, f, value)) <= Cardinality(Of(S, f, value))
             /\ Cardinality(Of(T, f, value)) \in Nat
             /\ Cardinality(Of(S, f, value)) \in Nat
  <2>1. IsFiniteSet(Of(S, f, value)) /\ Of(T, f, value) \in SUBSET Of(S, f, value)
    BY FS_Subset DEF Of
  <2>2. IsFiniteSet(Of(T, f, value))
    BY <2>1, FS_Subset
  <2>. QED BY <2>1, <2>2, FS_Subset, FS_CardinalityType
<1>. QED BY <1>1, <1>2, <1>3 DEF Limited

(* and so does one more, if it is eligible.                                *)
LEMMA EligibleIsLimited ==
    ASSUME NEW S \in SUBSET Requests, IsFiniteSet(S), Limited(S),
           NEW r \in Requests, r \notin S, eligible(S, r)
    PROVE  Limited(S \cup {r})
<1>1. Cardinality(S \cup {r}) <= globalConcurrency
  <2>1. Cardinality(S \cup {r}) = Cardinality(S) + 1 /\ Cardinality(S) \in Nat
    BY FS_AddElement, FS_CardinalityType
  <2>. QED BY <2>1 DEF eligible
<1>2. Cpu(S \cup {r}) <= cpuMillis
  <2>1. \A x \in S \cup {r} : cpuOf[x] \in Nat
    OBVIOUS
  <2>2. SumOver(cpuOf, S \cup {r}) = SumOver(cpuOf, S) + cpuOf[r]
    BY <2>1, SumGrows
  <2>. QED BY <2>2 DEF eligible, Cpu
<1>3. ASSUME NEW f, NEW limit \in Nat,
             Cardinality(Of(S, f, f[r])) < limit,
             \A q \in S : Cardinality(Of(S, f, f[q])) <= limit,
             NEW q \in S \cup {r}
      PROVE  Cardinality(Of(S \cup {r}, f, f[q])) <= limit
  <2>1. CASE f[q] = f[r]
    <3>1. Of(S \cup {r}, f, f[q]) = Of(S, f, f[r]) \cup {r} /\ r \notin Of(S, f, f[r])
      BY <2>1 DEF Of
    <3>2. IsFiniteSet(Of(S, f, f[r]))
      BY FS_Subset DEF Of
    <3>3. Cardinality(Of(S, f, f[r]) \cup {r}) = Cardinality(Of(S, f, f[r])) + 1
      BY <3>1, <3>2, FS_AddElement
    <3>4. Cardinality(Of(S, f, f[r])) \in Nat
      BY <3>2, FS_CardinalityType
    <3>. QED BY <1>3, <3>1, <3>3, <3>4
  <2>2. CASE f[q] # f[r]
    <3>1. Of(S \cup {r}, f, f[q]) = Of(S, f, f[q]) /\ q \in S
      BY <2>2 DEF Of
    <3>. QED BY <1>3, <3>1
  <2>. QED BY <2>1, <2>2
<1>4. ASSUME NEW q \in S \cup {r}
      PROVE  Cardinality(Of(S \cup {r}, providerOf, providerOf[q])) <= providerConcurrency
  BY <1>3 DEF Limited, eligible
<1>5. ASSUME NEW q \in S \cup {r}
      PROVE  Cardinality(Of(S \cup {r}, projectOf, projectOf[q])) <= projectConcurrency
  BY <1>3 DEF Limited, eligible
<1>. QED BY <1>1, <1>2, <1>4, <1>5 DEF Limited

LEMMA InitCapacityInv == CapacityInit => CapacityInv
<1>. SUFFICES ASSUME CapacityInit PROVE CapacityInv
  OBVIOUS
<1>1. Reserved = {} /\ held = {} /\ fence = 0 /\ clock = 0
  BY DEF CapacityInit, Reserved
<1>2. Limited({})
  BY FS_EmptySet, SumOfNone DEF Limited, Cpu
<1>. QED BY <1>1, <1>2, FS_EmptySet DEF CapacityInv, RowsFenced

LEMMA ReserveKeeps ==
    ASSUME CapacityInv, NEW r \in Requests, NEW nowMs \in clock..(clock + 1),
           reserveCapacity(r, nowMs)
    PROVE  CapacityInv'
<1>. DEFINE active == {q \in Reserved : reservations[q].expires > nowMs}
            row == IF r \in active THEN reservations[r]
                   ELSE [fence |-> fence + 1, expires |-> nowMs + Ttl]
<1>1. /\ r \in active \/ eligible(active, r)
      /\ reservations' = [q \in active \cup {r} |-> IF q = r THEN row ELSE reservations[q]]
      /\ fence' = IF r \in active THEN fence ELSE fence + 1
      /\ held' = held \cup {LeaseOf(r, row)}
      /\ clock' = clock
  BY DEF reserveCapacity, Reserved
<1>2. /\ fence \in Nat /\ clock \in Nat /\ nowMs \in Nat /\ nowMs <= clock + 1
      /\ active \subseteq Reserved /\ Reserved \subseteq Requests
      /\ IsFiniteSet(Reserved) /\ IsFiniteSet(active)
  BY FS_Subset DEF CapacityInv, RowsFenced
<1>3. /\ fence' \in Nat /\ fence <= fence'
      /\ row.fence \in Nat /\ row.fence <= fence' /\ row.expires \in Nat
      /\ r \notin active => row.fence = fence + 1
      /\ r \in active => row = reservations[r]
  BY <1>1, <1>2 DEF CapacityInv, RowsFenced
<1>4. Reserved' = active \cup {r} /\ reservations'[r] = row
  BY <1>1 DEF Reserved
<1>5. \A q \in active \ {r} : reservations'[q] = reservations[q]
  BY <1>1
<1>6. Limited(Reserved)'
  <2>1. Limited(active) /\ active \in SUBSET Requests
    BY <1>2, FewerAreLimited DEF CapacityInv
  <2>. HIDE DEF active
  <2>2. CASE r \in active
    <3>1. active \cup {r} = active
      BY <2>2
    <3>. QED BY <1>4, <2>1, <3>1 DEF Limited
  <2>3. CASE r \notin active
    <3>1. Limited(active \cup {r})
      BY <1>1, <1>2, <2>1, <2>3, EligibleIsLimited
    <3>. QED BY <1>4, <3>1 DEF Limited
  <2>. QED BY <2>2, <2>3
<1>7. RowsFenced'
  <2>1. IsFiniteSet(Reserved') /\ Reserved' \subseteq Requests
    BY <1>2, <1>4, FS_AddElement
  <2>2. ASSUME NEW q \in active \ {r}
        PROVE  /\ reservations'[q].fence \in Nat /\ reservations'[q].fence <= fence'
               /\ reservations'[q].expires \in Nat
    BY <1>2, <1>3, <1>5 DEF CapacityInv, RowsFenced
  <2>. HIDE DEF active, row
  <2>. QED BY <1>1, <1>2, <1>3, <1>4, <2>1, <2>2 DEF RowsFenced
<1>8. ASSUME NEW lease, lease = LeaseOf(r, row)
      PROVE  LeaseKept(lease)'
  <2>1. /\ lease.request = r /\ lease.fence = row.fence /\ lease.expires = row.expires
        /\ lease \in Lease
    BY <1>3, <1>8 DEF LeaseOf, Lease
  <2>. HIDE DEF active, row
  <2>. QED BY <1>3, <1>4, <2>1 DEF LeaseKept, HasRow
<1>9. ASSUME NEW lease \in held
      PROVE  LeaseKept(lease)'
  <2>. DEFINE q == lease.request
  <2>1. LeaseKept(lease) /\ q \in Requests /\ lease.fence \in Nat /\ lease.expires \in Nat
    BY DEF CapacityInv, LeaseKept, Lease
  <2>2. CASE q \in active
    <3>1. q \in Reserved' /\ reservations'[q] = reservations[q]
      BY <1>3, <1>4, <1>5, <2>2
    <3>2. q \in Reserved
      BY <1>2, <2>2
    <3>. HIDE DEF active, row
    <3>. QED BY <1>1, <1>2, <1>3, <2>1, <3>1, <3>2 DEF LeaseKept, HasRow
  <2>3. CASE q \notin active
    <3>1. ~(lease.expires > clock + 1)
      <4>1. SUFFICES ASSUME lease.expires > clock + 1 PROVE FALSE
        OBVIOUS
      <4>2. q \in Reserved /\ reservations[q].expires = lease.expires
        BY <2>1, <4>1 DEF LeaseKept, HasRow
      <4>. QED BY <1>2, <2>1, <2>3, <4>1, <4>2
    <3>2. ~HasRow(lease)'
      <4>1. CASE q # r
        BY <1>4, <2>3, <4>1 DEF HasRow
      <4>2. CASE q = r
        BY <1>2, <1>3, <1>4, <2>1, <2>3, <4>2 DEF HasRow, LeaseKept
      <4>. QED BY <4>1, <4>2
    <3>. HIDE DEF active, row
    <3>. QED BY <1>1, <1>2, <1>3, <2>1, <3>1, <3>2 DEF LeaseKept
  <2>. QED BY <2>2, <2>3
<1>. HIDE DEF active, row
<1>. QED BY <1>1, <1>6, <1>7, <1>8, <1>9 DEF CapacityInv

LEMMA ReleaseKeeps ==
    ASSUME CapacityInv, NEW lease \in held, releaseCapacity(lease)
    PROVE  CapacityInv'
<1>. DEFINE gone == {q \in Reserved : q = lease.request /\ reservations[q].fence = lease.fence}
<1>1. /\ reservations' = [q \in Reserved \ gone |-> reservations[q]]
      /\ held' = held \ {lease} /\ fence' = fence /\ clock' = clock
  BY DEF releaseCapacity, Reserved
<1>2. Reserved' = Reserved \ gone /\ \A q \in Reserved' : reservations'[q] = reservations[q]
  BY <1>1 DEF Reserved
<1>3. /\ Reserved \subseteq Requests /\ IsFiniteSet(Reserved)
      /\ Reserved' \in SUBSET Reserved /\ IsFiniteSet(Reserved')
  BY <1>2, FS_Subset DEF CapacityInv, RowsFenced
<1>4. Limited(Reserved)'
  <2>1. Limited(Reserved')
    BY <1>3, FewerAreLimited DEF CapacityInv
  <2>. QED BY <2>1 DEF Limited
<1>5. RowsFenced'
  BY <1>1, <1>2, <1>3 DEF CapacityInv, RowsFenced
<1>6. ASSUME NEW other \in held \ {lease}
      PROVE  LeaseKept(other)'
  <2>1. LeaseKept(other) /\ LeaseKept(lease)
    BY DEF CapacityInv
  <2>2. ASSUME HasRow(other), other.request \in gone PROVE FALSE
    <3>1. /\ other.request = lease.request /\ other.fence = lease.fence
          /\ HasRow(lease)
      BY <2>2 DEF HasRow
    <3>2. other.expires = lease.expires
      BY <2>1, <2>2, <3>1 DEF LeaseKept
    <3>. QED BY <2>1, <3>1, <3>2 DEF LeaseKept, Lease
  <2>3. HasRow(other) => HasRow(other)'
    BY <1>2, <2>2 DEF HasRow
  <2>4. HasRow(other)' => HasRow(other) /\ reservations'[other.request] = reservations[other.request]
    BY <1>2 DEF HasRow
  <2>. QED BY <1>1, <2>1, <2>3, <2>4 DEF LeaseKept
<1>. QED BY <1>1, <1>4, <1>5, <1>6 DEF CapacityInv

LEMMA TickKeeps ==
    ASSUME CapacityInv, Tick
    PROVE  CapacityInv'
<1>1. /\ clock' = clock + 1 /\ clock \in Nat /\ held' = held
      /\ Reserved' = Reserved /\ reservations' = reservations /\ fence' = fence
  BY DEF Tick, CapacityInv, RowsFenced, Reserved
<1>2. ASSUME NEW lease \in held
      PROVE  LeaseKept(lease)'
  <2>1. LeaseKept(lease) /\ lease.expires \in Nat
    BY DEF CapacityInv, LeaseKept, Lease
  <2>. QED BY <1>1, <2>1 DEF LeaseKept, HasRow
<1>. QED BY <1>1, <1>2 DEF CapacityInv, RowsFenced, Limited

(* What is reserved is within every limit, and a lease that nobody can     *)
(* think has run out has its reservation, for any requests and limits.     *)
THEOREM CapacityIsBacked == CapacitySpec => []LeasesAreBacked
<1>1. CapacityInv /\ [CapacityNext]_capacity => CapacityInv'
  <2>. SUFFICES ASSUME CapacityInv, [CapacityNext]_capacity PROVE CapacityInv'
    OBVIOUS
  <2>1. CASE UNCHANGED capacity
    BY <2>1 DEF capacity, CapacityInv, RowsFenced, Limited, LeaseKept, HasRow, Reserved
  <2>. QED BY <2>1, ReserveKeeps, ReleaseKeeps, TickKeeps DEF CapacityNext
<1>2. CapacityInv => LeasesAreBacked
  <2>1. ASSUME NEW lease \in Lease, HasRow(lease),
               reservations[lease.request].expires = lease.expires
        PROVE  LeaseOf(lease.request, reservations[lease.request]) = lease
    BY <2>1 DEF HasRow, LeaseOf, Lease
  <2>. QED BY <2>1 DEF CapacityInv, LeaseKept, HasRow, LeasesAreBacked, Limited, Reserved
<1>. QED BY <1>1, <1>2, InitCapacityInv, PTL DEF CapacitySpec
=============================================================================
