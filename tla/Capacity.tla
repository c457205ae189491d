------------------------------ MODULE Capacity ------------------------------
(***************************************************************************)
(* Capacity reservations (factory/postgres-repository.ts,                  *)
(* factory/capacity.ts).  reserveCapacity() is one transaction under an    *)
(* advisory lock; the time is the caller's, and callers' clocks differ.    *)
(* A holder may go on after its reservation ran out, and release it late.  *)
(***************************************************************************)
EXTENDS Naturals, FiniteSets, Sums

CONSTANTS
    Requests,           \* request ids
    providerOf, projectOf, cpuOf,   \* what each of them asks for
    globalConcurrency, providerConcurrency, projectConcurrency, cpuMillis,
    Ttl,
    MaxClock, MaxFence  \* bounds on the time and on the fences

ASSUME CapacityAssumption ==
    /\ {globalConcurrency, providerConcurrency, projectConcurrency, MaxClock,
        MaxFence} \subseteq Nat
    /\ cpuMillis \in Nat /\ Ttl \in Nat \ {0}
    /\ cpuOf \in [Requests -> Nat]

VARIABLES
    reservations,       \* capacity_reservations: request to fence and expiry
    fence,              \* capacity_fencing_seq
    held,               \* the leases that were handed out and not given back
    clock

capacity == <<reservations, fence, held, clock>>

CapacityInit == reservations = <<>> /\ fence = 0 /\ held = {} /\ clock = 0

Lease == [request : Requests, fence : Nat, expires : Nat]
LeaseOf(r, row) == [request |-> r, fence |-> row.fence, expires |-> row.expires]

Cpu(requests) == SumOver(cpuOf, requests)
Of(requests, f, value) == {r \in requests : f[r] = value}

(* The four resources are limited alike; the processor stands for them.    *)
eligible(active, r) ==
    /\ Cardinality(active) < globalConcurrency
    /\ Cardinality(Of(active, providerOf, providerOf[r])) < providerConcurrency
    /\ Cardinality(Of(active, projectOf, projectOf[r])) < projectConcurrency
    /\ Cpu(active) + cpuOf[r] <= cpuMillis

(* Reservations that have run out are deleted first; one that is still     *)
(* there is answered again, or refused, if the request had waited.         *)
reserveCapacity(r, nowMs) ==
    LET active == {q \in DOMAIN reservations : reservations[q].expires > nowMs}
        row == IF r \in active THEN reservations[r]
               ELSE [fence |-> fence + 1, expires |-> nowMs + Ttl]
    IN /\ r \in active \/ (eligible(active, r) /\ fence < MaxFence)
       /\ reservations' = [q \in active \cup {r} |-> IF q = r THEN row ELSE reservations[q]]
       /\ fence' = IF r \in active THEN fence ELSE fence + 1
       /\ held' = held \cup {LeaseOf(r, row)}
       /\ UNCHANGED clock

(* Fault: any lease of the request releases it.                            *)
releaseUnfenced(lease) ==
    /\ lease \in held
    /\ reservations' = [q \in DOMAIN reservations \ {lease.request} |-> reservations[q]]
    /\ held' = held \ {lease}
    /\ UNCHANGED <<fence, clock>>

releaseCapacity(lease) ==
    /\ lease \in held
    /\ LET gone == {q \in DOMAIN reservations :
                       q = lease.request /\ reservations[q].fence = lease.fence}
       IN reservations' = [q \in DOMAIN reservations \ gone |-> reservations[q]]
    /\ held' = held \ {lease}
    /\ UNCHANGED <<fence, clock>>

Tick == clock < MaxClock /\ clock' = clock + 1 /\ UNCHANGED <<reservations, fence, held>>

CapacityNext ==
    \/ \E r \in Requests, nowMs \in clock..(clock + 1) : reserveCapacity(r, nowMs)
    \/ \E lease \in held : releaseCapacity(lease)
    \/ Tick

CapacitySpec == CapacityInit /\ [][CapacityNext]_capacity

(* What is reserved stays within every limit, and a lease that nobody can  *)
(* think has run out is backed by its reservation: no late release, and no *)
(* clock that is ahead, has given it away.                                 *)
LeasesAreBacked ==
    LET active == DOMAIN reservations
    IN /\ Cardinality(active) <= globalConcurrency
       /\ Cpu(active) <= cpuMillis
       /\ \A r \in active :
             /\ Cardinality(Of(active, providerOf, providerOf[r])) <= providerConcurrency
             /\ Cardinality(Of(active, projectOf, projectOf[r])) <= projectConcurrency
       /\ \A lease \in held : lease.expires > clock + 1 =>
             lease.request \in active /\ LeaseOf(lease.request,
                                                reservations[lease.request]) = lease

=============================================================================
