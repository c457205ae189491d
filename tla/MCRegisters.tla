----------------------------- MODULE MCRegisters -----------------------------
(***************************************************************************)
(* Two registers that no other part of the code calls yet: capacity and    *)
(* publication.  They share nothing, so a behaviour is one of one of them; *)
(* the other stays as it is initially.                                     *)
(***************************************************************************)
EXTENDS Capacity, Publication, TLC

CONSTANTS r1, r2, r3

VARIABLE register

vars == <<capacity, published, register>>

Providers == r1 :> "deepseek" @@ r2 :> "deepseek" @@ r3 :> "codex"
Projects == r1 :> "a" @@ r2 :> "b" @@ r3 :> "b"
Cpus == r1 :> 2 @@ r2 :> 1 @@ r3 :> 1

Init ==
    /\ CapacityInit /\ PublicationInit
    /\ register \in {"capacity", "publication"}
    /\ register # "publication" => dirty = {}

Next ==
    \/ register = "capacity" /\ CapacityNext /\ UNCHANGED <<published, register>>
    \/ register = "publication" /\ PublicationNext /\ UNCHANGED <<capacity, register>>

Spec == Init /\ [][Next]_vars

=============================================================================
