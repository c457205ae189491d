----------------------------- MODULE FencedWork -----------------------------
(***************************************************************************)
(* What the work engine promises, whatever its tables look like: a task is *)
(* idle, held by the single holder of a fresh token, succeeded or closed.  *)
(* Work on it begins at most Limit times, never while the factory is       *)
(* halted, and only its holder can make it succeed; succeeded and closed   *)
(* are for ever.                                                           *)
(***************************************************************************)
EXTENDS Integers

CONSTANTS
    Tasks,
    Limit       \* how often work on each task may begin

VARIABLES phase, epoch, holder, clock, halted

fencedVars == <<phase, epoch, holder, clock, halted>>

Phase == {"idle", "held", "succeeded", "closed"}

FencedInit ==
    /\ phase = [t \in Tasks |-> "idle"]
    /\ epoch = [t \in Tasks |-> 0]
    /\ holder = [t \in Tasks |-> 0]
    /\ clock = 0
    /\ halted = FALSE

(* A new holder takes an idle task, or one whose holder has lost it.       *)
Begin(t) ==
    /\ ~halted
    /\ phase[t] \in {"idle", "held"}
    /\ epoch[t] < Limit[t]
    /\ phase' = [phase EXCEPT ![t] = "held"]
    /\ epoch' = [epoch EXCEPT ![t] = @ + 1]
    /\ clock' = clock + 1
    /\ holder' = [holder EXCEPT ![t] = clock + 1]
    /\ UNCHANGED halted

Succeed(t) ==
    /\ phase[t] = "held"
    /\ phase' = [phase EXCEPT ![t] = "succeeded"]
    /\ holder' = [holder EXCEPT ![t] = 0]
    /\ UNCHANGED <<epoch, clock, halted>>

(* Any tasks leave their holders, and any unfinished ones are closed; no   *)
(* task becomes held or succeeded this way.                                *)
Settle ==
    /\ \A t \in Tasks :
        \/ phase'[t] = phase[t]
        \/ phase[t] \in {"idle", "held"} /\ phase'[t] \in {"idle", "closed"}
    /\ phase' \in [Tasks -> Phase]
    /\ holder' = [t \in Tasks |-> IF phase'[t] = "held" THEN holder[t] ELSE 0]
    /\ UNCHANGED <<epoch, clock, halted>>

(* Halting takes every held task away from its holder in the same step.    *)
Halt ==
    /\ halted' = TRUE
    /\ phase' = [t \in Tasks |-> IF phase[t] = "held" THEN "idle" ELSE phase[t]]
    /\ holder' = [t \in Tasks |-> 0]
    /\ UNCHANGED <<epoch, clock>>

Unhalt ==
    /\ halted' = FALSE
    /\ UNCHANGED <<phase, epoch, holder, clock>>

FencedNext ==
    \/ \E t \in Tasks : Begin(t) \/ Succeed(t)
    \/ Settle \/ Halt \/ Unhalt

FencedSpec == FencedInit /\ [][FencedNext]_fencedVars

-----------------------------------------------------------------------------
(* No token has two holders, whatever the number of tasks; work begins at  *)
(* most Limit times; nobody holds anything while the factory is halted.    *)
FencedPromise ==
    /\ clock \in Nat /\ epoch \in [Tasks -> Nat]
    /\ \A t \in Tasks : /\ epoch[t] <= Limit[t]
                        /\ holder[t] \in 0..clock
                        /\ holder[t] # 0 <=> phase[t] = "held"
                        /\ ~(halted /\ phase[t] = "held")
    /\ \A t, u \in Tasks : holder[t] = holder[u] /\ holder[t] # 0 => t = u

(* A token is never taken up again once it was given away; what is over    *)
(* stays over; and only a task that is held succeeds.                      *)
Keeps(t) ==
    /\ holder'[t] \notin {0, holder[t]} => clock < holder'[t]
    /\ phase[t] \in {"succeeded", "closed"} => phase'[t] = phase[t]
    /\ phase'[t] = "succeeded" => phase[t] \in {"held", "succeeded"}

FencedSteps == [][\A t \in Tasks : Keeps(t)]_fencedVars
=============================================================================
