---------------------------- MODULE MCFactoryLine ----------------------------
(***************************************************************************)
(* The instance of FactoryLine that TLC checks: two requests or attempts   *)
(* at once.  The parts of the line use what the parts before them have     *)
(* finished, so they are kept apart: the commands that make the project,   *)
(* then the proposals, then the tasks; two proposals meet only where       *)
(* nothing is made of them.                                                *)
(***************************************************************************)
EXTENDS FactoryLine, TLC

CONSTANTS c1, c2

Made == {"project", "conversation"}
Stage(op) == CASE op \in Made -> 1 [] op = "proposal" -> 2 [] OTHER -> 3

OneStage ==
    \A c, d \in Callers : /\ call[c] # Idle /\ call[d] # Idle
                          => Stage(call[c].op) = Stage(call[d].op)

TasksStarted == translations # <<>> \/ generations # <<>>

Apart ==
    /\ OneStage
    /\ Len(proposals) = 2 => ~TasksStarted
    /\ Len(translations) + Len(generations) <= 3 - faults
    /\ (\E c \in Callers : call[c].op = "export") =>
          Len(translations) + Len(generations) <= 1
    /\ \A c \in Callers : /\ call[c].op \in Made => proposals = <<>>
                          /\ call[c].op = "proposal" => ~TasksStarted
                          /\ Stage(call[c].op) = 3 /\ call[c] # Idle => Len(proposals) < 2

Symmetry == Permutations({c1, c2})

=============================================================================
