--------------------------- MODULE ProjectFactory ---------------------------
(***************************************************************************)
(* A generated project, its blueprints and its lifecycle                   *)
(* (factory/postgres-repository.ts, factory/lifecycle.ts).  A method is    *)
(* one transaction, fenced by the project's version.  What a caller does   *)
(* with the answer, or with the error, is the caller's: a method that can  *)
(* be refused is an operator for the refusal and one for its effect.       *)
(*                                                                         *)
(* Every caller publishes version 1 of a blueprint of its own, under ids   *)
(* derived from its command (version 0 here) or under random ones, so no   *)
(* published version is ever superseded.                                   *)
(***************************************************************************)
EXTENDS Naturals, Sequences

VARIABLES
    blueprints,     \* project_blueprint_versions: id to document
    project,        \* the row of generated_projects
    events          \* project_lifecycle_events

factory == <<blueprints, project, events>>

ProjectState == {"idea", "blueprint", "provisioned", "development", "demo", "approved",
                 "production", "maintained", "archived", "exported", "deleted"}

(* What of a document matters: that its runtime can be scaffolded, and the *)
(* proposal it was derived from, 0 for the owner's own or a placeholder.   *)
Document == [node : BOOLEAN, of : Nat]
Placeholder == [node |-> FALSE, of |-> 0]

NoProject == [state |-> "none"]
Project == [state : ProjectState, version : Nat, blueprint : Nat]

FactoryTypeOK ==
    /\ \A v \in DOMAIN blueprints : v \in Nat /\ blueprints[v] \in Document
    /\ project # NoProject => project \in Project /\ project.blueprint \in DOMAIN blueprints
    /\ \A i \in DOMAIN events : events[i].to \in ProjectState /\ events[i].version \in Nat

FactoryInit == blueprints = <<>> /\ project = NoProject /\ events = <<>>

-----------------------------------------------------------------------------
nextStates ==
    [idea |-> {"blueprint"}, blueprint |-> {"provisioned"},
     provisioned |-> {"development"}, development |-> {"demo", "archived"},
     demo |-> {"development", "approved", "archived"},
     approved |-> {"production", "archived"}, production |-> {"maintained", "archived"},
     maintained |-> {"production", "archived"}, archived |-> {"exported", "deleted"},
     exported |-> {"deleted"}, deleted |-> {}]

approvalStates == {"production", "archived", "exported", "deleted"}

(* The same document may be published again under its id, no other.        *)
Publishable(v, document) == v \in DOMAIN blueprints => blueprints[v] = document

publishBlueprint(v, document) ==
    blueprints' = [u \in DOMAIN blueprints \cup {v} |->
                      IF u = v THEN document ELSE blueprints[u]]

createProject(v) ==
    project' = IF project = NoProject
               THEN [state |-> "idea", version |-> 0, blueprint |-> v] ELSE project

Attachable(v, expected) == v \in DOMAIN blueprints /\ project.version = expected

attachBlueprintVersion(v) ==
    project' = [project EXCEPT !.blueprint = v, !.version = @ + 1]

-----------------------------------------------------------------------------
(* transition(): no caller has an approval to show.                        *)

Recorded(key) == \E i \in DOMAIN events : events[i].key = key

(* Fault: any state may be taken for any other.                            *)
AllowedFromAnywhere(expected, to) == project.version = expected

Allowed(expected, to) ==
    /\ project.version = expected
    /\ to \in nextStates[project.state] \ approvalStates

transition(key, to) ==
    /\ project' = [project EXCEPT !.state = to, !.version = @ + 1]
    /\ events' = Append(events, [key |-> key, to |-> to, version |-> project.version + 1])

(* FactoryLifecycleAdvancer: the states the pipeline takes a project to    *)
(* are on one line, and a project is never dragged back on it.             *)
ORDER == <<"idea", "blueprint", "provisioned", "development", "demo", "approved",
           "production", "maintained", "archived", "exported", "deleted">>

Rank(state) == CHOOSE i \in DOMAIN ORDER : ORDER[i] = state

(* Fault: the comparison the wrong way round.                              *)
ReachedReversed(to) == Rank(project.state) <= Rank(to)

Reached(to) == Rank(project.state) >= Rank(to)

=============================================================================
