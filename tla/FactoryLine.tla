----------------------------- MODULE FactoryLine -----------------------------
(***************************************************************************)
(* From a conversation to a task that generates code: the owner's commands *)
(* (operations/owner-commands.ts, control-api/app.ts), the tasks they      *)
(* queue (factory/blueprint-translation-task.ts,                           *)
(* factory/generation-task.ts), the driver that derives a blueprint        *)
(* (operations/blueprint-translation-driver.ts), the workspace             *)
(* (factory/workspace-provisioner.ts) and the lifecycle of the project     *)
(* (factory/generation-lifecycle.ts).  Requests and attempts run at once,  *)
(* each statement of theirs is an action, and any of them may die between  *)
(* two.                                                                    *)
(***************************************************************************)
EXTENDS Proposals, ProjectFactory, FiniteSets

CONSTANTS
    MaxTasks,       \* bound on the tasks of each kind
    MaxAttempts,    \* of a translation
    MaxFaults       \* bound on deaths and failed commands

ASSUME LineAssumption ==
    {MaxTasks, MaxFaults} \subseteq Nat /\ MaxAttempts \in Nat \ {0}

VARIABLES
    translations,   \* tasks of the driver blueprint_translation
    generations,    \* tasks of the driver ai_patch_executor
    workspace,      \* the project's repository on disk
    faults

talk == <<said, proposals, intents>>
tasks == <<translations, generations>>
vars == <<talk, call, factory, tasks, workspace, faults>>

TaskState == {"queued", "running", "succeeded", "failed"}
Translation == [p : Nat, version : Nat, specified : BOOLEAN, state : TaskState,
                attempt : 0..MaxAttempts]

Generation == [blueprint : Nat, specified : BOOLEAN]
Workspace == {"absent", "initialised", "complete"}

TypeOK ==
    /\ ProposalTypeOK /\ FactoryTypeOK
    /\ translations \in Seq(Translation) /\ generations \in Seq(Generation)
    /\ workspace \in Workspace /\ faults \in 0..MaxFaults

Init ==
    /\ ProposalInit /\ FactoryInit
    /\ translations = <<>> /\ generations = <<>>
    /\ workspace = "absent" /\ faults = 0

Fault == faults < MaxFaults /\ faults' = faults + 1

(* A request or an attempt other than one on proposals: `v` is a blueprint *)
(* version, `t` a task, `document` what is to be published.                *)
Line(op, at) == [op |-> op, at |-> at, v |-> 0, t |-> 0, p |-> 0, version |-> 0,
                 document |-> Placeholder]

At(c, op, step) == call[c].op = op /\ call[c].at = step
Busy(op) == Cardinality({c \in Callers : call[c].op = op})
Goto(c, step) == call' = [call EXCEPT ![c].at = step]

-----------------------------------------------------------------------------
(* createProject(), and the half of startConversation() that makes a       *)
(* project for a conversation that has none.  Both derive their ids from   *)
(* the command, and both can be sent again.                                *)

OwnerCreatesProject(c, node) ==
    /\ Serve(c, [Line("project", "publish") EXCEPT !.document = [node |-> node, of |-> 0]])
    /\ UNCHANGED <<talk, factory, tasks, workspace, faults>>

startConversation(c) ==
    /\ Serve(c, Line("conversation", "publish"))
    /\ UNCHANGED <<talk, factory, tasks, workspace, faults>>

PublishCommanded(c) ==
    /\ At(c, "project", "publish") \/ At(c, "conversation", "publish")
    /\ IF Publishable(0, call[c].document)
       THEN publishBlueprint(0, call[c].document) /\ Goto(c, "create")
       ELSE Ends(c) /\ UNCHANGED blueprints
    /\ UNCHANGED <<talk, project, events, tasks, workspace, faults>>

(* A conversation's project waits as an idea for a blueprint of its own.   *)
InsertProject(c) ==
    /\ \/ At(c, "project", "create") /\ Goto(c, "transition")
       \/ At(c, "conversation", "create") /\ Ends(c)
    /\ createProject(0)
    /\ UNCHANGED <<talk, blueprints, events, tasks, workspace, faults>>

(* A key that is on record is replayed, unless the two calls meet: then    *)
(* the second finds the version gone, as it does under any other key.      *)
Transitioned(c, key, expected, to, Then(_)) ==
    \/ Recorded(key) /\ Then(c) /\ UNCHANGED <<project, events>>
    \/ ~Recorded(key) /\ Allowed(expected, to) /\ transition(key, to) /\ Then(c)
    \/ ~(~Recorded(key) /\ Allowed(expected, to)) /\ Ends(c)
        /\ UNCHANGED <<project, events>>

TransitionCommanded(c) ==
    /\ At(c, "project", "transition")
    /\ Transitioned(c, <<"command", 0>>, 0, "blueprint", Ends)
    /\ UNCHANGED <<talk, blueprints, tasks, workspace, faults>>

-----------------------------------------------------------------------------
(* POST /proposals/:id/translate, queueBlueprintTranslation()              *)

Translate(c, p) ==
    /\ proposals[p].state = "handed_off"
    /\ Len(translations) + Busy("translate") < MaxTasks
    /\ Serve(c, [Line("translate", "queue") EXCEPT !.p = p, !.version = project.version])
    /\ UNCHANGED <<talk, factory, tasks, workspace, faults>>

(* Its idempotency key is random: every request makes a task.              *)
QueueTranslation(c) ==
    /\ At(c, "translate", "queue")
    /\ translations' = Append(translations,
          [p |-> call[c].p, version |-> call[c].version, specified |-> FALSE,
           state |-> "queued", attempt |-> 0])
    /\ call' = [call EXCEPT ![c].at = "specify", ![c].t = Len(translations) + 1]
    /\ UNCHANGED <<talk, factory, generations, workspace, faults>>

SpecifyTranslation(c) ==
    /\ At(c, "translate", "specify")
    /\ translations' = [translations EXCEPT ![call[c].t].specified = TRUE]
    /\ Ends(c)
    /\ UNCHANGED <<talk, factory, generations, workspace, faults>>

-----------------------------------------------------------------------------
(* BlueprintTranslationDriver.execute(), an attempt of the supervisor's.   *)

LeaseTranslation(c, t) ==
    /\ translations[t].specified /\ translations[t].state = "queued"
    /\ translations' = [translations EXCEPT ![t].state = "running", ![t].attempt = @ + 1]
    /\ Serve(c, [Line("derive", "ask") EXCEPT !.t = t])
    /\ UNCHANGED <<talk, factory, generations, workspace, faults>>

Failed(t) ==
    translations' = [translations EXCEPT ![t].state =
        IF translations[t].attempt < MaxAttempts THEN "queued" ELSE "failed"]

(* No JSON, a runtime nobody supports, a call that failed.                 *)
ModelIsUnusable(c) ==
    /\ At(c, "derive", "ask")
    /\ Failed(call[c].t) /\ Ends(c)
    /\ UNCHANGED <<talk, factory, generations, workspace, faults>>

(* A random blueprint id and version id for every answer.                  *)
PublishDerived(c) ==
    /\ At(c, "derive", "ask")
    /\ LET v == 1 + Cardinality(DOMAIN blueprints \ {0})
       IN /\ publishBlueprint(v, [node |-> TRUE, of |-> translations[call[c].t].p])
          /\ call' = [call EXCEPT ![c].at = "attach", ![c].v = v]
    /\ UNCHANGED <<talk, project, events, tasks, workspace, faults>>

Attach(c) ==
    /\ At(c, "derive", "attach")
    /\ IF Attachable(call[c].v, translations[call[c].t].version)
       THEN /\ attachBlueprintVersion(call[c].v)
            /\ call' = [call EXCEPT ![c].at = "transition",
                                    ![c].version = project.version + 1]
            /\ UNCHANGED translations
       ELSE Failed(call[c].t) /\ Ends(c) /\ UNCHANGED project
    /\ UNCHANGED <<talk, blueprints, events, generations, workspace, faults>>

(* The key is the task's.                                                  *)
TakeToBlueprint(c) ==
    /\ At(c, "derive", "transition")
    /\ LET key == <<"translation", call[c].t>>
       IN IF ~Recorded(key) /\ Allowed(call[c].version, "blueprint")
          THEN transition(key, "blueprint") /\ Goto(c, "done") /\ UNCHANGED translations
          ELSE Failed(call[c].t) /\ Ends(c) /\ UNCHANGED <<project, events>>
    /\ UNCHANGED <<talk, blueprints, generations, workspace, faults>>

(* The supervisor records the verdict; had it died, the retry would fail.  *)
Succeed(c) ==
    /\ At(c, "derive", "done")
    /\ translations' = [translations EXCEPT ![call[c].t].state = "succeeded"]
    /\ Ends(c)
    /\ UNCHANGED <<talk, factory, generations, workspace, faults>>

-----------------------------------------------------------------------------
(* FactoryLifecycleAdvancer.advance(): it reads, and then it writes.       *)

Target == [generate |-> "provisioned", develop |-> "development", export |-> "exported"]

(* What follows once the project is there: the end of an attempt or of an  *)
(* export, the task of a generation.                                       *)
Advanced(c) == IF call[c].op = "generate" THEN Goto(c, "task") ELSE Ends(c)

ReadState(c) ==
    /\ \E op \in DOMAIN Target : At(c, op, "advance")
    /\ IF Reached(Target[call[c].op]) THEN Advanced(c)
       ELSE call' = [call EXCEPT ![c].at = "transition", ![c].version = project.version]
    /\ UNCHANGED <<talk, factory, tasks, workspace, faults>>

WriteState(c) ==
    /\ \E op \in DOMAIN Target : At(c, op, "transition")
    /\ LET to == Target[call[c].op]
       IN Transitioned(c, <<to, 0>>, call[c].version, to, Advanced)
    /\ UNCHANGED <<talk, blueprints, tasks, workspace, faults>>

-----------------------------------------------------------------------------
(* POST /projects/:id/generate                                             *)

(* NodeWorkspaceProvisioner refuses any runtime but its own.               *)
Generate(c) ==
    /\ blueprints[project.blueprint].node
    /\ Len(generations) + Busy("generate") < MaxTasks
    /\ Serve(c, [Line("generate", IF workspace = "absent" THEN "files" ELSE "advance")
                     EXCEPT !.v = project.blueprint])
    /\ UNCHANGED <<talk, factory, tasks, workspace, faults>>

(* The scaffold is written, `git init` makes the directory look complete.  *)
Initialise(c) ==
    /\ At(c, "generate", "files")
    /\ workspace' = IF workspace = "absent" THEN "initialised" ELSE workspace
    /\ Goto(c, "install")
    /\ UNCHANGED <<talk, factory, tasks, faults>>

(* The install, the formatter, the first commit; a second first commit is  *)
(* empty, and git fails.                                                   *)
InstallAndCommit(c) ==
    /\ At(c, "generate", "install")
    /\ IF workspace = "complete" THEN Ends(c) ELSE Goto(c, "advance")
    /\ workspace' = "complete"
    /\ UNCHANGED <<talk, factory, tasks, faults>>

(* createGenerationTask(): a contract of its own, so every request makes a *)
(* task; the directory the sandbox verifies is emptied before the          *)
(* specification is stored.                                                *)
QueueGeneration(c) ==
    /\ At(c, "generate", "task")
    /\ generations' = Append(generations,
          [blueprint |-> call[c].v, specified |-> FALSE])
    /\ call' = [call EXCEPT ![c].at = "specify", ![c].t = Len(generations) + 1]
    /\ UNCHANGED <<talk, factory, translations, workspace, faults>>

SpecifyGeneration(c) ==
    /\ At(c, "generate", "specify")
    /\ generations' = [generations EXCEPT ![call[c].t].specified = TRUE]
    /\ Ends(c)
    /\ UNCHANGED <<talk, factory, translations, workspace, faults>>

(* An attempt of the task commits an accepted patch (PatchTask) and calls  *)
(* developed().                                                            *)
Develop(c, t) ==
    /\ generations[t].specified
    /\ Serve(c, Line("develop", "advance"))
    /\ UNCHANGED <<talk, factory, tasks, workspace, faults>>

(* POST /projects/:id/export                                               *)
Export(c) ==
    /\ Serve(c, Line("export", "advance"))
    /\ UNCHANGED <<talk, factory, tasks, workspace, faults>>

-----------------------------------------------------------------------------
(* A process dies, or a command of the provisioner's fails; the lease of   *)
(* an attempt runs out.                                                    *)
Die(c) ==
    /\ call[c] # Idle
    /\ Fault
    /\ IF call[c].op = "derive" THEN Failed(call[c].t) ELSE UNCHANGED translations
    /\ Ends(c)
    /\ UNCHANGED <<talk, factory, generations, workspace>>

ProposalStep == project # NoProject /\ ProposalNext
                /\ UNCHANGED <<factory, tasks, workspace, faults>>

CommandStep(c) ==
    \/ \E node \in BOOLEAN : OwnerCreatesProject(c, node)
    \/ startConversation(c) \/ PublishCommanded(c) \/ InsertProject(c)
    \/ TransitionCommanded(c)

TranslationStep(c) ==
    \/ \E p \in DOMAIN proposals : Translate(c, p)
    \/ QueueTranslation(c) \/ SpecifyTranslation(c)
    \/ \E t \in DOMAIN translations : LeaseTranslation(c, t)
    \/ ModelIsUnusable(c) \/ PublishDerived(c) \/ Attach(c)
    \/ TakeToBlueprint(c) \/ Succeed(c)

GenerationStep(c) ==
    \/ project # NoProject /\ (Generate(c) \/ Export(c))
    \/ Initialise(c) \/ InstallAndCommit(c)
    \/ QueueGeneration(c) \/ SpecifyGeneration(c)
    \/ \E t \in DOMAIN generations : Develop(c, t)
    \/ ReadState(c) \/ WriteState(c)

Next ==
    \/ ProposalStep
    \/ \E c \in Callers : CommandStep(c) \/ TranslationStep(c) \/ GenerationStep(c)
                        \/ Die(c)

Spec == Init /\ [][Next]_vars

-----------------------------------------------------------------------------
(* However many translations meet on a project, one at most succeeds, and  *)
(* its lifecycle is one line of events with ascending versions that ends   *)
(* in the state it is in.                                                  *)
OneTranslationWins ==
    /\ \A s, t \in DOMAIN translations :
          translations[s].state = "succeeded" /\ translations[t].state = "succeeded"
          => s = t
    /\ \A i \in DOMAIN events :
          /\ events[i].to = ORDER[i + 1]
          /\ i > 1 => events[i - 1].version < events[i].version
          /\ events[i].version <= project.version
    /\ project # NoProject => project.state = ORDER[Len(events) + 1]

(* Code is generated only for a project whose blueprint the owner wrote or *)
(* that was derived from a proposal the owner approved, never from a       *)
(* placeholder, and whose lifecycle says that it is provisioned.           *)
GeneratedAsApproved ==
    /\ TypeOK
    /\ \A t \in DOMAIN generations :
          LET document == blueprints[generations[t].blueprint]
          IN /\ document.node
             /\ document.of # 0 => proposals[document.of].state = "handed_off"
             /\ Recorded(<<"provisioned", 0>>) /\ Reached("provisioned")

=============================================================================
