------------------------------ MODULE PatchTask ------------------------------
(***************************************************************************)
(* A generation task and the repository it patches, over all its attempts  *)
(* (operations/ai-patch-operation-driver.ts, ai-patch-driver.ts,           *)
(* git-patch-applier.ts, workspace-copy.ts, provider-artifact-store.ts):   *)
(* the route is resolved, the provider's patch is applied to the project's *)
(* repository, copied to the directory the sandbox verifies, reverted or   *)
(* committed, and the verdict is recorded.  Every call is one action; a    *)
(* process may die or fail between any two, and one that stalls past its   *)
(* lease goes on beside the attempt that replaced it, in the same          *)
(* directories.  The owner changes the policy meanwhile.                   *)
(*                                                                         *)
(* A file is represented by the attempt that wrote it, 0 for a file that   *)
(* the scaffold does not have; the scaffold's own files are left out.      *)
(***************************************************************************)
EXTENDS PolicyStore

CONSTANTS
    Files,          \* the files of the task's ownedPaths
    Processes,
    MaxAttempts,    \* tasks.max_attempts
    Adapters,       \* what the providers' listModels() may add up to
    MaxFaults       \* bound on crashes, stalls, calls that fail, lists that change

ASSUME PatchAssumption ==
    /\ {MaxAttempts, MaxFaults} \subseteq Nat
    /\ \A a \in Adapters : a \subseteq Routes

VARIABLES
    task,           \* the row of tasks: its state, attempt and lease holder
    available,      \* the models that the adapters list
    absent,         \* AiGateway.absentProviders of each process
    artifacts,      \* provider_artifacts of the task, in order
    tree,           \* the working tree of the repository
    head,           \* ... and what is committed of it
    copy,           \* verifyJob.workspaceRoot
    run,            \* the attempt each process is in
    tried,          \* history: the route of each attempt
    passed,         \* history: the trees that passed verification
    stalled,        \* history: a process outlived its lease
    steady,         \* history: every attempt read the same list, and its rows
    faults

repository == <<tree, head, copy>>
past == <<tried, passed, stalled, steady>>
vars == <<policies, task, available, absent, artifacts, repository, run, past, faults>>

Tree == [Files -> 0..MaxAttempts]
Scaffold == [f \in Files |-> 0]

Steps == {"resolve", "call", "scope", "apply", "copy", "verify", "revert", "commit",
          "record", "hook", "return"}

(* Where an attempt is; `ok` is the verdict it has reached, `writes` the   *)
(* files of the patch it was given.                                        *)
Attempt == [at : Steps, n : 1..MaxAttempts, route : Routes, writes : SUBSET Files,
            ok : BOOLEAN]
NoRun == [at |-> "none"]

TypeOK ==
    /\ PolicyTypeOK
    /\ task \in [state : {"queued", "running", "succeeded", "failed"},
                 attempt : 0..MaxAttempts, holder : Processes \cup {"nobody"}]
    /\ available \in Adapters /\ absent \in [Processes -> SUBSET DOMAIN Tier]
    /\ artifacts \in Seq(Artifact)
    /\ {tree, head, copy} \cup passed \subseteq Tree
    /\ \A p \in Processes : run[p] \in Attempt \cup {NoRun}
    /\ tried \in Seq([attempt : 1..MaxAttempts, route : Routes])
    /\ {stalled, steady} \subseteq BOOLEAN /\ faults \in 0..MaxFaults

Init ==
    /\ PolicyInit
    /\ task = [state |-> "queued", attempt |-> 0, holder |-> "nobody"]
    /\ available \in Adapters /\ absent = [p \in Processes |-> {}]
    /\ artifacts = <<>>
    /\ tree = Scaffold /\ head = Scaffold /\ copy = Scaffold
    /\ run = [p \in Processes |-> NoRun]
    /\ tried = <<>> /\ passed = {} /\ stalled = FALSE /\ steady = TRUE
    /\ faults = 0

Fault == faults < MaxFaults /\ faults' = faults + 1

At(p, step) == run[p].at = step
Goto(p, step) == run' = [run EXCEPT ![p].at = step]

(* The driver throws: what it did to the directories stays.                *)
Throws(p) == run' = [run EXCEPT ![p].at = "return", ![p].ok = FALSE]

-----------------------------------------------------------------------------
(* The queue.                                                              *)

Lease(p) ==
    /\ run[p] = NoRun
    /\ task.state = "queued" /\ task.attempt < MaxAttempts
    /\ task' = [state |-> "running", attempt |-> task.attempt + 1, holder |-> p]
    /\ run' = [run EXCEPT ![p] = [at |-> "resolve", n |-> task.attempt + 1,
                                  route |-> Chain[1], writes |-> {}, ok |-> FALSE]]
    /\ UNCHANGED <<policies, available, absent, artifacts, repository, past, faults>>

Ended(success) ==
    task' = [task EXCEPT !.holder = "nobody",
                         !.state = IF success THEN "succeeded"
                                   ELSE IF task.attempt < MaxAttempts THEN "queued"
                                   ELSE "failed"]

(* A rejected patch and an error both fail the attempt.                    *)
Return(p) ==
    /\ At(p, "return")
    /\ IF task.holder = p THEN Ended(run[p].ok) ELSE UNCHANGED task
    /\ run' = [run EXCEPT ![p] = NoRun]
    /\ UNCHANGED <<policies, available, absent, artifacts, repository, past, faults>>

Die(p) ==
    /\ run[p] # NoRun
    /\ Fault
    /\ IF task.holder = p THEN Ended(FALSE) ELSE UNCHANGED task
    /\ run' = [run EXCEPT ![p] = NoRun]
    /\ absent' = [absent EXCEPT ![p] = {}]
    /\ UNCHANGED <<policies, available, artifacts, repository, past>>

(* The lease is reclaimed; the process neither knows nor stops.            *)
Stall(p) ==
    /\ task.holder = p
    /\ Fault
    /\ Ended(FALSE)
    /\ stalled' = TRUE
    /\ UNCHANGED <<policies, available, absent, artifacts, repository, run, tried, passed,
                   steady>>

(* A restart between two attempts.                                         *)
Restart(p) ==
    /\ run[p] = NoRun /\ absent[p] # {}
    /\ absent' = [absent EXCEPT ![p] = {}]
    /\ UNCHANGED <<policies, task, available, artifacts, repository, run, past, faults>>

-----------------------------------------------------------------------------
(* AiPatchOperationDriver.execute(), AiPatchExecutorDriver.run().          *)

(* AiGateway.availableModelKeys()                                          *)
Listed(p, models) == {r \in models : r.provider \notin absent[p]}

Resolved(p, active, models, rows, listed) ==
    LET route == resolve(active, artifacts, Listed(p, models), rows, listed, run[p].n)
    IN /\ run' = [run EXCEPT ![p].at = "call", ![p].route = route]
       /\ tried' = Append(tried, [attempt |-> run[p].n, route |-> route])

(* The models are listed anew by every attempt.  A policy that cannot be   *)
(* read counts as none, rows and models the chain cannot read as empty.    *)
Resolve(p) ==
    /\ At(p, "resolve")
    /\ \E active \in {Active, <<>>}, models \in Adapters, rows \in {artifacts, <<>>} :
       \E listed \in {Listed(p, models), {}} :
          /\ Resolved(p, active, models, rows, listed)
          /\ available' = models
          /\ steady' = /\ steady /\ models = available
                        /\ listed = models /\ rows = artifacts
          /\ IF /\ active = Active /\ models = available
                /\ rows = artifacts /\ listed = Listed(p, models)
             THEN UNCHANGED faults ELSE Fault
    /\ UNCHANGED <<policies, task, absent, artifacts, repository, passed, stalled>>

(* Under a policy neither may be missing.                                  *)
ResolveFails(p) ==
    /\ At(p, "resolve")
    /\ Active # <<>> /\ Fault
    /\ Throws(p)
    /\ UNCHANGED <<policies, task, available, absent, artifacts, repository, past>>

ProviderAnswers(p) ==
    /\ At(p, "call")
    /\ \E writes \in (SUBSET Files) \ {{}} :
          run' = [run EXCEPT ![p].at = "scope", ![p].writes = writes]
    /\ UNCHANGED <<policies, task, available, absent, artifacts, repository, past, faults>>

(* Timeout, unusable envelope, budget: no verdict, no artifact.            *)
ProviderFails(p) ==
    /\ At(p, "call")
    /\ Throws(p)
    /\ UNCHANGED <<policies, task, available, absent, artifacts, repository, past, faults>>

(* "model_absent" is remembered until the process ends.                    *)
ProviderAbsent(p) ==
    /\ At(p, "call")
    /\ Fault
    /\ Throws(p)
    /\ absent' = [absent EXCEPT ![p] = absent[p] \cup {run[p].route.provider}]
    /\ UNCHANGED <<policies, task, available, artifacts, repository, past>>

(* No header, a path outside ownedPaths, or an unsafe one: the verdict is  *)
(* a rejection, and the repository was not touched.                        *)
ScopeChecked(p) ==
    /\ At(p, "scope")
    /\ Goto(p, "apply") \/ Goto(p, "record")
    /\ UNCHANGED <<policies, task, available, absent, artifacts, repository, past, faults>>

(* `git apply` is all or nothing, and a new file must not be there.        *)
Apply(p) ==
    /\ At(p, "apply")
    /\ \A f \in run[p].writes : tree[f] = 0
    /\ tree' = [f \in Files |-> IF f \in run[p].writes THEN run[p].n ELSE tree[f]]
    /\ run' = [run EXCEPT ![p].at = "copy", ![p].writes = {}]
    /\ UNCHANGED <<policies, task, available, absent, artifacts, head, copy, past, faults>>

ApplyFails(p) ==
    /\ At(p, "apply")
    /\ Goto(p, "record")
    /\ UNCHANGED <<policies, task, available, absent, artifacts, repository, past, faults>>

(* cp() adds and overwrites; it removes nothing.                           *)
Copied(source, destination) ==
    [f \in Files |-> IF source[f] # 0 THEN source[f] ELSE destination[f]]

(* Fault: what is committed is copied, not what is to be.                  *)
CopyHead(p) ==
    /\ At(p, "copy")
    /\ copy' = Copied(head, copy)
    /\ Goto(p, "verify")
    /\ UNCHANGED <<policies, task, available, absent, artifacts, tree, head, past, faults>>

CopyWorkspace(p) ==
    /\ At(p, "copy")
    /\ copy' = Copied(tree, copy)
    /\ Goto(p, "verify")
    /\ UNCHANGED <<policies, task, available, absent, artifacts, tree, head, past, faults>>

(* The copy, the sandbox, the commit, the verdict's row and the hook are   *)
(* not inside a try.                                                       *)
CallFails(p) ==
    /\ run[p].at \in {"copy", "verify", "revert", "commit", "record", "hook"}
    /\ Fault
    /\ Throws(p)
    /\ UNCHANGED <<policies, task, available, absent, artifacts, repository, past>>

Accept(p) ==
    /\ At(p, "verify")
    /\ passed' = passed \cup {copy}
    /\ Goto(p, "commit")
    /\ UNCHANGED <<policies, task, available, absent, artifacts, repository, tried, stalled,
                   steady, faults>>

(* Fault: the verdict is recorded with the patch still applied.            *)
RejectInPlace(p) ==
    /\ At(p, "verify")
    /\ Goto(p, "record")
    /\ UNCHANGED <<policies, task, available, absent, artifacts, repository, past, faults>>

Reject(p) ==
    /\ At(p, "verify")
    /\ Goto(p, "revert")
    /\ UNCHANGED <<policies, task, available, absent, artifacts, repository, past, faults>>

Revert(p) ==
    /\ At(p, "revert")
    /\ tree' = head
    /\ Goto(p, "record")
    /\ UNCHANGED <<policies, task, available, absent, artifacts, head, copy, past, faults>>

(* Everything in the tree; with nothing to commit, git fails.              *)
Commit(p) ==
    /\ At(p, "commit")
    /\ IF tree = head
       THEN Throws(p) /\ UNCHANGED head
       ELSE /\ head' = tree
            /\ run' = [run EXCEPT ![p].at = "record", ![p].ok = TRUE]
    /\ UNCHANGED <<policies, task, available, absent, artifacts, tree, copy, past, faults>>

Record(p) ==
    /\ At(p, "record")
    /\ artifacts' = Append(artifacts,
          [attempt |-> run[p].n, route |-> run[p].route,
           status |-> IF run[p].ok THEN "accepted" ELSE "rejected"])
    /\ Goto(p, IF run[p].ok THEN "hook" ELSE "return")
    /\ UNCHANGED <<policies, task, available, absent, repository, past, faults>>

(* FactoryLifecycleAdvancer.developed()                                    *)
Hook(p) ==
    /\ At(p, "hook")
    /\ Goto(p, "return")
    /\ UNCHANGED <<policies, task, available, absent, artifacts, repository, past, faults>>

-----------------------------------------------------------------------------
OwnerStep ==
    /\ PolicyNext
    /\ UNCHANGED <<task, available, absent, artifacts, repository, run, past, faults>>

QueueStep(p) == Lease(p) \/ Return(p) \/ Die(p) \/ Stall(p) \/ Restart(p)

DriverStep(p) ==
    \/ Resolve(p) \/ ResolveFails(p)
    \/ ProviderAnswers(p) \/ ProviderFails(p) \/ ProviderAbsent(p) \/ ScopeChecked(p)
    \/ Apply(p) \/ ApplyFails(p) \/ CopyWorkspace(p) \/ CallFails(p)
    \/ Accept(p) \/ Reject(p) \/ Revert(p) \/ Commit(p) \/ Record(p) \/ Hook(p)

Next == OwnerStep \/ \E p \in Processes : QueueStep(p) \/ DriverStep(p)

Spec == Init /\ [][Next]_vars

-----------------------------------------------------------------------------
(* Nothing is committed that no verification saw and passed, unless a      *)
(* process outlived its lease: an attempt that died left its files behind, *)
(* and the next one's commit takes them along.                             *)
OnlyVerifiedIsCommitted ==
    stalled \/ \A f \in Files : head[f] # 0 => \E t \in passed : t[f] = head[f]

(* The attempt that wrote a file of the tree.                              *)
Wrote(t, n) == \E f \in Files : t[f] = n

(* The rows of provider_artifacts, which choose the next tier, are true of *)
(* the repository: a rejected patch has left no trace in it, an accepted   *)
(* one is committed, a task that succeeded has one; unless a process       *)
(* outlived its lease.                                                     *)
VerdictsAreTrue ==
    stalled \/
        /\ \A i \in DOMAIN artifacts :
              IF artifacts[i].status = "accepted" THEN Wrote(head, artifacts[i].attempt)
              ELSE ~Wrote(tree, artifacts[i].attempt) /\ ~Wrote(head, artifacts[i].attempt)
        /\ task.state = "succeeded" =>
              \E i \in DOMAIN artifacts : /\ artifacts[i].attempt = task.attempt
                                         /\ artifacts[i].status = "accepted"

(* The chain is walked in order: with no policy, no attempt goes to a tier *)
(* before every cheaper one that can be had was asked.  Four things upset  *)
(* this: an attempt that ends before it asks anybody counts as one without *)
(* a verdict; the verdicts of processes that outlived their leases take    *)
(* tiers out of the chain after others were skipped on their account; the  *)
(* number of tiers to skip is counted over the tiers of another list when  *)
(* the models listed have changed; and rows that cannot be read count as   *)
(* attempts without a verdict.                                             *)
CanBeHad(r) == available = {} \/ r \in available

AskedBefore(n, r) == \E k \in 1..(n - 1) : tried[k].route = r

TiersInOrder ==
    /\ TypeOK
    /\ ~stalled /\ steady /\ versions = <<>> =>
          \A n \in DOMAIN tried : \A i, j \in DOMAIN Chain :
             /\ tried[n].attempt = n
             /\ i < j /\ tried[n].route = Chain[j] /\ CanBeHad(Chain[i])
             => AskedBefore(n, Chain[i])

(* The tree that is committed is the tree that was verified.               *)
CommittedIsVerified == stalled \/ head \in passed \cup {Scaffold}

=============================================================================
