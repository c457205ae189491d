----------------------------- MODULE Publication -----------------------------
(***************************************************************************)
(* The publication of a finished contract (work/publication-executor.ts,   *)
(* work/git-publication.ts): its dirty files become one commit on the      *)
(* baseline, and the commit is pushed.  Each step is recorded, a run may   *)
(* die or fail after any, and the next run goes on from the record.        *)
(* Somebody else may commit or edit between two runs; while one is on, the *)
(* repository is its own.                                                  *)
(***************************************************************************)
EXTENDS Naturals, Sequences

CONSTANTS
    Owned, Foreign,     \* paths inside and outside of the contract's ownedPaths
    MaxCommits          \* bound on the commits on top of the baseline

ASSUME PublicationAssumption == Owned \cap Foreign = {} /\ MaxCommits \in Nat

VARIABLES
    contract,           \* the record: preparing, preparedSha, publishedSha
    history,            \* the commits on top of the baseline, by sha
    dirty,
    remote,             \* history: every sha that was pushed
    publication         \* where the run is, if one is on

published == <<contract, history, dirty, remote, publication>>

(* A sha is a position in the history: 0 is the baseline.                  *)
Commit == [paths : SUBSET (Owned \cup Foreign), trailer : BOOLEAN]
HeadSha == Len(history)

NoSha == MaxCommits + 1
NotPublishing == [at |-> "idle"]

PublicationTypeOK ==
    /\ contract.preparing \in BOOLEAN
    /\ {contract.prepared, contract.published} \subseteq 0..NoSha
    /\ history \in Seq(Commit) /\ HeadSha <= MaxCommits
    /\ dirty \subseteq Owned \cup Foreign /\ remote \subseteq 1..MaxCommits

PublicationInit ==
    /\ contract = [preparing |-> FALSE, prepared |-> NoSha, published |-> NoSha]
    /\ history = <<>> /\ dirty \in SUBSET (Owned \cup Foreign) /\ remote = {}
    /\ publication = NotPublishing

Publishing(step) == publication.at = step
Proceed(step) == publication' = [publication EXCEPT !.at = step]

-----------------------------------------------------------------------------
(* Fault: any commit within the contract's paths is taken for it.          *)
ReconcilableOwned == HeadSha # 0 /\ history[HeadSha].paths \subseteq Owned

(* The commit of a run that died before it could record it: one, on the    *)
(* baseline, with the contract's trailer and within its paths.             *)
Reconcilable ==
    /\ HeadSha = 1
    /\ history[1].trailer /\ history[1].paths # {} /\ history[1].paths \subseteq Owned

(* publicationPlan()                                                       *)
Plannable ==
    /\ HeadSha = IF contract.prepared = NoSha THEN 0 ELSE contract.prepared
    /\ dirty \subseteq Owned
    /\ contract.prepared = NoSha => dirty # {}

(* The record and the repository are read, and the run goes on from there. *)
publishContract ==
    /\ publication = NotPublishing
    /\ contract.published = NoSha
    /\ \/ /\ contract.preparing /\ contract.prepared = NoSha /\ HeadSha # 0
          /\ Reconcilable
          /\ publication' = [at |-> "prepared", sha |-> HeadSha, paths |-> {}]
       \/ /\ ~(contract.preparing /\ contract.prepared = NoSha /\ HeadSha # 0)
          /\ Plannable
          /\ publication' = [at |-> IF contract.prepared # NoSha THEN "push"
                                    ELSE IF contract.preparing THEN "commit"
                                    ELSE "preparing",
                             sha |-> contract.prepared, paths |-> dirty]
    /\ UNCHANGED <<contract, history, dirty, remote>>

RecordPreparing ==
    /\ Publishing("preparing")
    /\ contract' = [contract EXCEPT !.preparing = TRUE]
    /\ Proceed("commit")
    /\ UNCHANGED <<history, dirty, remote>>

(* git add, git commit --only, git rev-parse HEAD                          *)
CommitPaths ==
    /\ Publishing("commit")
    /\ HeadSha < MaxCommits
    /\ history' = Append(history, [paths |-> publication.paths, trailer |-> TRUE])
    /\ dirty' = dirty \ publication.paths
    /\ publication' = [publication EXCEPT !.at = "prepared", !.sha = HeadSha + 1]
    /\ UNCHANGED <<contract, remote>>

RecordPrepared ==
    /\ Publishing("prepared")
    /\ contract' = [contract EXCEPT !.prepared = publication.sha]
    /\ Proceed("push")
    /\ UNCHANGED <<history, dirty, remote>>

Push ==
    /\ Publishing("push")
    /\ remote' = remote \cup {publication.sha}
    /\ Proceed("published")
    /\ UNCHANGED <<contract, history, dirty>>

RecordPublished ==
    /\ Publishing("published")
    /\ contract' = [contract EXCEPT !.published = publication.sha]
    /\ publication' = NotPublishing
    /\ UNCHANGED <<history, dirty, remote>>

RunDies ==
    /\ publication # NotPublishing
    /\ publication' = NotPublishing
    /\ UNCHANGED <<contract, history, dirty, remote>>

SomebodyElse ==
    /\ publication = NotPublishing
    /\ \/ dirty' \in SUBSET (Owned \cup Foreign) /\ UNCHANGED history
       \/ /\ HeadSha < MaxCommits
          /\ \E paths \in SUBSET (Owned \cup Foreign) \ {{}} :
                history' = Append(history, [paths |-> paths, trailer |-> FALSE])
          /\ UNCHANGED dirty
    /\ UNCHANGED <<contract, remote, publication>>

PublicationNext ==
    \/ publishContract \/ RecordPreparing \/ CommitPaths \/ RecordPrepared \/ Push
    \/ RecordPublished \/ RunDies \/ SomebodyElse

PublicationSpec == PublicationInit /\ [][PublicationNext]_published

-----------------------------------------------------------------------------
(* However often a run dies, the contract is published as one commit, the  *)
(* first one on its baseline, its own and with its own paths only; and     *)
(* what is recorded as published is what was pushed.                       *)
PublishedOnce ==
    /\ PublicationTypeOK
    /\ remote \subseteq {1}
    /\ remote # {} => history[1].trailer /\ history[1].paths \subseteq Owned
    /\ contract.published # NoSha => contract.published \in remote

=============================================================================
