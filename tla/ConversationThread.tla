------------------------- MODULE ConversationThread -------------------------
(***************************************************************************)
(* What a conversation promises its owner, whatever the clients, tasks and *)
(* attempts behind it do: messages are only ever added, each under the     *)
(* version its arrival created; a question is stored once; an answer comes *)
(* right after its question, with nothing in between, and so only once.    *)
(***************************************************************************)
EXTENDS Naturals, Sequences

CONSTANT Questions

VARIABLES
    version,    \* bumped by every message and every change of the metadata
    messages    \* the thread

ThreadInit == version = 0 /\ messages = <<>>

Add(role, q) ==
    /\ version' = version + 1
    /\ messages' = Append(messages, [ordinal |-> version + 1, role |-> role, of |-> q])

Ask(q) ==
    /\ \A i \in DOMAIN messages : messages[i].of # q
    /\ Add("owner", q)

Answer(q) ==
    /\ messages # <<>>
    /\ messages[Len(messages)] = [ordinal |-> version, role |-> "owner", of |-> q]
    /\ Add("assistant", q)

(* A new title, or moving the conversation to or from the archive. *)
Retouch == version' = version + 1 /\ UNCHANGED messages

ThreadNext == Retouch \/ \E q \in Questions : Ask(q) \/ Answer(q)

ThreadSpec == ThreadInit /\ [][ThreadNext]_<<version, messages>>

-----------------------------------------------------------------------------
Message == [ordinal : Nat, role : {"owner", "assistant"}, of : Questions]

(* A thread reads from top to bottom: ordinals ascend up to the version, a *)
(* question is there once, and right below it, under the next ordinal, is  *)
(* its answer or none.                                                     *)
ThreadPromise ==
    /\ version \in Nat /\ messages \in Seq(Message)
    /\ \A i \in DOMAIN messages : messages[i].ordinal <= version
    /\ \A i, j \in DOMAIN messages : i < j => messages[i].ordinal < messages[j].ordinal
    /\ \A i, j \in DOMAIN messages :
          /\ messages[i].of = messages[j].of /\ messages[i].role = messages[j].role => i = j
          /\ messages[i].role = "owner" /\ messages[j].role = "assistant"
                /\ messages[i].of = messages[j].of
             => j = i + 1 /\ messages[j].ordinal = messages[i].ordinal + 1
    /\ \A j \in DOMAIN messages : messages[j].role = "assistant" =>
          \E i \in DOMAIN messages : messages[i].role = "owner"
                                     /\ messages[i].of = messages[j].of

(* Nothing that was said is taken back or moved.                           *)
OnlyGrows == /\ Len(messages) <= Len(messages')
             /\ \A i \in DOMAIN messages : messages'[i] = messages[i]

ThreadSteps == [][OnlyGrows]_<<version, messages>>
=============================================================================
