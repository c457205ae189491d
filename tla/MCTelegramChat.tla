--------------------------- MODULE MCTelegramChat ---------------------------
(***************************************************************************)
(* The instance of TelegramChat that TLC checks: the owner's tap, one of a *)
(* stranger and a command; a message; two files and a build that ends.     *)
(***************************************************************************)
EXTENDS TelegramChat, TLC

CONSTANTS owner, stranger, a1, deepseek, codex, p1, p2

U(kind, from, decision) == [kind |-> kind, from |-> from, request |-> a1,
                            decision |-> decision]
Text == U("text", owner, "denied")

ShortScripts == {
    <<U("tap", owner, "approved"), U("tap", stranger, "denied"),
      U("command", owner, "denied")>>,
    <<Text>>,
    <<U("file", owner, "denied"), U("file", owner, "denied")>> }

BuildSpecs == {[driver |-> "ai_patch_executor", generation |-> TRUE,
                probe |-> FALSE, phase |-> ph, project |-> TRUE]
                    : ph \in {"inner", "last"}}

BuildSpend == {{},
               {[provider |-> deepseek, cost |-> 3, accepted |-> FALSE],
                [provider |-> codex, cost |-> 0, accepted |-> TRUE]}}

(* What cannot meet is not combined: a request is made for a script with a *)
(* tap, a build ends beside the files, whose sticker it may stop; a second *)
(* failure beside the message, which it may repeat.                        *)
Has(kind) == \E u \in Ids : Updates[u].kind = kind
Apart == /\ \A a \in Requests : status[a] # "none" => Has("tap")
         /\ ends > 0 => Has("file")
         /\ faults > 1 => Has("text")

Symmetry == Permutations({p1, p2})

=============================================================================
