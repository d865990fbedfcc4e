----------------------------- MODULE MCChatRun -----------------------------
(* TLC instances of ChatRun. *)
EXTENDS ChatRun, TLC

(* All requests are for one conversation. *)
SameConversation == [r \in Run |-> CHOOSE c \in Conversation : TRUE]

(* The runner loops are interchangeable. *)
Symmetry == Permutations(Runner)

=============================================================================
