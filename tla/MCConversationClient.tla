------------------------ MODULE MCConversationClient ------------------------
(* TLC instances of ConversationClient. *)
EXTENDS ConversationClient

(* A chat run streams the question, a piece and the whole; research two phases. *)
ShortScript ==
  [chat |-> <<"values", "messages", "values", "done">>,
   research |-> <<"progress", "done">>]

=============================================================================
