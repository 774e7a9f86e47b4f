--------------------------- MODULE MCConversation ----------------------------
(***************************************************************************)
(* TLC instances of Conversation: two clients, which are interchangeable,  *)
(* and a tool that writes a few bytes to each of its pipes.                *)
(***************************************************************************)
EXTENDS Conversation, TLC

Symmetry == Permutations(Client)

Character == [out |-> 2, err |-> 1]   \* one character, and half of another
OneByte == [out |-> 1, err |-> 0]
AllVerbs == {"exec", "run", "stop"}
RunOnly == {"run"}

=============================================================================
