-------------------------- MODULE MCMessagesService --------------------------
(* MessagesService on two users and a few calls. *)
EXTENDS MessagesService, TLC

AllTypes == SystemTypes \cup {"custom"}

Interchangeable ==
    Permutations(Users) \cup Permutations(Calls) \cup Permutations(MsgIds)
        \cup Permutations(ThreadIds)

=============================================================================
