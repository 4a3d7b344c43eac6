----------------------------- MODULE MCMailStore -----------------------------
(* MailStore on two users and a few rows of every table. *)
EXTENDS MailStore, TLC

AllTypes == SystemTypes \cup {"custom"}

\* Where the clients of the small instance move messages.
MovedTo == {"custom"}

\* Ids are interchangeable: no operation compares or orders them.
Interchangeable ==
    Permutations(Users) \cup Permutations(MsgIds) \cup Permutations(CustomIds)
        \cup Permutations(Texts)

=============================================================================
