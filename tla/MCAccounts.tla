----------------------------- MODULE MCAccounts -----------------------------
(* Accounts on a few requests. *)
EXTENDS Accounts, TLC

Interchangeable == Permutations(Calls) \cup Permutations(Browsers)

=============================================================================
