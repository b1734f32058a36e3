----------------------------- MODULE MCAccounts -----------------------------
(* Small instances of Accounts.  Row ids are UUIDs and requests are alike. *)
EXTENDS Accounts, TLC

Interchangeable ==
  Permutations(Sessions) \cup Permutations(Invitations) \cup Permutations(Requests)
    \cup Permutations(Emails) \cup Permutations(Clients)
=============================================================================
