----------------------------- MODULE MCAccounts -----------------------------
(* Model checking of Accounts: users, token rows and requests are each     *)
(* interchangeable.                                                        *)
EXTENDS Accounts, TLC

Symmetry ==
  Permutations(Users) \cup Permutations(Invitations) \cup Permutations(Resets)
    \cup Permutations(Requests)
=============================================================================
