----------------------------- MODULE MCRecords ------------------------------
(***************************************************************************)
(* The symmetry of a small instance of Records.                            *)
(***************************************************************************)
EXTENDS Records, TLC

(* One permutation for sets of different components: while one component   *)
(* moves, the others stay as they began, which is symmetric.  The first    *)
(* member is the identity.                                                 *)
Swap(S) == CHOOSE p \in Permutations(S) : \A x \in S : p[x] # x

Symmetry ==
  Permutations({})
    \cup {Swap(Users) @@ Swap(Feedbacks) @@ Swap(Callers) @@ Swap(Ids),
          Swap(Requests) @@ Swap(Texts) @@ Swap(Interviews) @@ Swap(Workers),
          Swap(Questions) @@ Swap(Editors)}
=============================================================================
