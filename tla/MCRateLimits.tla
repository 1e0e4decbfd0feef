----------------------------- MODULE MCRateLimits ---------------------------
(* A small instance of RateLimits: the limits are cut to 1, 2 and 3.       *)
EXTENDS RateLimits, TLC

(* A tenant's request carries the stored limit, 1, or the default, 2.      *)
MCLimits == "login" :> {1} @@ "guarded" :> {1} @@ "tenant" :> {1, 2}

Symmetry == Permutations(Requests)
=============================================================================
