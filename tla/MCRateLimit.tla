----------------------------- MODULE MCRateLimit -----------------------------
\* An instance of RateLimit for TLC: three requests of one client and one of
\* another.
EXTENDS RateLimit, TLC

CONSTANTS q1, q2, q3, q4, c1, c2

MCClientOf == (q1 :> c1) @@ (q2 :> c1) @@ (q3 :> c1) @@ (q4 :> c2)

ClientSymmetry == Permutations({q1, q2, q3})

=============================================================================
