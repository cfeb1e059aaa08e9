---------------------------- MODULE MCIdempotency ----------------------------
\* Instances of Idempotency for TLC: requests with one key and two bodies, one
\* of them repeated, and a request without a key.
EXTENDS Idempotency, TLC

CONSTANTS q1, q2, q3, q4, k1, b1, b2

MCKeyOf == (q1 :> k1) @@ (q2 :> k1) @@ (q3 :> k1) @@ (q4 :> NoKey)
MCBodyOf == (q1 :> b1) @@ (q2 :> b1) @@ (q3 :> b2) @@ (q4 :> b1)

OneKeyOf == (q1 :> k1) @@ (q2 :> k1)
SameBodyOf == (q1 :> b1) @@ (q2 :> b1)

=============================================================================
