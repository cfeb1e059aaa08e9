---------------------------- MODULE MCWorkerPool ----------------------------
\* Instances of WorkerPool for TLC: two submissions share an Idempotency-Key,
\* and with it their event id, or each is an event of its own.
EXTENDS WorkerPool, TLC

CONSTANTS s1, s2, s3, s4, e1, e2, e3, e4, w1, w2

MCEventId == (s1 :> e1) @@ (s2 :> e1) @@ (s3 :> e2) @@ (s4 :> e3)
MCEventId3 == (s1 :> e1) @@ (s2 :> e1) @@ (s3 :> e2)
OwnEventId3 == (s1 :> e1) @@ (s2 :> e2) @@ (s3 :> e3)

WorkerSymmetry == Permutations(Workers)

=============================================================================
