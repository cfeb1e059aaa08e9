----------------------------- MODULE MCDlqReplay -----------------------------
\* Instances of DlqReplay for TLC.
EXTENDS DlqReplay, TLC

CONSTANTS s1, s2, e1, e2, w1, w2, r1, r2

OwnEventId2 == (s1 :> e1) @@ (s2 :> e2)

ReplaySymmetry == Permutations(Workers) \cup Permutations(Replays)

=============================================================================
