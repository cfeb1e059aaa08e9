------------------------------- MODULE Mirror -------------------------------
(***************************************************************************)
(* What the search index promises: an eventually consistent copy of the    *)
(* event store.  An event is committed in the source first; only then may  *)
(* it be copied, any number of times; and it is acknowledged, so that it   *)
(* need not be copied again, only once the copy has it.                    *)
(***************************************************************************)
CONSTANT Events

VARIABLES source, copy, acked

mirrorVars == <<source, copy, acked>>

MirrorInit == source = {} /\ copy = {} /\ acked = {}

Commit(e) ==
    /\ source' = source \cup {e}
    /\ UNCHANGED <<copy, acked>>

\* Some committed events reach the copy.
CopyOver ==
    /\ \E some \in SUBSET source : copy' = copy \cup some
    /\ UNCHANGED <<source, acked>>

Acknowledge ==
    /\ \E some \in SUBSET copy : acked' = acked \cup some
    /\ UNCHANGED <<source, copy>>

MirrorNext ==
    \/ \E e \in Events : Commit(e)
    \/ CopyOver
    \/ Acknowledge

MirrorSpec == MirrorInit /\ [][MirrorNext]_mirrorVars

=============================================================================
