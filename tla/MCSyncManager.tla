---------------------------- MODULE MCSyncManager ---------------------------
(* Instances of SyncManager for TLC.                                       *)
EXTENDS SyncManager, TLC

\* ClusterSyncs are interchangeable.
Symmetry == Permutations(Sync)

=============================================================================
