-------------------------- MODULE MCDeltaPipeline --------------------------
(***************************************************************************)
(* Small instances of DeltaPipeline for TLC.                               *)
(***************************************************************************)
EXTENDS DeltaPipeline, TLC

CONSTANTS f, g, h1, h2, r1, r2

\* Nothing orders or prefers a hash or a replica, so each set is symmetric.
HashSymmetry    == Permutations(Hashes)
ReplicaSymmetry == Permutations(Procs)
Symmetry        == HashSymmetry \cup ReplicaSymmetry
============================================================================
