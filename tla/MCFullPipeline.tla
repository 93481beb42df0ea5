-------------------------- MODULE MCFullPipeline --------------------------
(***************************************************************************)
(* Small instances of FullPipeline for TLC: the files, hashes and replicas *)
(* they are made of.                                                       *)
(***************************************************************************)
EXTENDS FullPipeline

CONSTANTS f, g, h1, h2, r1, r2
============================================================================
