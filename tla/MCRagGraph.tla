----------------------------- MODULE MCRagGraph -----------------------------
(* Instances of RagGraph for TLC.                                           *)
EXTENDS RagGraph
=============================================================================
