-------------------------- MODULE MCKnowledgeIndex --------------------------
(* Instances of KnowledgeIndex for TLC.                                     *)
EXTENDS KnowledgeIndex, TLC

\* Ids, documents and texts other than blank ones are only ever compared.
Interchangeable == Permutations(Id) \cup Permutations(Doc) \cup Permutations(Text \ Blank)
=============================================================================
