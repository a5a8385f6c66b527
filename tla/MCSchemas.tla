----------------------------- MODULE MCSchemas ------------------------------
(* Small instances of Schemas for TLC.                                     *)
EXTENDS Schemas, TLC

\* Threads and ids differ in nothing: Init and Next treat them alike.
SchemasSymmetry == Permutations(Workers) \cup Permutations(Ids)
=============================================================================
