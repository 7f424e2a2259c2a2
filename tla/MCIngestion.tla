---------------------------- MODULE MCIngestion ----------------------------
(***************************************************************************)
(* Small instances of Ingestion for TLC.                                   *)
(***************************************************************************)
EXTENDS Ingestion, TLC

\* Devices and processes are interchangeable.
Symmetry == Permutations(Devices) \cup Permutations(Procs)
=============================================================================
