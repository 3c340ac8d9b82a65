------------------------------- MODULE MCIngest -------------------------------
(* A few producers and flushes for TLC to check Ingest on.                  *)
EXTENDS Ingest, TLC

Symmetry == Permutations(Flights)
=============================================================================
