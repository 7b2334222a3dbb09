------------------------------- MODULE MCIngest -------------------------------
(* Model checking of the block writer on short chains. *)
EXTENDS Ingest
=============================================================================
