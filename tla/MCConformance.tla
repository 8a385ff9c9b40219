----------------------------- MODULE MCConformance -----------------------------
(* Every script with every brain. *)
EXTENDS Conformance

MCPlays == AllBrains \X AllScripts
=============================================================================
