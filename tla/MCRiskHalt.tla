----------------------------- MODULE MCRiskHalt -----------------------------
(* RiskHalt for TLC: the constants are given values in the .cfg files.     *)
EXTENDS RiskHalt

CONSTANT s1     \* the sweep that may be interrupted

OneInterrupted == [s \in Sweeps |-> IF s = s1 THEN 1 ELSE 0]
=============================================================================
