----------------------------- MODULE MCExecJoin -----------------------------
(* The interpreter on programs that join every spawn. *)
EXTENDS MCExec, ExecJoin

\* What the theorems EndsProperly and VariablesKept suppose besides.
ASSUME HypothesesAssumption == DepthsBelow(StackSize) /\ DepthsBelow(VarBase) /\ NoBadOpcode
=============================================================================
