----------------------------- MODULE MCExecWait -----------------------------
(* The interpreter on programs whose joined tasks do not wait. *)
EXTENDS MCExec, ExecSpawn

WaitHeld == HeldsOf(WaitCode)
WaitJoined == JoinedCodeOf(WaitCode)
=============================================================================
