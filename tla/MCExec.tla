------------------------------- MODULE MCExec -------------------------------
(* The interpreter on the programs of module Programs. *)
EXTENDS ExecForkJoin

P == INSTANCE Programs WITH MaxCodeSize <- 80

ForkCode == P!ForkCode
ForkRegion == P!ForkRegion
ForkDepth == P!ForkDepth

LoopCode == P!LoopCode
LoopRegion == P!LoopRegion
LoopDepth == P!LoopDepth

WaitCode == P!WaitCode
WaitRegion == P!WaitRegion
WaitDepth == P!WaitDepth

WaitJoinCode == P!WaitJoinCode
WaitJoinRegion == P!WaitJoinRegion
WaitJoinDepth == P!WaitJoinDepth

=============================================================================
