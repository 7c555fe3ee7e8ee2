---------------------------- MODULE MCEngineShell ----------------------------
(* EngineShell with two modules, one raw bridge and one worker thread.     *)
EXTENDS EngineShell
=============================================================================
