---------------------------- MODULE MCModuleClient ----------------------------
(* ModuleClient with one application thread beside the two receivers.      *)
EXTENDS ModuleClient
=============================================================================
