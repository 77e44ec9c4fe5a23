------------------------------ MODULE MCStartup ------------------------------
(***************************************************************************)
(* Startup has no sizes to choose: the processes are those of the system.  *)
(***************************************************************************)
EXTENDS Startup
=============================================================================
