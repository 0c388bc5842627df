------------------------------- MODULE MCSetup -------------------------------
(* Model values for SetupPanel: see Setup.cfg.                              *)
EXTENDS SetupPanel
==============================================================================
