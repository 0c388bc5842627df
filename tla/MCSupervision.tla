---------------------------- MODULE MCSupervision ----------------------------
(* Supervision of a game that is a launcher and a main program.             *)
EXTENDS Supervision, TLC

CONSTANTS launcher, main, other

Both == {launcher, main}
Named == {launcher, main, other}
=============================================================================
