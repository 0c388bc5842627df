---------------------------- MODULE MCSessionLog ----------------------------
(* SessionLog with two clients and a session moved between two programs.    *)
EXTENDS SessionLog, TLC

CONSTANTS home, other, third, panel, stop

MCClients == {panel, stop}
Three == {home, other, third}
Singly == {<<p>> : p \in Programs \cup {None, Quiesce}}
Paired == Singly \cup {<<other, None>>}
=============================================================================
