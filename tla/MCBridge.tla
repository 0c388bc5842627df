------------------------------ MODULE MCBridge ------------------------------
(* Bridge on a table of a script and a flag.                                *)
EXTENDS Bridge

CONSTANTS script, flag

MCRecords == {script, flag}

\* The script is switched on, then the flag's value is written, then it is on.
Activate(r) == [record |-> r, kind |-> "active", to |-> TRUE]
Assign(r) == [record |-> r, kind |-> "value", to |-> TRUE]
ScriptThenFlag == <<Activate(script), Activate(flag)>>
ValueThenScript == <<Assign(flag), Activate(script)>>
ScriptWakesFlag == {<<script, flag>>}

\* A session whose table's [DISABLE] switches another record on, given live commands;
\* and one whose readings fail and whose process goes, its attach retried.
Driven == [plan |-> ValueThenScript, wakes |-> ScriptWakesFlag,
           kinds |-> {"set_active", "set_value", "quiesce"},
           unreadable |-> FALSE, detaches |-> FALSE, commands |-> 2]
Troubled == [plan |-> ScriptThenFlag, wakes |-> {},
             kinds |-> {"retry_attach", "quiesce"},
             unreadable |-> TRUE, detaches |-> TRUE, commands |-> 1]
DrivenOrTroubled == {Driven, Troubled}
=============================================================================
