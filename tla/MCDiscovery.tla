------------------------------ MODULE MCDiscovery ------------------------------
(* What is begun together on a small device: a search with everything that   *)
(* runs behind it, once beside the forum's own changes and a reload, once    *)
(* beside a switch, once beside a deletion and a reset; two downloads of one *)
(* source; one that is asked for and asked after again, as a handoff may be; *)
(* and a download beside a deletion, a switch and a reload.                  *)
EXTENDS Discovery
Only(counts) == [k \in Kinds |-> IF k \in DOMAIN counts THEN counts[k] ELSE 0]
MCBudgets ==
    {Only([search |-> 1, crawl |-> 1, change |-> 1, reload |-> 1]),
     Only([search |-> 1, crawl |-> 1, switch |-> 1, call |-> 1]),
     Only([search |-> 1, crawl |-> 1, delete |-> 1, reset |-> 1]),
     Only([download |-> 2]),
     Only([download |-> 1, call |-> 3, reload |-> 1]),
     Only([download |-> 1, delete |-> 1, call |-> 1, switch |-> 1, reload |-> 1])}
================================================================================
