-------------------------------- MODULE Permit --------------------------------
(***************************************************************************)
(* What CE Decky promises about running a cheat table: a table is code, so  *)
(* Cheat Engine runs one in a game only while the player's word for exactly *)
(* that table in exactly that game stands.                                  *)
(***************************************************************************)
CONSTANTS Apps, Tables, None
VARIABLES agreed,   \* the tables the player agreed to run in each game
          running   \* the table Cheat Engine runs in each game

Init == agreed = [a \in Apps |-> {}] /\ running = [a \in Apps |-> None]

Agree(a, t) == agreed' = [agreed EXCEPT ![a] = @ \cup {t}] /\ UNCHANGED running
Withdraw(a) ==
    /\ \E left \in SUBSET agreed[a] :
         /\ running[a] \in left \cup {None}
         /\ agreed' = [agreed EXCEPT ![a] = left]
    /\ UNCHANGED running
\* The profiles were unreadable and set aside: every game's word goes with them.
WithdrawAll == \A a \in Apps : running[a] = None
               /\ agreed' = [b \in Apps |-> {}] /\ UNCHANGED running
Start(a, t) ==
    /\ running[a] = None /\ t \in agreed[a]
    /\ running' = [running EXCEPT ![a] = t] /\ UNCHANGED agreed
Stop(a) == running' = [running EXCEPT ![a] = None] /\ UNCHANGED agreed

Next ==
    \/ WithdrawAll
    \/ \E a \in Apps : Withdraw(a) \/ Stop(a) \/ \E t \in Tables : Agree(a, t) \/ Start(a, t)
Spec == Init /\ [][Next]_<<agreed, running>>
===============================================================================
