--------------------------- MODULE SupervisorProofs ---------------------------
(***************************************************************************)
(* Theorems about the supervisor of `ce_launch.py`, from both sides. About *)
(* Ownership, for any games and any number of launches, whatever ends the  *)
(* backend and wherever; about Supervision, for any programs, any interval *)
(* and number of confirming walks, and without the bounds on starts and    *)
(* refused walks.                                                          *)
(***************************************************************************)
EXTENDS Ownership, Supervision, TLAPS

-----------------------------------------------------------------------------
(* Ownership: who has a Cheat Engine.                                       *)

\* Whatever is known of a launch, the launch has begun.
GameInv ==
    /\ \A s \in Starts :
         procs[s] # {} \/ task[s] # "none" \/ state[s] # "none" \/ s \in processes \cup exits \cup lost
             => game[s] # Nobody
    /\ \A a \in Apps : record[a] \in Starts => game[record[a]] = a
    /\ \A a \in Apps : retiring[a] \in Starts => game[retiring[a]] # Nobody

TaskInv ==
    \A s \in Starts :
        /\ task[s] # "none" => state[s] \in LiveStates
        /\ s \in lost => task[s] = "none"
        /\ stopping[s] # "no" => ~closing /\ state[s] # "none"
        /\ ~closing /\ state[s] \in LiveStates /\ task[s] = "none" => s \in asked

Young(s) == task[s] \in {"starting", "forked"}

\* While a start is young nothing else runs but what was lost, and nothing is known of
\* it but its task.
YoungInv ==
    \A s \in Starts : Young(s) =>
        /\ \A t \in Starts : t # s => (procs[t] = {} \/ t \in lost) /\ ~Young(t)
        /\ task[s] = "starting" => procs[s] = {}
        /\ state[s] = "starting"
        /\ s \notin processes /\ s \notin exits
        /\ \A a \in Apps : record[a] # s /\ retiring[a] # s

\* Who owns what runs, at every point of its task; and who could be lost.
OwnInv ==
    /\ \A s \in Starts : procs[s] # {} /\ s \notin lost =>
         /\ s \in processes \/ task[s] = "forked" \/ Recorded(s)
         /\ task[s] \in {"up", "ending", "failing", "cancelled"} => s \in processes
         /\ ~closing /\ state[s] # "none" /\ task[s] = "none" => s \in processes
         /\ task[s] \in {"up", "ending", "cancelled"} /\ game[s] \in Apps => Recorded(s)
         /\ Recorded(s) \/ Unwritten(s)
         /\ rebuilding => game[s] = Test
    /\ \A s \in exits : procs[s] = {}

Inv == TypeOK /\ GameInv /\ TaskInv /\ YoungInv /\ OwnInv /\ OneAtATime

-----------------------------------------------------------------------------

\* A launcher that is free has nothing under way, and nothing running but what was lost.
LEMMA Free ==
    ASSUME Inv, ~HasLive
    PROVE  Kept = {} /\ \A s \in Starts : task[s] = "none"
  <1>1. \A s \in Starts : task[s] = "none"
    BY DEF HasLive, Live, Inv, TaskInv
  <1>2. ASSUME NEW s \in Kept PROVE FALSE
    <2>1. processes = {}
      BY <1>2 DEF HasLive, Kept
    <2>2. Recorded(s)
      BY <1>1, <1>2, <2>1 DEF Inv, OwnInv, Kept, Running
    <2>3. record[game[s]] # Nobody /\ ~GoneRecord(game[s])
      BY <1>2, <2>2, OwnershipAssumption DEF Recorded, GoneRecord, Kept, Running
    <2>. QED BY <2>2, <2>3 DEF HasLive, Recorded
  <1>. QED BY <1>1, <1>2

LEMMA StartsWell == Init => Inv
  <1>. SUFFICES ASSUME Init PROVE Inv
    OBVIOUS
  <1>1. TypeOK
    BY DEF Init, TypeOK
  <1>2. GameInv /\ TaskInv /\ YoungInv /\ OwnInv /\ OneAtATime
    BY OwnershipAssumption
       DEF Init, GameInv, TaskInv, LiveStates, YoungInv, Young, OwnInv, Recorded, Unwritten, OneAtATime, Kept, Running
  <1>. QED BY <1>1, <1>2 DEF Inv

-----------------------------------------------------------------------------

\* What stopping the processes of a launch does and leaves.
LEMMA StopIs ==
    ASSUME TypeOK, NEW s \in Starts, StopProcess(s)
    PROVE  /\ procs' \in [Starts -> SUBSET Parts] /\ processes' \subseteq Starts /\ exits' \subseteq Starts
           /\ procs'[s] \subseteq procs[s]
           /\ \A t \in Starts : t # s => /\ procs'[t] = procs[t]
                                      /\ (t \in processes' <=> t \in processes)
                                      /\ (t \in exits' <=> t \in exits)
           /\ s \in processes => s \in processes' \/ procs'[s] = {}
           /\ s \in processes' => s \in processes
           /\ s \notin processes => procs'[s] = procs[s]
           /\ s \in exits' => s \in exits \/ procs'[s] = {}
  <1>1. PICK rest \in SUBSET procs[s] :
            /\ procs' = [procs EXCEPT ![s] = rest]
            /\ \/ rest = {} /\ processes' = processes \ {s} /\ exits' = exits \cup {s} /\ s \in processes
               \/ UNCHANGED <<processes, exits>> /\ (s \in processes \/ rest = procs[s])
    <2>1. CASE s \in processes /\ Proven(s)
      BY <2>1 DEF Proven
    <2>2. CASE s \in processes /\ Unproven(s)
      BY <2>2 DEF Unproven
    <2>3. CASE NothingToStop(s)
      <3>1. procs' = [procs EXCEPT ![s] = procs[s]]
        BY <2>3 DEF TypeOK, NothingToStop
      <3>. QED BY <2>3, <3>1 DEF NothingToStop
    <2>. QED BY <2>1, <2>2, <2>3 DEF StopProcess
  <1>. QED BY <1>1 DEF TypeOK

LEMMA FewerIsOne ==
    ASSUME OneAtATime, \A t \in Starts : procs'[t] \subseteq procs[t], lost \subseteq lost'
    PROVE  OneAtATime'
  BY DEF OneAtATime, Kept, Running

\* A run, or a stop, that stops the processes of its launch and lets go of it only
\* when none is left.
LEMMA EndKeeps ==
    ASSUME Inv, NEW s \in Starts, StopProcess(s), TaskInv', ~Young(s),
           state' \in [Starts -> {"none", "stopped", "failed"} \cup LiveStates],
           task' \in [Starts -> {"none", "starting", "forked", "up", "ending", "failing", "cancelled"}],
           stopping' \in [Starts -> {"no", "settling", "waiting"}],
           \A t \in Starts : t # s => task'[t] = task[t] /\ state'[t] = state[t],
           s \notin processes => procs[s] = {} \/ s \in lost,
           task'[s] \in {"failing", "none"}, state[s] # "none",
           s \in processes' => state'[s] \in {state[s], "failed"},
           record' \in {record, Cleared(s)}, record' # record => s \notin processes',
           UNCHANGED <<game, asked, closing, retiring, rebuilding, lost>>
    PROVE  Inv'
  <1>. DEFINE After(t) == /\ procs'[t] = procs[t]
                          /\ (t \in processes' <=> t \in processes)
                          /\ (t \in exits' <=> t \in exits)
  <1>1. /\ procs' \in [Starts -> SUBSET Parts] /\ processes' \subseteq Starts /\ exits' \subseteq Starts
        /\ procs'[s] \subseteq procs[s]
        /\ \A t \in Starts : t # s => After(t)
        /\ s \in processes' => s \in processes
        /\ s \in exits' => s \in exits \/ procs'[s] = {}
    <2>. TypeOK
      BY DEF Inv
    <2>. QED BY StopIs
  <1>2. s \notin processes' => procs'[s] = {} \/ s \in lost
    BY StopIs DEF Inv
  <1>3. \A b \in Apps : /\ record'[b] \in {record[b], Nobody}
                        /\ record'[b] # record[b] => record[b] = s /\ s \notin processes'
    BY DEF Cleared
  <1>4. TypeOK'
    BY <1>1 DEF Inv, TypeOK, Cleared
  <1>5. GameInv'
    <2>1. ASSUME NEW t \in Starts,
                 procs'[t] # {} \/ task'[t] # "none" \/ state'[t] # "none" \/ t \in processes' \cup exits'
          PROVE  game'[t] # Nobody
      BY <1>1, <2>1 DEF Inv, GameInv
    <2>2. \A a \in Apps : record'[a] \in Starts => game'[record'[a]] = a
      BY <1>3, OwnershipAssumption DEF Inv, GameInv
    <2>. QED BY <2>1, <2>2 DEF Inv, GameInv
  <1>6. YoungInv'
    <2>1. \A t \in Starts : Young(t)' => t # s /\ Young(t)
      BY DEF Young
    <2>2. \A t \in Starts, a \in Apps : record'[a] = t => record[a] = t
      BY <1>3, OwnershipAssumption
    <2>3. ASSUME NEW t \in Starts, Young(t), t # s
          PROVE  /\ task'[t] = task[t] /\ After(t)
                 /\ \A u \in Starts : u # t => (procs'[u] = {} \/ u \in lost) /\ ~Young(u)'
      BY <1>1, <2>1, <2>3 DEF Inv, YoungInv
    <2>. QED BY <2>1, <2>2, <2>3 DEF Inv, YoungInv
  <1>7. OwnInv'
    <2>1. ASSUME NEW t \in Starts, t # s, Recorded(t)
          PROVE  Recorded(t)'
      BY <1>3, <2>1, OwnershipAssumption DEF Recorded
    <2>2. ASSUME procs'[s] # {}, s \notin lost
          PROVE  procs[s] # {} /\ s \in processes' /\ s \in processes
      BY <1>1, <1>2, <2>2
    <2>3. \A t \in exits' : procs'[t] = {}
      BY <1>1 DEF Inv, TypeOK, OwnInv
    <2>4. ASSUME NEW t \in Starts, t # s, Unwritten(t)
          PROVE  Recorded(t)' \/ Unwritten(t)'
      BY <2>4 DEF Unwritten
    <2>5. ASSUME procs'[s] # {}, s \notin lost, Recorded(s) \/ Unwritten(s)
          PROVE  Recorded(s)' \/ Unwritten(s)'
      <3>1. record' = record /\ state'[s] \in {state[s], "failed"}
        BY <2>2, <2>5
      <3>. QED BY <2>5, <3>1 DEF Recorded, Unwritten
    <2>6. ASSUME procs'[s] # {}, s \notin lost, Recorded(s)
          PROVE  Recorded(s)'
      BY <2>2, <2>6 DEF Recorded
    <2>7. ASSUME NEW t \in Starts, t # s, procs'[t] # {}, t \notin lost
          PROVE  /\ t \in processes' \/ task'[t] = "forked" \/ Recorded(t)'
                 /\ task'[t] \in {"up", "ending", "failing", "cancelled"} => t \in processes'
                 /\ ~closing' /\ state'[t] # "none" /\ task'[t] = "none" => t \in processes'
                 /\ task'[t] \in {"up", "ending", "cancelled"} /\ game'[t] \in Apps => Recorded(t)'
                 /\ Recorded(t)' \/ Unwritten(t)'
                 /\ rebuilding' => game'[t] = Test
      BY <1>1, <2>1, <2>4, <2>7 DEF Inv, OwnInv
    <2>8. ASSUME procs'[s] # {}, s \notin lost
          PROVE  /\ s \in processes'
                 /\ Recorded(s)' \/ Unwritten(s)'
                 /\ rebuilding' => game'[s] = Test
      BY <2>2, <2>5, <2>8 DEF Inv, OwnInv
    <2>. QED BY <2>3, <2>7, <2>8 DEF OwnInv
  <1>8. OneAtATime'
    BY <1>1, FewerIsOne DEF Inv
  <1>. QED BY <1>4, <1>5, <1>6, <1>7, <1>8 DEF Inv

-----------------------------------------------------------------------------
(* Every other step, part by part.                                          *)

LEMMA SpreadsKeeps ==
    ASSUME Inv, NEW s \in Starts, Spreads(s)
    PROVE  Inv'
  <1>1. TypeOK'
    BY DEF Inv, TypeOK, Parts, Spreads, memory
  <1>2. GameInv'
    BY DEF Inv, GameInv, Running, Spreads, memory
  <1>3. TaskInv'
    BY DEF Inv, TaskInv, Live, Spreads, memory
  <1>4. YoungInv'
    BY DEF Inv, YoungInv, Young, Running, Spreads, memory
  <1>5. OwnInv'
    BY DEF Inv, OwnInv, Recorded, Unwritten, Spreads, memory
  <1>6. OneAtATime'
    BY DEF Inv, OneAtATime, Kept, Running, Spreads
  <1>. QED BY <1>1, <1>2, <1>3, <1>4, <1>5, <1>6 DEF Inv

LEMMA ExitsKeeps ==
    ASSUME Inv, NEW s \in Starts, Exits(s)
    PROVE  Inv'
  <1>1. TypeOK'
    BY DEF Inv, TypeOK, Exits, memory
  <1>2. GameInv'
    BY DEF Inv, GameInv, Running, Exits, memory
  <1>3. TaskInv'
    BY DEF Inv, TaskInv, Live, Exits, memory
  <1>4. YoungInv'
    BY DEF Inv, YoungInv, Young, Running, Exits, memory
  <1>5. OwnInv'
    BY DEF Inv, OwnInv, Recorded, Unwritten, Exits, memory
  <1>6. OneAtATime'
    BY DEF Inv, OneAtATime, Kept, Running, Exits
  <1>. QED BY <1>1, <1>2, <1>3, <1>4, <1>5, <1>6 DEF Inv

LEMMA BeginKeeps ==
    ASSUME Inv, NEW s \in Starts, NEW g \in Apps \cup {Test}, Begin(s, g)
    PROVE  Inv'
  <1>1. Kept = {} /\ \A t \in Starts : task[t] = "none"
    BY Free DEF Begin
  <1>2. /\ UNCHANGED <<procs, asked, stopping, closing, retiring, rebuilding, lost>> /\ ~closing
        /\ game' = [game EXCEPT ![s] = g] /\ game[s] = Nobody
        /\ state' = [state EXCEPT ![s] = "starting"] /\ task' = [task EXCEPT ![s] = "starting"]
        /\ processes' = {} /\ record' \in [Apps -> Starts \cup {Nobody, Invalid}]
    BY DEF Inv, TypeOK, Begin, Recovered
  <1>3. \A a \in Apps : record'[a] \in {record[a], Nobody}
    BY DEF Begin, Recovered
  <1>4. ASSUME NEW t \in exits' PROVE t \in Starts /\ (t \in exits \/ \E a \in Apps : record[a] = t)
    BY DEF Begin, GoneRecord, Inv, TypeOK
  <1>5. /\ s \notin exits /\ s \notin lost /\ state[s] = "none"
        /\ \A a \in Apps : record[a] # s /\ retiring[a] # s
    BY <1>2, OwnershipAssumption DEF Inv, GameInv
  <1>6. TypeOK'
    BY <1>2, <1>4 DEF Inv, TypeOK, LiveStates
  <1>7. GameInv'
    <2>1. g # Nobody
      BY OwnershipAssumption
    <2>2. \A t \in exits' : game[t] # Nobody
      BY <1>4, OwnershipAssumption DEF Inv, GameInv
    <2>3. \A t \in Starts : game'[t] = IF t = s THEN g ELSE game[t]
      BY <1>2 DEF Inv, TypeOK
    <2>4. \A a \in Apps : record'[a] \in Starts => record'[a] = record[a] /\ record[a] # s
      BY <1>3, <1>5, OwnershipAssumption
    <2>5. \A t \in Starts : game'[t] = Nobody => t # s /\ game[t] = Nobody /\ t \notin exits'
      BY <2>1, <2>2, <2>3
    <2>. QED BY <1>2, <2>4, <2>5 DEF Inv, GameInv
  <1>8. TaskInv'
    BY <1>2, <1>5 DEF Inv, TypeOK, TaskInv, LiveStates
  <1>9. YoungInv'
    <2>1. \A t \in Starts : Young(t)' <=> t = s
      BY <1>1, <1>2 DEF Inv, TypeOK, Young
    <2>2. s \notin exits' /\ \A a \in Apps : record'[a] # s
      BY <1>3, <1>4, <1>5, OwnershipAssumption
    <2>3. \A t \in Starts : t # s => (procs'[t] = {} \/ t \in lost') /\ ~Young(t)'
      BY <1>1, <1>2, <2>1 DEF Kept, Running
    <2>4. procs'[s] = {} /\ state'[s] = "starting" /\ s \notin processes' /\ \A a \in Apps : retiring'[a] # s
      BY <1>1, <1>2, <1>5 DEF Kept, Running, Inv, TypeOK
    <2>. QED BY <2>1, <2>2, <2>3, <2>4 DEF YoungInv
  <1>10. OwnInv' /\ OneAtATime'
    <2>1. \A t \in exits' : procs'[t] = {}
      BY <1>2 DEF Begin, GoneRecord, Inv, OwnInv
    <2>2. \A t \in Starts : procs'[t] = {} \/ t \in lost'
      BY <1>1, <1>2 DEF Kept, Running
    <2>. QED BY <2>1, <2>2 DEF OwnInv, OneAtATime, Kept, Running
  <1>. QED BY <1>6, <1>7, <1>8, <1>9, <1>10 DEF Inv

LEMMA ForkKeeps ==
    ASSUME Inv, NEW s \in Starts, Fork(s)
    PROVE  Inv'
  <1>1. TypeOK'
    BY DEF Inv, TypeOK, Parts, Fork
  <1>2. GameInv'
    BY DEF Inv, GameInv, Running, Fork
  <1>3. TaskInv'
    BY DEF Inv, TaskInv, Live, Fork
  <1>4. YoungInv'
    BY DEF Inv, TypeOK, YoungInv, Young, Running, Fork
  <1>5. OwnInv'
    <2>1. /\ \A t \in Starts : t # s => procs'[t] = {} \/ t \in lost'
          /\ game[s] \in Apps \cup {Test} /\ state[s] = "starting" /\ s \notin exits
          /\ task'[s] = "forked"
      BY DEF Inv, TypeOK, GameInv, YoungInv, Young, Fork
    <2>2. \A t \in exits' : procs'[t] = {}
      BY <2>1 DEF Inv, OwnInv, TypeOK, Fork
    <2>. QED BY <2>1, <2>2 DEF OwnInv, Unwritten, Fork
  <1>6. OneAtATime'
    BY DEF Inv, OneAtATime, Kept, Running, YoungInv, Young, Fork
  <1>. QED BY <1>1, <1>2, <1>3, <1>4, <1>5, <1>6 DEF Inv

LEMMA RefusedKeeps ==
    ASSUME Inv, NEW s \in Starts, Refused(s)
    PROVE  Inv'
  <1>1. TypeOK'
    BY DEF Inv, TypeOK, Refused
  <1>2. GameInv'
    BY DEF Inv, GameInv, Running, Refused
  <1>3. TaskInv'
    BY DEF Inv, TaskInv, Live, Refused
  <1>4. YoungInv'
    BY DEF Inv, YoungInv, Young, Running, Refused
  <1>5. OwnInv'
    BY DEF Inv, OwnInv, Recorded, Unwritten, YoungInv, Young, Refused
  <1>6. OneAtATime'
    BY DEF Inv, OneAtATime, Kept, Running, Refused
  <1>. QED BY <1>1, <1>2, <1>3, <1>4, <1>5, <1>6 DEF Inv

LEMMA RegisterKeeps ==
    ASSUME Inv, NEW s \in Starts, Register(s)
    PROVE  Inv'
  <1>1. TypeOK'
    BY DEF Inv, TypeOK, LiveStates, Register
  <1>2. GameInv'
    BY DEF Inv, TypeOK, GameInv, Running, Register
  <1>3. TaskInv'
    BY DEF Inv, TypeOK, TaskInv, LiveStates, Live, Register
  <1>4. YoungInv'
    BY DEF Inv, TypeOK, YoungInv, Young, Running, Register
  <1>5. OwnInv'
    <2>1. /\ \A t \in Starts : t # s => procs'[t] = {} \/ t \in lost'
          /\ s \in processes' /\ task'[s] \in {"up", "failing"} /\ state[s] = "starting"
      BY DEF Inv, TypeOK, YoungInv, Young, Register
    <2>2. \A t \in exits' : procs'[t] = {}
      BY DEF Inv, OwnInv, Register
    <2>3. game[s] \in Apps /\ task'[s] = "up" => Recorded(s)'
      BY OwnershipAssumption DEF Inv, TypeOK, Recorded, Register
    <2>4. Recorded(s)' \/ Unwritten(s)'
      <3>1. task'[s] = "up" => game[s] = Test \/ game[s] \in Apps
        BY DEF Inv, TypeOK, GameInv, Register
      <3>2. task'[s] = "failing" => state'[s] = "starting"
        BY <2>1 DEF Inv, TypeOK, Register
      <3>. QED BY <2>1, <2>3, <3>1, <3>2 DEF Unwritten, Register
    <2>5. procs[s] # {} /\ s \notin lost /\ rebuilding => game[s] = Test
      BY DEF Inv, OwnInv
    <2>. QED BY <2>1, <2>2, <2>3, <2>4, <2>5 DEF OwnInv, Register
  <1>6. OneAtATime'
    BY DEF Inv, OneAtATime, Kept, Running, Register
  <1>. QED BY <1>1, <1>2, <1>3, <1>4, <1>5, <1>6 DEF Inv

LEMMA ConnectsKeeps ==
    ASSUME Inv, NEW s \in Starts, Connects(s)
    PROVE  Inv'
  <1>1. TypeOK'
    BY DEF Inv, TypeOK, LiveStates, Connects
  <1>2. GameInv'
    BY DEF Inv, GameInv, Running, Connects
  <1>3. TaskInv'
    BY DEF Inv, TaskInv, LiveStates, Live, Connects
  <1>4. YoungInv'
    BY DEF Inv, YoungInv, Young, Running, Connects
  <1>5. OwnInv'
    BY DEF Inv, OwnInv, Recorded, Unwritten, Connects
  <1>6. OneAtATime'
    BY DEF Inv, OneAtATime, Kept, Running, Connects
  <1>. QED BY <1>1, <1>2, <1>3, <1>4, <1>5, <1>6 DEF Inv

LEMMA GivesKeeps ==
    ASSUME Inv, NEW s \in Starts, Gives(s)
    PROVE  Inv'
  <1>1. TypeOK'
    BY DEF Inv, TypeOK, Gives
  <1>2. GameInv'
    BY DEF Inv, GameInv, Running, Gives
  <1>3. TaskInv'
    BY DEF Inv, TaskInv, Live, Gives
  <1>4. YoungInv'
    BY DEF Inv, YoungInv, Young, Running, Gives
  <1>5. OwnInv'
    BY DEF Inv, OwnInv, Recorded, Unwritten, Gives
  <1>6. OneAtATime'
    BY DEF Inv, OneAtATime, Kept, Running, Gives
  <1>. QED BY <1>1, <1>2, <1>3, <1>4, <1>5, <1>6 DEF Inv

LEMMA EndsKeeps ==
    ASSUME Inv, NEW s \in Starts, Ends(s)
    PROVE  Inv'
  <1>1. TaskInv'
    BY DEF Inv, TypeOK, TaskInv, LiveStates, Ends
  <1>2. /\ state' \in [Starts -> {"none", "stopped", "failed"} \cup LiveStates]
        /\ task' \in [Starts -> {"none", "starting", "forked", "up", "ending", "failing", "cancelled"}]
        /\ stopping' \in [Starts -> {"no", "settling", "waiting"}]
    BY DEF Inv, TypeOK, Ends
  <1>3. /\ \A t \in Starts : t # s => task'[t] = task[t] /\ state'[t] = state[t]
        /\ task'[s] \in {"failing", "none"} /\ ~Young(s) /\ state[s] # "none"
        /\ s \in processes' => state'[s] \in {state[s], "failed"}
    BY DEF Inv, TypeOK, TaskInv, LiveStates, Young, Ends
  <1>4. s \notin processes => procs[s] = {} \/ s \in lost
    BY DEF Inv, OwnInv, Recorded, Unwritten, Ends
  <1>. QED BY <1>1, <1>2, <1>3, <1>4, EndKeeps DEF Ends

LEMMA FailsKeeps ==
    ASSUME Inv, NEW s \in Starts, Fails(s)
    PROVE  Inv'
  <1>1. TaskInv'
    BY DEF Inv, TypeOK, TaskInv, LiveStates, Fails
  <1>2. /\ state' \in [Starts -> {"none", "stopped", "failed"} \cup LiveStates]
        /\ task' \in [Starts -> {"none", "starting", "forked", "up", "ending", "failing", "cancelled"}]
        /\ stopping' \in [Starts -> {"no", "settling", "waiting"}]
    BY DEF Inv, TypeOK, Fails
  <1>3. /\ \A t \in Starts : t # s => task'[t] = task[t] /\ state'[t] = state[t]
        /\ task'[s] \in {"failing", "none"} /\ ~Young(s) /\ state[s] # "none"
        /\ s \in processes' => state'[s] \in {state[s], "failed"}
    BY DEF Inv, TaskInv, LiveStates, Young, Fails
  <1>4. s \notin processes => procs[s] = {} \/ s \in lost
    BY DEF Inv, OwnInv, Recorded, Unwritten, Fails
  <1>. QED BY <1>1, <1>2, <1>3, <1>4, EndKeeps DEF Fails

LEMMA StopBeginsKeeps ==
    ASSUME Inv, NEW s \in Starts, StopBegins(s)
    PROVE  Inv'
  <1>1. TypeOK'
    BY DEF Inv, TypeOK, StopBegins
  <1>2. GameInv'
    BY DEF Inv, GameInv, Running, StopBegins
  <1>3. TaskInv'
    BY DEF Inv, TaskInv, Live, StopBegins
  <1>4. YoungInv'
    BY DEF Inv, YoungInv, Young, Running, StopBegins
  <1>5. OwnInv'
    BY DEF Inv, OwnInv, Recorded, Unwritten, StopBegins
  <1>6. OneAtATime'
    BY DEF Inv, OneAtATime, Kept, Running, StopBegins
  <1>. QED BY <1>1, <1>2, <1>3, <1>4, <1>5, <1>6 DEF Inv

LEMMA StopCancelsKeeps ==
    ASSUME Inv, NEW s \in Starts, StopCancels(s)
    PROVE  Inv'
  <1>1. TypeOK'
    BY DEF Inv, TypeOK, StopCancels, Orphans
  <1>2. GameInv'
    BY DEF Inv, GameInv, Running, StopCancels, Orphans
  <1>3. TaskInv'
    BY DEF Inv, TypeOK, TaskInv, LiveStates, StopCancels, Orphans
  <1>4. YoungInv'
    BY DEF Inv, YoungInv, Young, Running, StopCancels, Orphans
  <1>5. OwnInv'
    BY DEF Inv, TypeOK, YoungInv, Young, OwnInv, Recorded, Unwritten, StopCancels, Orphans
  <1>6. OneAtATime'
    BY DEF Inv, OneAtATime, Kept, Running, StopCancels, Orphans
  <1>. QED BY <1>1, <1>2, <1>3, <1>4, <1>5, <1>6 DEF Inv

LEMMA CancelledKeeps ==
    ASSUME Inv, NEW s \in Starts, Cancelled(s)
    PROVE  Inv'
  <1>1. TaskInv'
    BY DEF Inv, TypeOK, TaskInv, LiveStates, Cancelled
  <1>2. /\ state' \in [Starts -> {"none", "stopped", "failed"} \cup LiveStates]
        /\ task' = [task EXCEPT ![s] = "none"] /\ task[s] = "cancelled"
        /\ UNCHANGED <<game, asked, stopping, closing, record, retiring, rebuilding, lost>>
    BY DEF Inv, TypeOK, Cancelled
  <1>3. CASE closing /\ game[s] \in Apps
    <2>1. UNCHANGED <<procs, state, exits>> /\ processes' = processes \ {s}
      BY <1>3 DEF Cancelled
    <2>2. TypeOK' /\ GameInv' /\ OneAtATime'
      BY <1>2, <2>1 DEF Inv, TypeOK, GameInv, OneAtATime, Kept, Running
    <2>3. YoungInv'
      BY <1>2, <2>1 DEF Inv, YoungInv, Young
    <2>4. OwnInv'
      BY <1>2, <1>3, <2>1 DEF Inv, TypeOK, OwnInv, Recorded, Unwritten
    <2>. QED BY <1>1, <2>2, <2>3, <2>4 DEF Inv
  <1>4. CASE ~(closing /\ game[s] \in Apps)
    <2>1. StopProcess(s) /\ \A t \in Starts : t # s => task'[t] = task[t] /\ state'[t] = state[t]
      BY <1>2, <1>4 DEF Cancelled
    <2>2. (s \in processes' => state'[s] \in {state[s], "failed"})
          /\ task'[s] = "none" /\ ~Young(s) /\ state[s] # "none"
          /\ task' \in [Starts -> {"none", "starting", "forked", "up", "ending", "failing", "cancelled"}]
      BY <1>2, <1>4 DEF Inv, TypeOK, TaskInv, LiveStates, Young, Cancelled
    <2>3. (s \notin processes => procs[s] = {} \/ s \in lost) /\ stopping' \in [Starts -> {"no", "settling", "waiting"}]
      BY <1>2 DEF Inv, TypeOK, OwnInv, Recorded, Unwritten
    <2>. QED BY <1>1, <1>2, <2>1, <2>2, <2>3, EndKeeps
  <1>. QED BY <1>3, <1>4

LEMMA StopEndsKeeps ==
    ASSUME Inv, NEW s \in Starts, StopEnds(s)
    PROVE  Inv'
  <1>1. TaskInv'
    BY DEF Inv, TypeOK, TaskInv, StopEnds
  <1>2. /\ state' \in [Starts -> {"none", "stopped", "failed"} \cup LiveStates]
        /\ task' \in [Starts -> {"none", "starting", "forked", "up", "ending", "failing", "cancelled"}]
        /\ stopping' \in [Starts -> {"no", "settling", "waiting"}]
    BY DEF Inv, TypeOK, StopEnds
  <1>3. /\ \A t \in Starts : t # s => task'[t] = task[t] /\ state'[t] = state[t]
        /\ task'[s] \in {"failing", "none"} /\ ~Young(s) /\ state[s] # "none"
        /\ s \in processes' => state'[s] \in {state[s], "failed"}
    BY DEF Inv, TypeOK, TaskInv, Young, StopEnds
  <1>4. s \notin processes => procs[s] = {} \/ s \in lost
    BY DEF Inv, OwnInv, Recorded, Unwritten, TaskInv, StopEnds
  <1>. QED BY <1>1, <1>2, <1>3, <1>4, EndKeeps DEF StopEnds

LEMMA RecoverKeeps ==
    ASSUME Inv, NEW a \in Apps, Recover(a)
    PROVE  Inv'
  <1>1. TypeOK'
    BY DEF Inv, TypeOK, Recover, Recovered, GoneRecord
  <1>2. GameInv'
    BY OwnershipAssumption DEF Inv, GameInv, Running, Recover, Recovered
  <1>3. TaskInv'
    BY DEF Inv, TaskInv, Recover
  <1>4. YoungInv'
    BY OwnershipAssumption DEF Inv, YoungInv, Young, Running, Recover, Recovered
  <1>5. OwnInv'
    BY OwnershipAssumption DEF Inv, OwnInv, Recorded, Unwritten, Recover, Recovered, GoneRecord
  <1>6. OneAtATime'
    BY DEF Inv, OneAtATime, Kept, Running, Recover
  <1>. QED BY <1>1, <1>2, <1>3, <1>4, <1>5, <1>6 DEF Inv

LEMMA ReleasedKeeps ==
    ASSUME Inv, Released
    PROVE  Inv'
  <1>1. TypeOK'
    BY DEF Inv, TypeOK, Released
  <1>2. GameInv'
    BY DEF Inv, GameInv, Released
  <1>3. TaskInv'
    BY DEF Inv, TaskInv, Released
  <1>4. YoungInv'
    BY DEF Inv, YoungInv, Young, Released
  <1>5. OwnInv'
    BY DEF Inv, OwnInv, Running, Released
  <1>6. OneAtATime'
    BY DEF OneAtATime, Kept, Running, Released
  <1>. QED BY <1>1, <1>2, <1>3, <1>4, <1>5, <1>6 DEF Inv

LEMMA RetireBeginsKeeps ==
    ASSUME Inv, NEW a \in Apps, RetireBegins(a)
    PROVE  Inv'
  <1>1. TypeOK'
    BY DEF Inv, TypeOK, Running, RetireBegins, memory
  <1>2. GameInv'
    BY OwnershipAssumption DEF Inv, GameInv, RetireBegins, memory
  <1>3. TaskInv'
    BY DEF Inv, TaskInv, RetireBegins, memory
  <1>4. YoungInv'
    BY DEF Inv, YoungInv, Young, RetireBegins, memory
  <1>5. OwnInv'
    BY DEF Inv, OwnInv, Recorded, Unwritten, RetireBegins, memory
  <1>6. OneAtATime'
    BY DEF Inv, OneAtATime, Kept, Running, RetireBegins
  <1>. QED BY <1>1, <1>2, <1>3, <1>4, <1>5, <1>6 DEF Inv

LEMMA RetireEndsKeeps ==
    ASSUME Inv, NEW a \in Apps, RetireEnds(a)
    PROVE  Inv'
  <1>1. TypeOK'
    BY DEF Inv, TypeOK, RetireEnds
  <1>2. GameInv'
    BY OwnershipAssumption DEF Inv, TypeOK, GameInv, Running, RetireEnds
  <1>3. TaskInv'
    BY DEF Inv, TaskInv, Live, RetireEnds
  <1>4. YoungInv'
    BY OwnershipAssumption DEF Inv, TypeOK, YoungInv, Young, Running, RetireEnds
  <1>5. OwnInv'
    BY OwnershipAssumption DEF Inv, TypeOK, OwnInv, Recorded, Unwritten, RetireEnds
  <1>6. OneAtATime'
    BY DEF Inv, TypeOK, OneAtATime, Kept, Running, RetireEnds
  <1>. QED BY <1>1, <1>2, <1>3, <1>4, <1>5, <1>6 DEF Inv

LEMMA CorruptKeeps ==
    ASSUME Inv, NEW a \in Apps, Corrupt(a)
    PROVE  Inv'
  <1>1. TypeOK'
    BY DEF Inv, TypeOK, Corrupt, memory
  <1>2. GameInv'
    BY OwnershipAssumption DEF Inv, GameInv, Running, Corrupt, memory
  <1>3. TaskInv'
    BY DEF Inv, TaskInv, Live, Corrupt, memory
  <1>4. YoungInv'
    BY OwnershipAssumption DEF Inv, YoungInv, Young, Running, Corrupt, memory
  <1>5. OwnInv'
    BY DEF Inv, OwnInv, Recorded, Unwritten, Corrupt, memory
  <1>6. OneAtATime'
    BY DEF Inv, OneAtATime, Kept, Running, Corrupt
  <1>. QED BY <1>1, <1>2, <1>3, <1>4, <1>5, <1>6 DEF Inv

LEMMA RepairKeeps ==
    ASSUME Inv, NEW a \in Apps, Repair(a)
    PROVE  Inv'
  <1>1. TypeOK'
    BY DEF Inv, TypeOK, Repair, Recovered
  <1>2. GameInv'
    BY OwnershipAssumption DEF Inv, GameInv, Repair, Recovered
  <1>3. TaskInv'
    BY DEF Inv, TaskInv, Repair
  <1>4. YoungInv'
    BY OwnershipAssumption DEF Inv, YoungInv, Young, Repair, Recovered
  <1>5. OwnInv'
    BY DEF Inv, OwnInv, Running, Repair
  <1>6. OneAtATime'
    BY DEF OneAtATime, Kept, Running, Repair
  <1>. QED BY <1>1, <1>2, <1>3, <1>4, <1>5, <1>6 DEF Inv

LEMMA RebuildBeginsKeeps ==
    ASSUME Inv, RebuildBegins
    PROVE  Inv'
  <1>1. TypeOK'
    BY DEF Inv, TypeOK, RebuildBegins
  <1>2. GameInv'
    BY DEF Inv, GameInv, Running, RebuildBegins
  <1>3. TaskInv'
    BY DEF Inv, TaskInv, Live, RebuildBegins
  <1>4. YoungInv'
    BY DEF Inv, YoungInv, Young, Running, RebuildBegins
  <1>5. OwnInv'
    BY Free DEF Inv, OwnInv, Kept, Running, RebuildBegins
  <1>6. OneAtATime'
    BY DEF Inv, OneAtATime, Kept, Running, RebuildBegins
  <1>. QED BY <1>1, <1>2, <1>3, <1>4, <1>5, <1>6 DEF Inv

LEMMA RebuildEndsKeeps ==
    ASSUME Inv, RebuildEnds
    PROVE  Inv'
  <1>1. TypeOK'
    BY DEF Inv, TypeOK, RebuildEnds, memory
  <1>2. GameInv'
    BY DEF Inv, GameInv, Running, RebuildEnds, memory
  <1>3. TaskInv'
    BY DEF Inv, TaskInv, Live, RebuildEnds, memory
  <1>4. YoungInv'
    BY DEF Inv, YoungInv, Young, Running, RebuildEnds, memory
  <1>5. OwnInv'
    BY DEF Inv, OwnInv, Recorded, Unwritten, RebuildEnds, memory
  <1>6. OneAtATime'
    BY DEF Inv, OneAtATime, Kept, Running, RebuildEnds
  <1>. QED BY <1>1, <1>2, <1>3, <1>4, <1>5, <1>6 DEF Inv

LEMMA BeginCloseKeeps ==
    ASSUME Inv, BeginClose
    PROVE  Inv'
  <1>1. TypeOK'
    BY DEF Inv, TypeOK, BeginClose
  <1>2. GameInv'
    BY DEF Inv, GameInv, Running, BeginClose
  <1>3. TaskInv'
    BY DEF Inv, TaskInv, Live, BeginClose
  <1>4. YoungInv'
    BY DEF Inv, YoungInv, Young, Running, BeginClose
  <1>5. OwnInv'
    <2>1. \A t \in Starts : procs'[t] \subseteq procs[t]
      BY DEF Inv, TypeOK, BeginClose
    <2>. QED BY <2>1 DEF Inv, TypeOK, OwnInv, Recorded, Unwritten, BeginClose
  <1>6. OneAtATime'
    BY DEF Inv, OneAtATime, Kept, Running, BeginClose
  <1>. QED BY <1>1, <1>2, <1>3, <1>4, <1>5, <1>6 DEF Inv

LEMMA CloseCancelsKeeps ==
    ASSUME Inv, NEW s \in Starts, CloseCancels(s)
    PROVE  Inv'
  <1>1. TypeOK'
    BY DEF Inv, TypeOK, CloseCancels, Orphans
  <1>2. GameInv'
    BY DEF Inv, GameInv, Running, CloseCancels, Orphans
  <1>3. TaskInv'
    BY DEF Inv, TypeOK, TaskInv, LiveStates, CloseCancels, Orphans
  <1>4. YoungInv'
    BY DEF Inv, YoungInv, Young, Running, CloseCancels, Orphans
  <1>5. OwnInv'
    BY DEF Inv, TypeOK, OwnInv, Recorded, Unwritten, CloseCancels, Orphans
  <1>6. OneAtATime'
    BY DEF Inv, OneAtATime, Kept, Running, CloseCancels, Orphans
  <1>. QED BY <1>1, <1>2, <1>3, <1>4, <1>5, <1>6 DEF Inv

LEMMA ReloadKeeps ==
    ASSUME Inv, Reload
    PROVE  Inv'
  <1>a. procs' \in [Starts -> SUBSET Parts] /\ \A s \in Starts : procs'[s] \subseteq procs[s]
    BY DEF Reload, Inv, TypeOK, Parts
  <1>1. TypeOK'
    BY <1>a DEF Inv, TypeOK, Reload, Forgets
  <1>2. GameInv'
    BY OwnershipAssumption DEF Inv, GameInv, Reload, Forgets
  <1>3. TaskInv'
    BY DEF TaskInv, LiveStates, Live, Reload, Forgets
  <1>4. YoungInv'
    BY DEF YoungInv, Young, Reload, Forgets
  <1>5. OwnInv'
    <2>1. ASSUME NEW s \in Starts, procs'[s] # {}, s \notin lost'
          PROVE  Recorded(s)
      BY <1>a, <2>1 DEF Reload, Inv, OwnInv
    <2>2. ASSUME NEW s \in Starts, Recorded(s) PROVE Recorded(s)'
      BY <2>2 DEF Recorded, Reload
    <2>3. exits' = {} /\ ~rebuilding' /\ \A s \in Starts : task'[s] = "none" /\ state'[s] = "none"
      BY DEF Reload, Forgets
    <2>. QED BY <2>1, <2>2, <2>3 DEF OwnInv
  <1>6. OneAtATime'
    BY DEF Inv, OneAtATime, Kept, Running, Reload
  <1>. QED BY <1>1, <1>2, <1>3, <1>4, <1>5, <1>6 DEF Inv

LEMMA DiesKeeps ==
    ASSUME Inv, Dies
    PROVE  Inv'
  <1>1. TypeOK'
    BY DEF Inv, TypeOK, Running, Dies, Forgets
  <1>2. GameInv'
    BY OwnershipAssumption DEF Inv, GameInv, Running, Dies, Forgets
  <1>3. TaskInv'
    BY DEF TaskInv, LiveStates, Live, Dies, Forgets
  <1>4. YoungInv'
    BY DEF YoungInv, Young, Running, Dies, Forgets
  <1>5. OwnInv'
    <2>1. ASSUME NEW s \in Starts, procs[s] # {}, s \notin lost'
          PROVE  Recorded(s)'
      <3>1. Recorded(s)
        BY <2>1 DEF Dies, Running, Inv, OwnInv
      <3>. QED BY <3>1 DEF Recorded, Dies
    <2>. QED BY <2>1 DEF OwnInv, Dies, Forgets
  <1>6. OneAtATime'
    BY DEF Inv, OneAtATime, Kept, Running, Dies
  <1>. QED BY <1>1, <1>2, <1>3, <1>4, <1>5, <1>6 DEF Inv

-----------------------------------------------------------------------------

LEMMA NextKeeps ==
    ASSUME Inv, [Next]_vars
    PROVE  Inv'
  <1>1. CASE UNCHANGED vars
    BY <1>1
       DEF Inv, TypeOK, GameInv, TaskInv, YoungInv, Young, OwnInv, Recorded, Unwritten, OneAtATime, Kept, Running, vars, memory
  <1>2. ASSUME NEW s \in Starts, Launch(s) PROVE Inv'
    BY <1>2, BeginKeeps, ForkKeeps, RefusedKeeps, RegisterKeeps, ConnectsKeeps, GivesKeeps, EndsKeeps,
       FailsKeeps, StopBeginsKeeps, StopCancelsKeeps, CancelledKeeps, StopEndsKeeps, CloseCancelsKeeps
       DEF Launch
  <1>3. ASSUME NEW s \in Starts, Spreads(s) \/ Exits(s) PROVE Inv'
    BY <1>3, SpreadsKeeps, ExitsKeeps
  <1>4. ASSUME NEW a \in Apps, Records(a) PROVE Inv'
    BY <1>4, RecoverKeeps, RetireBeginsKeeps, RetireEndsKeeps, CorruptKeeps, RepairKeeps DEF Records
  <1>5. CASE Released \/ RebuildBegins \/ RebuildEnds \/ BeginClose \/ Reload \/ Dies
    BY <1>5, ReleasedKeeps, RebuildBeginsKeeps, RebuildEndsKeeps, BeginCloseKeeps, ReloadKeeps, DiesKeeps
  <1>. QED BY <1>1, <1>2, <1>3, <1>4, <1>5 DEF Next

LEMMA Invariance == Spec => []Inv
  <1>1. Inv /\ [Next]_vars => Inv'
    BY NextKeeps
  <1>. QED BY <1>1, StartsWell, PTL DEF Spec

\* The state of the supervisor and of its records has its type.
THEOREM TypeCorrect == Spec => []TypeOK
  <1>1. Inv => TypeOK
    BY DEF Inv
  <1>. QED BY <1>1, Invariance, PTL

\* Of the launches that were not lost at most one has processes at any time, whichever
\* games they are for and wherever the backend was stopped or killed in between
\* (_assert_launcher_is_free).
THEOREM OnlyOneRuns == Spec => []OneAtATime
  <1>1. Inv => OneAtATime
    BY DEF Inv
  <1>. QED BY <1>1, Invariance, PTL

\* Whatever runs is in the supervisor's hands, about to be, or in a record that the
\* next backend reads.  A kill, a crash, an unload and a cancellation are steps like
\* any other here: they can lose a self-test and a launch whose record was not
\* written, and never one whose operation had left "starting" without failing
\* (_run, _write_record, close, recover_owned_launch).
THEOREM NothingUnowned == Spec => []NoneUnowned
  <1>1. Inv => NoneUnowned
    BY DEF Inv, OwnInv, NoneUnowned, Kept, Running
  <1>. QED BY <1>1, Invariance, PTL

\* An exit is published of a launch that has no process left, and never gets one
\* again (_stop_process, confirmed_exit_epoch).
THEOREM ExitsArePublishedTruly == Spec => []ExitsAreReal
  <1>1. Inv => ExitsAreReal
    BY DEF Inv, TypeOK, OwnInv, Recorded, Unwritten, ExitsAreReal
  <1>. QED BY <1>1, Invariance, PTL

\* While the private runtime tree is replaced no Cheat Engine of a game that was not
\* lost runs from it: the rebuild and the fork share a lock and both look (prepare_private_ce_runtime).
THEOREM NoGameRunsInRebuild == Spec => []NoGameInRebuild
  <1>1. Inv => NoGameInRebuild
    BY DEF Inv, OwnInv, NoGameInRebuild, Kept, Running
  <1>. QED BY <1>1, Invariance, PTL

\* Once nothing runs and nothing is under way the launcher is free again, or a
\* stop that has been asked for will free it (has_live_owned_launch).
THEOREM DoubtEnds == Spec => []NeverLatched
  <1>1. ASSUME Inv, ~closing, Running = {},
               \A s \in Starts : task[s] = "none" /\ stopping[s] = "no",
               \A a \in Apps : record[a] # Invalid
        PROVE  ~HasLive \/ \E s \in Live : s \in asked
    <2>1. ASSUME NEW s \in Live PROVE s \in asked
      BY <1>1 DEF Inv, TaskInv, Live
    <2>2. \A s \in Starts : procs[s] = {}
      BY <1>1 DEF Running
    <2>3. \A s \in processes : "leader" \notin procs[s]
      BY <1>1, <2>2 DEF Inv, TypeOK
    <2>4. \A a \in Apps : record[a] # Nobody => GoneRecord(a)
      BY <1>1, <2>2 DEF Inv, TypeOK, GoneRecord
    <2>. QED BY <1>1, <2>1, <2>3, <2>4 DEF HasLive
  <1>2. Inv => NeverLatched
    BY <1>1 DEF NeverLatched
  <1>. QED BY <1>2, Invariance, PTL

-----------------------------------------------------------------------------
(* Supervision: when Cheat Engine is ended.                                 *)

\* What is said of the target is said of the one watched: the session was not moved,
\* or was not looked up in its record since.
Settled == moved => reloads = 0

WorldInv ==
    /\ hidden \subseteq Up
    /\ Up # {} => around

EvidenceInv ==
    /\ Settled /\ seen => watching \in sighted
    /\ pc = "mark" => watching \in sighted
    /\ left <= empty

\* A session that stays where it is marks its own target; the record is read again
\* after a reload only.
RecordInv ==
    /\ ~moved => /\ pointed = Target /\ watching = Target
                 /\ rec.seen => Target \in sighted
    /\ ~loaded => reloads > 0

WatchInv == WatchTypeOK /\ WorldInv /\ EvidenceInv /\ RecordInv

-----------------------------------------------------------------------------

LEMMA CountedIs ==
    ASSUME NEW n \in Nat, NEW k \in Nat, n <= k
    PROVE  /\ Counted(n) \in Nat /\ Counted(k) \in Nat
           /\ Counted(n) <= Counted(k) /\ Counted(n) <= n + 1
  BY SupervisionAssumption DEF Counted

\* An absence is the absence of the very process watched.
LEMMA AbsentIsAbsent ==
    ASSUME NEW ok, TargetState(ok) = "absent"
    PROVE  watching \notin Up
  BY DEF TargetState

\* The session being all that is left, or nothing, is none of the game's programs.
LEMMA LeftIsEmpty ==
    ASSUME WorldInv, NEW ok, GameState(ok) \in {"left", "gone"}
    PROVE  Up = {} /\ (GameState(ok) = "gone" => ~around)
  BY DEF GameState, WorldInv

LEMMA WatchStarts == WatchInit => WatchInv
  <1>. SUFFICES ASSUME WatchInit PROVE WatchInv
    OBVIOUS
  <1>1. PICK up \in SUBSET Runnable :
          /\ run = [p \in Programs |-> IF p \in up THEN 1 ELSE 0]
          /\ seen = (Target \in up) /\ gameSeen = (up # {}) /\ sighted = up
    BY DEF WatchInit
  <1>2. WatchTypeOK
    <2>1. run \in [Programs -> Nat] /\ sighted \subseteq Programs
      BY <1>1, SupervisionAssumption
    <2>2. seen \in BOOLEAN /\ gameSeen \in BOOLEAN
      BY <1>1
    <2>3. tick \in 0..Interval - 1 /\ pointed \in Programs /\ watching \in Programs /\ hidden \subseteq Programs
      BY SupervisionAssumption DEF WatchInit
    <2>4. rec \in [target : {Target}, seen : BOOLEAN]
      BY <2>2 DEF WatchInit
    <2>5. starts \in Nat /\ known \in Nat /\ left \in Nat /\ reloads \in Nat /\ refused \in Nat /\ empty \in Nat
      BY DEF WatchInit
    <2>6. /\ around \in BOOLEAN /\ base \in BOOLEAN /\ loaded \in BOOLEAN /\ wasGone \in BOOLEAN
          /\ ce = "running" /\ mode = "attached" /\ pc = "sleep" /\ moved = FALSE
      BY DEF WatchInit
    <2>. QED BY <2>1, <2>2, <2>3, <2>4, <2>5, <2>6 DEF WatchTypeOK
  <1>3. WorldInv
    BY DEF WatchInit, WorldInv
  <1>4. EvidenceInv
    <2>1. seen => Target \in sighted
      BY <1>1
    <2>2. watching = Target /\ pc = "sleep" /\ left <= empty
      BY DEF WatchInit
    <2>. QED BY <2>1, <2>2 DEF EvidenceInv, Settled
  <1>5. RecordInv
    BY <1>1 DEF WatchInit, RecordInv
  <1>. QED BY <1>2, <1>3, <1>4, <1>5 DEF WatchInv

-----------------------------------------------------------------------------
(* The game and the user.                                                   *)

\* A step of the game's leaves the supervisor where it is.
LEMMA WorldKeeps ==
    ASSUME WatchInv, UNCHANGED others,
           run' \in [Programs -> Nat], starts' \in Nat, hidden' \subseteq Programs,
           around' \in BOOLEAN, base' \in BOOLEAN, WorldInv'
    PROVE  WatchInv'
  <1>1. WatchTypeOK'
    BY DEF WatchInv, WatchTypeOK, others, loopMemory, history
  <1>2. EvidenceInv' /\ RecordInv'
    BY DEF WatchInv, EvidenceInv, RecordInv, Settled, others, loopMemory, history
  <1>. QED BY <1>1, <1>2 DEF WatchInv

LEMMA StartProgramKeeps ==
    ASSUME WatchInv, NEW p \in Runnable, StartProgram(p)
    PROVE  WatchInv'
  <1>1. p \in Programs /\ starts' \in Nat /\ starts' > 0
    BY SupervisionAssumption DEF WatchInv, WatchTypeOK, StartProgram
  <1>2. run' \in [Programs -> Nat] /\ \A q \in Programs : run[q] > 0 => run'[q] > 0
    BY <1>1 DEF WatchInv, WatchTypeOK, StartProgram
  <1>3. WorldInv'
    BY <1>2 DEF WatchInv, WorldInv, Up, StartProgram
  <1>. QED BY <1>1, <1>2, <1>3, WorldKeeps DEF StartProgram, WatchInv, WatchTypeOK

LEMMA ExitProgramKeeps ==
    ASSUME WatchInv, NEW p \in Runnable, ExitProgram(p)
    PROVE  WatchInv'
  <1>1. p \in Programs
    BY SupervisionAssumption
  <1>2. /\ run' \in [Programs -> Nat] /\ run'[p] = 0
        /\ \A q \in Programs : q # p => run'[q] = run[q]
    BY <1>1 DEF WatchInv, WatchTypeOK, ExitProgram
  <1>3. Up' = Up \ {p}
    BY <1>2 DEF Up
  <1>4. WorldInv'
    BY <1>3 DEF WatchInv, WorldInv, ExitProgram
  <1>. QED BY <1>2, <1>4, WorldKeeps DEF ExitProgram, WatchInv, WatchTypeOK

LEMMA OtherGameKeeps ==
    ASSUME WatchInv, BaselineExits \/ SessionEnds \/ (\E p \in Runnable : Refuse(p))
    PROVE  WatchInv'
  <1>1. CASE BaselineExits
    <2>1. WorldInv'
      BY <1>1 DEF WatchInv, WorldInv, Up, BaselineExits
    <2>. QED BY <1>1, <2>1, WorldKeeps DEF BaselineExits, WatchInv, WatchTypeOK
  <1>2. CASE SessionEnds
    <2>1. WorldInv'
      BY <1>2 DEF WatchInv, WorldInv, Up, SessionEnds
    <2>. QED BY <1>2, <2>1, WorldKeeps DEF SessionEnds, WatchInv, WatchTypeOK
  <1>3. ASSUME NEW p \in Runnable, Refuse(p) PROVE WatchInv'
    <2>1. p \in Programs /\ hidden' \subseteq hidden \cup {p} /\ p \in Up
      BY <1>3, SupervisionAssumption DEF Refuse, Up
    <2>2. WorldInv'
      BY <1>3, <2>1 DEF WatchInv, WorldInv, Up, Refuse
    <2>. QED BY <1>3, <2>1, <2>2, WorldKeeps DEF Refuse, WatchInv, WatchTypeOK
  <1>. QED BY <1>1, <1>2, <1>3

LEMMA UserKeeps ==
    ASSUME WatchInv, Leaves \/ (\E p \in Pointable : Retry(p))
    PROVE  WatchInv'
  <1>1. CASE Leaves
    <2>1. WatchTypeOK'
      BY <1>1 DEF WatchInv, WatchTypeOK, Leaves, world, loopMemory, history
    <2>2. WorldInv' /\ EvidenceInv' /\ RecordInv'
      BY <1>1 DEF WatchInv, WorldInv, EvidenceInv, RecordInv, Settled, Up, Leaves, world, loopMemory, history
    <2>. QED BY <2>1, <2>2 DEF WatchInv
  <1>2. ASSUME NEW p \in Pointable, Retry(p) PROVE WatchInv'
    <2>1. WatchTypeOK'
      BY <1>2, SupervisionAssumption DEF WatchInv, WatchTypeOK, Retry, world, loopMemory, history
    <2>2. WorldInv' /\ EvidenceInv'
      BY <1>2 DEF WatchInv, WorldInv, EvidenceInv, Settled, Up, Retry, world, loopMemory, history
    <2>3. RecordInv'
      BY <1>2 DEF WatchInv, RecordInv, Retry, loopMemory, history
    <2>. QED BY <2>1, <2>2, <2>3 DEF WatchInv
  <1>. QED BY <1>1, <1>2

-----------------------------------------------------------------------------
(* The supervisors.                                                         *)

LEMMA LookKeeps ==
    ASSUME WatchInv, Look
    PROVE  WatchInv'
  <1>1. /\ UNCHANGED <<world, ce, pointed, rec, loaded, mode, gameSeen, left, reloads, refused, history>>
        /\ tick' = (tick + 1) % Interval /\ wasGone' = ~base
    BY DEF Look
  <1>2. \/ /\ pc' = "walk" /\ watching' \in {pointed, watching}
           /\ seen' = (seen /\ watching' = watching) /\ known' \in {known, 0}
        \/ UNCHANGED <<pc, watching, seen, known>>
    BY DEF Look
  <1>3. WatchTypeOK'
    <2>1. tick' \in 0..Interval - 1
      BY <1>1, SupervisionAssumption DEF WatchInv, WatchTypeOK
    <2>2. pc' \in {"sleep", "walk", "mark", "end"} /\ watching' \in Programs /\ known' \in Nat
      BY <1>2 DEF WatchInv, WatchTypeOK
    <2>3. seen' \in BOOLEAN /\ wasGone' \in BOOLEAN
      BY <1>1, <1>2 DEF WatchInv, WatchTypeOK
    <2>. QED BY <1>1, <2>1, <2>2, <2>3 DEF WatchInv, WatchTypeOK, world, history
  <1>4. WorldInv'
    BY <1>1 DEF WatchInv, WorldInv, Up, world
  <1>5. EvidenceInv'
    <2>1. seen' => seen /\ watching' = watching
      BY <1>2
    <2>2. pc' = "mark" => pc = "mark" /\ watching' = watching
      BY <1>2
    <2>3. UNCHANGED <<left, empty, sighted>>
      BY <1>1 DEF history
    <2>. QED BY <1>1, <2>1, <2>2, <2>3 DEF WatchInv, EvidenceInv, Settled, history
  <1>6. RecordInv'
    BY <1>1, <1>2 DEF WatchInv, RecordInv, history
  <1>. QED BY <1>3, <1>4, <1>5, <1>6 DEF WatchInv

LEMMA WalkKeeps ==
    ASSUME WatchInv, Walk
    PROVE  WatchInv'
  <1>1. PICK ok \in BOOLEAN :
          /\ refused' = IF ok THEN refused ELSE refused + 1
          /\ known' = IF TargetState(ok) = "present" THEN run[watching]
                      ELSE IF known > 0 /\ run[watching] = known THEN known ELSE 0
          /\ gameSeen' = (gameSeen \/ GameState(ok) = "running")
          /\ left' = IF GameState(ok) = "left" THEN Counted(left) ELSE 0
          /\ seen' = (seen \/ TargetState(ok) = "present")
          /\ pc' \in {"mark", "end", "sleep"}
          /\ pc' = "mark" => TargetState(ok) = "present"
          /\ sighted' = IF TargetState(ok) = "present" THEN sighted \cup {watching} ELSE sighted
          /\ empty' = IF Up = {} THEN Counted(empty) ELSE 0
    BY DEF Walk
  <1>2. UNCHANGED <<world, ce, pointed, rec, loaded, mode, watching, tick, wasGone, reloads, moved>>
    BY DEF Walk
  <1>3. left \in Nat /\ empty \in Nat /\ left <= empty /\ watching \in Programs
    BY DEF WatchInv, WatchTypeOK, EvidenceInv
  <1>4. left' \in Nat /\ empty' \in Nat /\ left' <= empty'
    <2>1. CASE GameState(ok) = "left"
      <3>1. Up = {}
        BY <2>1, LeftIsEmpty DEF WatchInv
      <3>2. left' = Counted(left) /\ empty' = Counted(empty)
        BY <1>1, <2>1, <3>1
      <3>. QED BY <3>2, <1>3, CountedIs
    <2>2. CASE GameState(ok) # "left"
      <3>1. left' = 0
        BY <1>1, <2>2
      <3>2. empty' \in Nat
        BY <1>1, <1>3, CountedIs
      <3>. QED BY <3>1, <3>2
    <2>. QED BY <2>1, <2>2
  <1>5. WatchTypeOK'
    <2>1. refused' \in Nat
      BY <1>1 DEF WatchInv, WatchTypeOK
    <2>2. known' \in Nat
      BY <1>1, <1>3 DEF WatchInv, WatchTypeOK
    <2>3. seen' \in BOOLEAN /\ gameSeen' \in BOOLEAN
      BY <1>1 DEF WatchInv, WatchTypeOK
    <2>4. sighted' \subseteq Programs
      BY <1>1, <1>3 DEF WatchInv, WatchTypeOK
    <2>5. pc' \in {"sleep", "walk", "mark", "end"}
      BY <1>1
    <2>. QED BY <1>2, <1>4, <2>1, <2>2, <2>3, <2>4, <2>5 DEF WatchInv, WatchTypeOK, world
  <1>6. WorldInv'
    BY <1>2 DEF WatchInv, WorldInv, Up, world
  <1>7. EvidenceInv'
    BY <1>1, <1>2, <1>4 DEF WatchInv, EvidenceInv, Settled
  <1>8. RecordInv'
    BY <1>1, <1>2 DEF WatchInv, RecordInv
  <1>. QED BY <1>5, <1>6, <1>7, <1>8 DEF WatchInv

LEMMA MarkKeeps ==
    ASSUME WatchInv, Mark
    PROVE  WatchInv'
  <1>1. /\ UNCHANGED <<world, ce, pointed, loaded, mode, loopMemory, reloads, refused, history>>
        /\ pc = "mark" /\ pc' = "sleep"
        /\ rec' \in {rec, [rec EXCEPT !.seen = TRUE]}
    BY DEF Mark
  <1>2. rec' \in [target : {Target}, seen : BOOLEAN]
    BY <1>1 DEF WatchInv, WatchTypeOK
  <1>3. WatchTypeOK'
    BY <1>1, <1>2 DEF WatchInv, WatchTypeOK, world, loopMemory, history
  <1>4. WorldInv'
    BY <1>1 DEF WatchInv, WorldInv, Up, world
  <1>5. EvidenceInv'
    BY <1>1 DEF WatchInv, EvidenceInv, Settled, loopMemory, history
  <1>6. RecordInv'
    <2>1. ~moved => \/ pointed' = Target /\ watching' = Target /\ Target \in sighted'
                    \/ rec' = rec /\ ~rec.seen
      BY <1>1 DEF WatchInv, RecordInv, EvidenceInv, loopMemory, history
    <2>. QED BY <1>1, <2>1 DEF WatchInv, RecordInv, EvidenceInv, loopMemory, history
  <1>. QED BY <1>3, <1>4, <1>5, <1>6 DEF WatchInv

LEMMA WatchEndKeeps ==
    ASSUME WatchInv, End \/ Unload
    PROVE  WatchInv'
  <1>1. /\ UNCHANGED <<world, pointed, rec, loopMemory, refused, history>>
        /\ mode' = "none" /\ pc' = "sleep" /\ ce' \in {"ended", "running"}
        /\ reloads' \in {reloads, reloads + 1} /\ loaded' \in BOOLEAN
        /\ loaded' = loaded \/ reloads' > 0
    <2>1. CASE End
      BY <2>1 DEF End, WatchInv, WatchTypeOK
    <2>2. CASE Unload
      <3>1. reloads' = reloads + 1 /\ reloads' > 0 /\ loaded' = FALSE /\ ce' = ce /\ ce = "running"
        BY <2>2 DEF Unload, Alive, WatchInv, WatchTypeOK
      <3>. QED BY <2>2, <3>1 DEF Unload
    <2>. QED BY <2>1, <2>2
  <1>2. WatchTypeOK'
    BY <1>1 DEF WatchInv, WatchTypeOK, world, loopMemory, history
  <1>3. WorldInv' /\ RecordInv'
    BY <1>1 DEF WatchInv, WatchTypeOK, WorldInv, RecordInv, Up, world, loopMemory, history
  <1>4. EvidenceInv'
    <2>1. reloads \in Nat /\ (Settled' => Settled)
      BY <1>1 DEF WatchInv, WatchTypeOK, Settled, history
    <2>. QED BY <1>1, <2>1 DEF WatchInv, EvidenceInv, loopMemory, history
  <1>. QED BY <1>2, <1>3, <1>4 DEF WatchInv

LEMMA ResumeKeeps ==
    ASSUME WatchInv, Resume
    PROVE  WatchInv'
  <1>1. /\ UNCHANGED <<world, ce, pointed, rec, reloads, refused, history>>
        /\ loaded = FALSE /\ loaded' = TRUE /\ pc' = "sleep" /\ mode' \in {"recovered", "none"}
        /\ watching' = rec.target /\ seen' = rec.seen /\ gameSeen' = rec.seen
        /\ known' = 0 /\ left' = 0 /\ tick' = 0 /\ wasGone' = FALSE
    BY DEF Resume, WatchInv, WatchTypeOK
  <1>2. rec.target = Target /\ rec.seen \in BOOLEAN
    BY DEF WatchInv, WatchTypeOK
  <1>3. WatchTypeOK'
    <2>1. tick' \in 0..Interval - 1
      BY <1>1, SupervisionAssumption
    <2>. QED BY <1>1, <1>2, <2>1, SupervisionAssumption DEF WatchInv, WatchTypeOK, world, history
  <1>4. Settled => ~moved
    BY <1>1 DEF Settled, WatchInv, WatchTypeOK, RecordInv
  <1>5. WorldInv'
    BY <1>1 DEF WatchInv, WorldInv, Up, world
  <1>6. EvidenceInv' /\ RecordInv'
    BY <1>1, <1>2, <1>4 DEF WatchInv, WatchTypeOK, EvidenceInv, RecordInv, Settled, history
  <1>. QED BY <1>3, <1>5, <1>6 DEF WatchInv

LEMMA WatchStepKeeps == WatchInv /\ [WatchNext]_watchVars => WatchInv'
  <1>. SUFFICES ASSUME WatchInv, [WatchNext]_watchVars PROVE WatchInv'
    OBVIOUS
  <1>1. CASE Look
    BY <1>1, LookKeeps
  <1>2. CASE Walk
    BY <1>2, WalkKeeps
  <1>3. CASE Mark
    BY <1>3, MarkKeeps
  <1>4. CASE End \/ Unload
    BY <1>4, WatchEndKeeps
  <1>5. CASE Resume
    BY <1>5, ResumeKeeps
  <1>6. CASE Game
    BY <1>6, StartProgramKeeps, ExitProgramKeeps, OtherGameKeeps, UserKeeps DEF Game
  <1>7. CASE UNCHANGED watchVars
    <2>1. UNCHANGED <<others, world>>
      BY <1>7 DEF watchVars, others
    <2>2. WorldInv'
      BY <2>1 DEF WatchInv, WorldInv, Up, world
    <2>. QED BY <2>1, <2>2, WorldKeeps DEF WatchInv, WatchTypeOK, world
  <1>. QED BY <1>1, <1>2, <1>3, <1>4, <1>5, <1>6, <1>7 DEF WatchNext

\* What a step that decides an end has looked at.
LEMMA DecidesOnProof ==
    ASSUME WatchInv, WatchNext, pc # "end", pc' = "end", Settled
    PROVE  \/ watching \in sighted \ Up
           \/ Up = {} /\ (~around \/ empty + 1 >= Confirming)
  <1>1. Walk
    BY DEF WatchNext, Game, Look, Mark, End, Unload, Resume, StartProgram, ExitProgram, Refuse,
           BaselineExits, SessionEnds, Leaves, Retry, others
  <1>2. PICK ok \in BOOLEAN :
          /\ ExitIsProved(TargetState(ok), GameState(ok))
          /\ left' = IF GameState(ok) = "left" THEN Counted(left) ELSE 0
    BY <1>1 DEF Walk
  <1>3. watching \notin Up
    BY <1>2, AbsentIsAbsent DEF ExitIsProved
  <1>4. CASE seen
    BY <1>3, <1>4 DEF WatchInv, EvidenceInv
  <1>5. CASE GameState(ok) = "gone"
    BY <1>5, LeftIsEmpty DEF WatchInv
  <1>6. CASE GameState(ok) = "left" /\ left' >= Confirming
    <2>1. Up = {}
      BY <1>6, LeftIsEmpty DEF WatchInv
    <2>2. left \in Nat /\ empty \in Nat /\ left <= empty /\ left' = Counted(left)
      BY <1>2, <1>6 DEF WatchInv, WatchTypeOK, EvidenceInv
    <2>3. left' <= left + 1 /\ left' \in Nat
      BY <2>2, CountedIs
    <2>. QED BY <2>1, <2>2, <2>3, <1>6, SupervisionAssumption
  <1>. QED BY <1>2, <1>4, <1>5, <1>6 DEF ExitIsProved

-----------------------------------------------------------------------------

\* The inductive invariant: what the supervisor believes of its target and of the
\* game's absence is what walks really met.
THEOREM WatchHolds == WatchSpec => []WatchInv
  BY WatchStepKeeps, WatchStarts, PTL DEF WatchSpec

\* _mark_target_seen: the record of a session that stays at its program says that
\* program was seen alive only if a walk saw it.
THEOREM SeenIsTrue == WatchSpec => []SeenWasSeen
  <1>1. WatchInv => SeenWasSeen
    BY DEF WatchInv, WatchTypeOK, RecordInv, SeenWasSeen
  <1>. QED BY <1>1, WatchHolds, PTL

\* target_exit_is_proved: whatever the game's programs do, whatever procfs refuses
\* and whatever program the session is moved to (or through any reloads, where it
\* is not moved), Cheat Engine is ended only for a program seen running and gone,
\* or for a game with nothing left.
THEOREM OnlyOnProof == WatchSpec => EndsOnProof
  <1>1. WatchInv /\ [WatchNext]_watchVars =>
          [pc # "end" /\ pc' = "end" /\ (moved => reloads = 0) =>
             \/ watching \in sighted \ Up
             \/ Up = {} /\ (~around \/ empty + 1 >= Confirming)]_watchVars
    BY DecidesOnProof DEF Settled
  <1>. QED BY <1>1, WatchHolds, PTL DEF WatchSpec, EndsOnProof
=============================================================================
