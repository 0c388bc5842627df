--------------------------- MODULE RunHoldsProofs ---------------------------
(* Theorems about RunHolds, for every set of games, programs and calls.     *)
EXTENDS RunHolds, TLAPS

Active == {"begun", "asked", "ended", "ending"}

\* A call that has begun is about a game.
Located ==
    /\ \A s \in Starts : start[s].pc \notin {"idle", "done"} => start[s].app \in Apps
    /\ \A t \in Stops : stop[t].pc \in Active => stop[t].app \in Apps

TypeInv == TypeOK /\ Located

LEMMA NoHoldType == NoHold \in Hold /\ NoHolds \in [Kinds -> Hold]
  BY DEF NoHold, NoHolds, Hold

\* What a write leaves in the variables of the record.
LEMMA WriteType ==
    ASSUME TypeOK, NEW new \in [Apps -> [Kinds -> Hold]], NEW bad, Write(new, bad)
    PROVE  holds' \in [Apps -> [Kinds -> Hold]] /\ file' \in [Apps -> [Kinds -> Hold]] /\ unsaved' \in BOOLEAN
  BY DEF TypeOK, Write

LEMMA WithoutType ==
    ASSUME TypeOK, NEW a \in Apps, NEW kinds
    PROVE  Without(a, kinds) \in [Apps -> [Kinds -> Hold]]
  <1>1. [k \in Kinds |-> IF k \in kinds THEN NoHold ELSE holds[a][k]] \in [Kinds -> Hold]
    BY NoHoldType DEF TypeOK
  <1>. QED BY <1>1 DEF TypeOK, Without

LEMMA RetiresType ==
    ASSUME TypeOK, NEW a \in Apps, NEW over, Retires(a, over)
    PROVE  holds' \in [Apps -> [Kinds -> Hold]] /\ file' \in [Apps -> [Kinds -> Hold]] /\ unsaved' \in BOOLEAN
  <1>1. CASE over = {}
    BY <1>1 DEF Retires, record, TypeOK
  <1>2. CASE over # {}
    BY <1>2, WriteType, WithoutType DEF Retires
  <1>. QED BY <1>1, <1>2

\* The calls as they begin and as they end.
LEMMA IdleTypes ==
    /\ IdleStart \in StartCall
    /\ IdleStop \in StopCall
    /\ [IdleStart EXCEPT !.pc = "done"] \in StartCall /\ [IdleStart EXCEPT !.pc = "done"].pc = "done"
    /\ \A a \in Apps \cup {Nobody} : DoneStop(a) \in StopCall /\ DoneStop(a).pc = "done" /\ DoneStop(a).app = a
  BY DEF IdleStart, IdleStop, DoneStop, StartCall, StopCall, NoHold, Hold, Intents

LEMMA TakeHoldsType ==
    ASSUME TypeInv, NEW t \in Stops, TakeHolds(t)
    PROVE  holds' \in [Apps -> [Kinds -> Hold]] /\ file' \in [Apps -> [Kinds -> Hold]] /\ unsaved' \in BOOLEAN
  <1>. DEFINE a == stop[t].app
              names == stop[t].names
              lifted == names # {} /\ names \cap up[a] = {}
              autoNames == IF names = {} THEN {Main} ELSE names
              with(d, s) == [holds EXCEPT ![a] = [k \in Kinds |->
                               IF k = "dirty" THEN d ELSE IF stop[t].hold THEN s ELSE @[k]]]
  <1>1. a \in Apps /\ names \in SUBSET Programs /\ autoNames \in SUBSET Programs
    <2>1. stop[t] \in StopCall /\ stop[t].pc = "ended"
      BY DEF TakeHolds, TypeInv, TypeOK
    <2>. QED BY <2>1, RunHoldsAssumption DEF StopCall, TypeInv, Located, Active
  <1>2. \A n \in SUBSET Programs : \A i \in Captured(a, n) :
           [ids |-> i, names |-> n, since |-> t] \in Hold
    <2>1. \A n \in SUBSET Programs : Identities(a, n) \in SUBSET (Programs \X (0..MaxRuns))
      BY <1>1 DEF Identities, Identity, TypeInv, TypeOK
    <2>. QED BY <2>1 DEF Captured, Hold
  <1>3. holds \in [Apps -> [Kinds -> Hold]]
    BY DEF TypeInv, TypeOK
  <1>4. PICK d, s : /\ d \in Hold /\ s \in Hold
                    /\ IF with(d, s) = holds THEN UNCHANGED record ELSE Write(with(d, s), unreadable)
    <2>1. PICK d \in IF stop[t].confirmed THEN {holds[a]["dirty"]}
                      ELSE {[ids |-> i, names |-> names, since |-> t] : i \in Captured(a, names)}
                           \cup (IF lifted THEN {holds[a]["dirty"]} ELSE {}),
               s \in {[ids |-> i, names |-> autoNames, since |-> t] : i \in Captured(a, autoNames)} :
             IF with(d, s) = holds THEN UNCHANGED record ELSE Write(with(d, s), unreadable)
      BY DEF TakeHolds
    <2>2. d \in Hold /\ s \in Hold
      <3>1. holds[a]["dirty"] \in Hold
        BY <1>1, <1>3 DEF Kinds
      <3>2. d = holds[a]["dirty"] \/ \E i \in Captured(a, names) : d = [ids |-> i, names |-> names, since |-> t]
        OBVIOUS
      <3>3. \E i \in Captured(a, autoNames) : s = [ids |-> i, names |-> autoNames, since |-> t]
        OBVIOUS
      <3>4. d \in Hold
        BY <3>1, <3>2, <1>1, <1>2
      <3>5. s \in Hold
        BY <3>3, <1>1, <1>2
      <3>. QED BY <3>4, <3>5
    <2>. QED BY <2>1, <2>2
  <1>5. with(d, s) \in [Apps -> [Kinds -> Hold]]
    BY <1>1, <1>3, <1>4
  <1>6. CASE with(d, s) = holds
    BY <1>4, <1>6 DEF record, TypeInv, TypeOK
  <1>7. CASE with(d, s) # holds
    <2>1. Write(with(d, s), unreadable)
      BY <1>4, <1>7
    <2>. QED BY <2>1, <1>5, WriteType DEF TypeInv
  <1>. QED BY <1>6, <1>7

LEMMA TypeStep == TypeInv /\ [Next]_vars => TypeInv'
  <1>. SUFFICES ASSUME TypeInv, [Next]_vars PROVE TypeInv' OBVIOUS
  <1>. USE DEF game, ghosts, ce, pointer, record, locks, calls
  <1>1. ASSUME NEW a \in Apps, NEW p \in Programs, ProgramStarts(a, p) PROVE TypeInv'
    <2>1. runs' \in [Apps -> [Programs -> 0..MaxRuns]]
      BY <1>1, RunHoldsAssumption DEF ProgramStarts, TypeInv, TypeOK
    <2>. QED BY <1>1, <2>1 DEF ProgramStarts, TypeInv, TypeOK, Located
  <1>2. ASSUME NEW a \in Apps, NEW p \in Programs, ProgramEnds(a, p) PROVE TypeInv'
    BY <1>2 DEF ProgramEnds, TypeInv, TypeOK, Located
  <1>3. ASSUME NEW a \in Apps, NEW p \in Programs, RetryAttach(a, p) PROVE TypeInv'
    BY <1>3 DEF RetryAttach, TypeInv, TypeOK, Located
  <1>4. ASSUME NEW a \in Apps, Retire(a) PROVE TypeInv'
    BY <1>4, RetiresType DEF Retire, TypeInv, TypeOK, Located
  <1>5. ASSUME NEW a \in Apps, Clear(a) PROVE TypeInv'
    BY <1>5, WriteType, WithoutType DEF Clear, TypeInv, TypeOK, Located
  <1>6. ASSUME NEW a \in Apps, Patch(a) PROVE TypeInv'
    BY <1>6 DEF Patch, TypeInv, TypeOK, Located
  <1>7. ASSUME NEW a \in Apps, Connect(a) PROVE TypeInv'
    BY <1>7 DEF Connect, TypeInv, TypeOK, Located
  <1>8. ASSUME NEW a \in Apps, CheatEngineExits(a) PROVE TypeInv'
    BY <1>8 DEF CheatEngineExits, TypeInv, TypeOK, Located
  <1>9. ASSUME NEW a \in Apps, SupervisorDrops(a) PROVE TypeInv'
    BY <1>9 DEF SupervisorDrops, TypeInv, TypeOK, Located
  <1>10. ASSUME NEW a \in Apps, SupervisorStops(a) PROVE TypeInv'
    BY <1>10 DEF SupervisorStops, TypeInv, TypeOK, Located
  <1>11. ASSUME NEW a \in Apps, Fork(a) PROVE TypeInv'
    <2>1. PICK over \in SUBSET Kinds : Retires(a, over)
      BY <1>11 DEF Fork
    <2>2. Main \in Programs
      BY RunHoldsAssumption
    <2>. QED BY <1>11, <2>1, <2>2, RetiresType DEF Fork, TypeInv, TypeOK, Located
  <1>12. ASSUME NEW a \in Apps, ForkRefused(a) PROVE TypeInv'
    BY <1>12 DEF ForkRefused, TypeInv, TypeOK, Located
  <1>13. ASSUME NEW a \in Apps, RetireSession(a) PROVE TypeInv'
    BY <1>13 DEF RetireSession, TypeInv, TypeOK, Located
  <1>14. ASSUME NEW a \in Apps, NEW b \in BOOLEAN, SetConsent(a, b) PROVE TypeInv'
    BY <1>14 DEF SetConsent, TypeInv, TypeOK, Located
  <1>15. ASSUME NEW a \in Apps, NEW b \in BOOLEAN, SetAutoload(a, b) PROVE TypeInv'
    BY <1>15, WriteType, WithoutType DEF SetAutoload, TypeInv, TypeOK, Located
  <1>16. ASSUME NEW s \in Starts, NEW a \in Apps, NEW i \in Intents, StartAsks(s, a, i) PROVE TypeInv'
    <2>1. PICK over \in SUBSET Kinds :
            /\ Retires(a, over)
            /\ start' = [start EXCEPT ![s] =
                 [pc |-> "asked", app |-> a, intent |-> i,
                  answered |-> IF i = "press" /\ "stopped" \notin over THEN holds[a]["stopped"] ELSE NoHold]]
      BY <1>16 DEF StartAsks
    <2>2. holds[a]["stopped"] \in Hold
      BY DEF TypeInv, TypeOK, Kinds
    <2>3. [pc |-> "asked", app |-> a, intent |-> i,
           answered |-> IF i = "press" /\ "stopped" \notin over THEN holds[a]["stopped"] ELSE NoHold] \in StartCall
      BY <2>2, NoHoldType DEF StartCall
    <2>4. start' \in [Starts -> StartCall] /\ \A r \in Starts : r # s => start'[r] = start[r]
      BY <2>1, <2>3 DEF TypeInv, TypeOK
    <2>5. start'[s].app = a
      BY <2>1 DEF TypeInv, TypeOK
    <2>6. TypeOK'
      BY <1>16, <2>1, <2>4, RetiresType DEF StartAsks, TypeInv, TypeOK
    <2>7. Located'
      BY <1>16, <2>4, <2>5 DEF StartAsks, TypeInv, Located
    <2>. QED BY <2>6, <2>7 DEF TypeInv
  <1>17. ASSUME NEW s \in Starts, Admit(s) PROVE TypeInv'
    <2>1. start' = [start EXCEPT ![s].pc = "admitted"]
      BY <1>17 DEF Admit
    <2>2. start \in [Starts -> StartCall]
      BY DEF TypeInv, TypeOK
    <2>3. /\ start' \in [Starts -> StartCall]
          /\ \A r \in Starts : start'[r].app = start[r].app /\ start'[r].pc = IF r = s THEN "admitted" ELSE start[r].pc
      BY <2>1, <2>2 DEF StartCall
    <2>4. s \in Starts /\ start[s].app \in Apps
      BY <1>17 DEF Admit, TypeInv, Located, Active
    <2>5. TypeOK'
      <3>1. PICK over \in SUBSET Kinds : Retires(start[s].app, over)
        BY <1>17 DEF Admit
      <3>2. Main \in Programs
        BY RunHoldsAssumption
      <3>. QED BY <1>17, <2>3, <2>4, <3>1, <3>2, RetiresType DEF Admit, TypeInv, TypeOK
    <2>6. Located'
      BY <1>17, <2>3, <2>4 DEF Admit, TypeInv, Located
    <2>. QED BY <2>5, <2>6 DEF TypeInv
  <1>18. ASSUME NEW s \in Starts, Revalidate(s) PROVE TypeInv'
    <2>1. start' = [start EXCEPT ![s].pc = "checked"]
      BY <1>18 DEF Revalidate
    <2>2. start \in [Starts -> StartCall]
      BY DEF TypeInv, TypeOK
    <2>3. /\ start' \in [Starts -> StartCall]
          /\ \A r \in Starts : start'[r].app = start[r].app /\ start'[r].pc = IF r = s THEN "checked" ELSE start[r].pc
      BY <2>1, <2>2 DEF StartCall
    <2>4. s \in Starts /\ start[s].app \in Apps
      BY <1>18 DEF Revalidate, TypeInv, Located, Active
    <2>5. TypeOK'
      BY <1>18, <2>3, <2>4 DEF Revalidate, TypeInv, TypeOK
    <2>6. Located'
      BY <1>18, <2>3, <2>4 DEF Revalidate, TypeInv, Located
    <2>. QED BY <2>5, <2>6 DEF TypeInv
  <1>19. ASSUME NEW s \in Starts, Publish(s) PROVE TypeInv'
    <2>1. start' = [start EXCEPT ![s].pc = "published"]
      BY <1>19 DEF Publish
    <2>2. start \in [Starts -> StartCall]
      BY DEF TypeInv, TypeOK
    <2>3. /\ start' \in [Starts -> StartCall]
          /\ \A r \in Starts : start'[r].app = start[r].app /\ start'[r].pc = IF r = s THEN "published" ELSE start[r].pc
      BY <2>1, <2>2 DEF StartCall
    <2>4. s \in Starts /\ start[s].app \in Apps
      BY <1>19 DEF Publish, TypeInv, Located, Active
    <2>5. TypeOK'
      BY <1>19, <2>3, <2>4 DEF Publish, TypeInv, TypeOK
    <2>6. Located'
      BY <1>19, <2>3, <2>4 DEF Publish, TypeInv, Located
    <2>. QED BY <2>5, <2>6 DEF TypeInv
  <1>20. ASSUME NEW s \in Starts, Refuse(s) PROVE TypeInv'
    BY <1>20, IdleTypes DEF Refuse, TypeInv, TypeOK, Located
  <1>21. ASSUME NEW s \in Starts, StartReturns(s) PROVE TypeInv'
    <2>1. start' = [start EXCEPT ![s].pc = "done", ![s].answered = NoHold]
      BY <1>21 DEF StartReturns
    <2>2. start \in [Starts -> StartCall]
      BY DEF TypeInv, TypeOK
    <2>3. /\ start' \in [Starts -> StartCall]
          /\ \A r \in Starts : start'[r].app = start[r].app /\ start'[r].pc = IF r = s THEN "done" ELSE start[r].pc
      BY <2>1, <2>2, NoHoldType DEF StartCall
    <2>4. s \in Starts /\ start[s].app \in Apps
      BY <1>21 DEF StartReturns, TypeInv, Located, Active
    <2>5. TypeOK'
      BY <1>21, <2>3, <2>4, WriteType, WithoutType, NoHoldType DEF StartReturns, TypeInv, TypeOK
    <2>6. Located'
      BY <1>21, <2>3, <2>4 DEF StartReturns, TypeInv, Located
    <2>. QED BY <2>5, <2>6 DEF TypeInv
  <1>22. ASSUME NEW t \in Stops, NEW a \in Apps, NEW r \in {"game", "operation"}, NEW h \in BOOLEAN, BeginStop(t, a, r, h) PROVE TypeInv'
    <2>1. PICK readable \in BOOLEAN :
            stop' = [stop EXCEPT ![t] =
              [pc |-> "begun", app |-> a, route |-> r, hold |-> h,
               names |-> Evidence(a, readable), confirmed |-> FALSE]]
      BY <1>22 DEF BeginStop
    <2>2. Evidence(a, readable) \in SUBSET Programs
      BY RunHoldsAssumption DEF Evidence, TypeInv, TypeOK
    <2>3. [pc |-> "begun", app |-> a, route |-> r, hold |-> h,
           names |-> Evidence(a, readable), confirmed |-> FALSE] \in StopCall
      BY <2>2 DEF StopCall
    <2>4. stop' \in [Stops -> StopCall] /\ \A q \in Stops : q # t => stop'[q] = stop[q]
      BY <2>1, <2>3 DEF TypeInv, TypeOK
    <2>5. stop'[t].app = a
      BY <2>1 DEF TypeInv, TypeOK
    <2>6. TypeOK'
      BY <1>22, <2>4 DEF BeginStop, TypeInv, TypeOK
    <2>7. Located'
      BY <1>22, <2>4, <2>5 DEF BeginStop, TypeInv, Located
    <2>. QED BY <2>6, <2>7 DEF TypeInv
  <1>23. ASSUME NEW t \in Stops, StopFindsNothing(t) PROVE TypeInv'
    <2>1. stop' = [stop EXCEPT ![t].pc = IF stop[t].route = "game" THEN "ending" ELSE "ended"]
      BY <1>23 DEF StopFindsNothing
    <2>2. stop \in [Stops -> StopCall]
      BY DEF TypeInv, TypeOK
    <2>3. /\ stop' \in [Stops -> StopCall]
          /\ \A r \in Stops : stop'[r].app = stop[r].app /\ stop'[r].pc = IF r = t THEN (IF stop[t].route = "game" THEN "ending" ELSE "ended") ELSE stop[r].pc
      BY <2>1, <2>2 DEF StopCall
    <2>4. t \in Stops /\ stop[t].app \in Apps
      BY <1>23 DEF StopFindsNothing, TypeInv, Located, Active
    <2>5. TypeOK'
      BY <1>23, <2>3, <2>4 DEF StopFindsNothing, TypeInv, TypeOK
    <2>6. Located'
      BY <1>23, <2>3, <2>4 DEF StopFindsNothing, TypeInv, Located, Active
    <2>. QED BY <2>5, <2>6 DEF TypeInv
  <1>24. ASSUME NEW t \in Stops, StopUnforked(t) PROVE TypeInv'
    <2>1. stop' = [stop EXCEPT ![t].pc = "ended", ![t].confirmed = (stop[t].route = "game")]
      BY <1>24 DEF StopUnforked
    <2>2. stop \in [Stops -> StopCall]
      BY DEF TypeInv, TypeOK
    <2>3. /\ stop' \in [Stops -> StopCall]
          /\ \A r \in Stops : stop'[r].app = stop[r].app /\ stop'[r].pc = IF r = t THEN "ended" ELSE stop[r].pc
      BY <2>1, <2>2 DEF StopCall
    <2>4. t \in Stops /\ stop[t].app \in Apps
      BY <1>24 DEF StopUnforked, TypeInv, Located, Active
    <2>5. TypeOK'
      BY <1>24, <2>3, <2>4 DEF StopUnforked, TypeInv, TypeOK
    <2>6. Located'
      BY <1>24, <2>3, <2>4 DEF StopUnforked, TypeInv, Located, Active
    <2>. QED BY <2>5, <2>6 DEF TypeInv
  <1>25. ASSUME NEW t \in Stops, Quiesce(t) PROVE TypeInv'
    <2>1. \E c \in BOOLEAN : stop' = [stop EXCEPT ![t].pc = "asked", ![t].confirmed = c]
      <3>1. stop' = [stop EXCEPT ![t].pc = "asked", ![t].confirmed = TRUE] \/ stop' = [stop EXCEPT ![t].pc = "asked"]
        BY <1>25 DEF Quiesce
      <3>2. stop \in [Stops -> StopCall]
        BY DEF TypeInv, TypeOK
      <3>3. [stop EXCEPT ![t].pc = "asked"] = [stop EXCEPT ![t].pc = "asked", ![t].confirmed = stop[t].confirmed]
        BY <3>2 DEF StopCall
      <3>4. stop[t].confirmed \in BOOLEAN
        BY <3>2 DEF StopCall
      <3>. QED BY <3>1, <3>3, <3>4
    <2>2. stop \in [Stops -> StopCall]
      BY DEF TypeInv, TypeOK
    <2>3. /\ stop' \in [Stops -> StopCall]
          /\ \A r \in Stops : stop'[r].app = stop[r].app /\ stop'[r].pc = IF r = t THEN "asked" ELSE stop[r].pc
      <3>1. PICK c \in BOOLEAN : stop' = [stop EXCEPT ![t].pc = "asked", ![t].confirmed = c]
        BY <2>1
      <3>. QED BY <3>1, <2>2 DEF StopCall
    <2>4. t \in Stops /\ stop[t].app \in Apps
      BY <1>25 DEF Quiesce, TypeInv, Located, Active
    <2>5. TypeOK'
      <3>1. patched' \in [Apps -> SUBSET Programs]
        <4>1. patched' = [patched EXCEPT ![stop[t].app] = @ \ {at[stop[t].app]}] \/ patched' = patched
          BY <1>25 DEF Quiesce
        <4>2. patched \in [Apps -> SUBSET Programs]
          BY DEF TypeInv, TypeOK
        <4>. QED BY <4>1, <4>2, <2>4
      <3>. QED BY <1>25, <2>3, <2>4, <3>1 DEF Quiesce, TypeInv, TypeOK
    <2>6. Located'
      BY <1>25, <2>3, <2>4 DEF Quiesce, TypeInv, Located, Active
    <2>. QED BY <2>5, <2>6 DEF TypeInv
  <1>26. ASSUME NEW t \in Stops, EndCheatEngine(t) PROVE TypeInv'
    <2>1. stop' = [stop EXCEPT ![t].pc = "ended"]
      BY <1>26 DEF EndCheatEngine
    <2>2. stop \in [Stops -> StopCall]
      BY DEF TypeInv, TypeOK
    <2>3. /\ stop' \in [Stops -> StopCall]
          /\ \A r \in Stops : stop'[r].app = stop[r].app /\ stop'[r].pc = IF r = t THEN "ended" ELSE stop[r].pc
      BY <2>1, <2>2 DEF StopCall
    <2>4. t \in Stops /\ stop[t].app \in Apps
      BY <1>26 DEF EndCheatEngine, TypeInv, Located, Active, Leaves, ReadyToEnd
    <2>5. TypeOK'
      BY <1>26, <2>3, <2>4 DEF EndCheatEngine, TypeInv, TypeOK, Leaves, ReadyToEnd
    <2>6. Located'
      BY <1>26, <2>3, <2>4 DEF EndCheatEngine, TypeInv, Located, Active
    <2>. QED BY <2>5, <2>6 DEF TypeInv
  <1>27. ASSUME NEW t \in Stops, EndUnproven(t) PROVE TypeInv'
    <2>1. stop' = [stop EXCEPT ![t].pc = "ending"]
      BY <1>27 DEF EndUnproven
    <2>2. stop \in [Stops -> StopCall]
      BY DEF TypeInv, TypeOK
    <2>3. /\ stop' \in [Stops -> StopCall]
          /\ \A r \in Stops : stop'[r].app = stop[r].app /\ stop'[r].pc = IF r = t THEN "ending" ELSE stop[r].pc
      BY <2>1, <2>2 DEF StopCall
    <2>4. t \in Stops /\ stop[t].app \in Apps
      BY <1>27 DEF EndUnproven, TypeInv, Located, Active, Leaves, ReadyToEnd
    <2>5. TypeOK'
      <3>1. left' \in [Apps -> SUBSET Programs] /\ alive' \in [Apps -> BOOLEAN]
        <4>1. /\ left \in [Apps -> SUBSET Programs]
              /\ patched \in [Apps -> SUBSET Programs] /\ alive \in [Apps -> BOOLEAN]
          BY DEF TypeInv, TypeOK
        <4>2. CASE alive' = [alive EXCEPT ![stop[t].app] = FALSE] /\ Leaves(t)
          BY <4>1, <4>2, <2>4 DEF Leaves
        <4>3. CASE UNCHANGED <<alive, ghosts>>
          BY <4>1, <4>3
        <4>. QED BY <1>27, <4>2, <4>3 DEF EndUnproven
      <3>. QED BY <1>27, <2>3, <2>4, <3>1 DEF EndUnproven, TypeInv, TypeOK
    <2>6. Located'
      BY <1>27, <2>3, <2>4 DEF EndUnproven, TypeInv, Located, Active
    <2>. QED BY <2>5, <2>6 DEF TypeInv
  <1>28. ASSUME NEW t \in Stops, TakeHolds(t) PROVE TypeInv'
    <2>1. stop' = [stop EXCEPT ![t].pc = "ending"]
      BY <1>28 DEF TakeHolds
    <2>2. stop \in [Stops -> StopCall]
      BY DEF TypeInv, TypeOK
    <2>3. /\ stop' \in [Stops -> StopCall]
          /\ \A r \in Stops : stop'[r].app = stop[r].app /\ stop'[r].pc = IF r = t THEN "ending" ELSE stop[r].pc
      BY <2>1, <2>2 DEF StopCall
    <2>4. t \in Stops /\ stop[t].app \in Apps
      BY <1>28 DEF TakeHolds, TypeInv, Located, Active
    <2>5. TypeOK'
      BY <1>28, <2>3, <2>4, TakeHoldsType DEF TakeHolds, TypeInv, TypeOK
    <2>6. Located'
      BY <1>28, <2>3, <2>4 DEF TakeHolds, TypeInv, Located, Active
    <2>. QED BY <2>5, <2>6 DEF TypeInv
  <1>29. ASSUME NEW t \in Stops, EndTransition(t) PROVE TypeInv'
    <2>1. stop[t].app \in Apps
      BY <1>29 DEF EndTransition, TypeInv, Located, Active
    <2>2. stop' = [stop EXCEPT ![t] = DoneStop(stop[t].app)]
      BY <1>29 DEF EndTransition
    <2>3. stop' \in [Stops -> StopCall] /\ \A q \in Stops : q # t => stop'[q] = stop[q]
      BY <2>1, <2>2, IdleTypes DEF TypeInv, TypeOK
    <2>4. stop'[t].pc = "done"
      BY <2>1, <2>2, IdleTypes DEF TypeInv, TypeOK
    <2>5. TypeOK'
      BY <1>29, <2>1, <2>3 DEF EndTransition, TypeInv, TypeOK
    <2>6. Located'
      BY <1>29, <2>3, <2>4 DEF EndTransition, TypeInv, Located, Active
    <2>. QED BY <2>5, <2>6 DEF TypeInv
  <1>30. ASSUME CommitInstall PROVE TypeInv'
    BY <1>30 DEF CommitInstall, TypeInv, TypeOK, Located
  <1>31. ASSUME InstallFails PROVE TypeInv'
    BY <1>31 DEF InstallFails, TypeInv, TypeOK, Located
  <1>32. ASSUME Reload PROVE TypeInv'
    <2>1. start' \in [Starts -> StartCall] /\ \A s \in Starts : start'[s].pc \in {"idle", "done"}
      BY <1>32, IdleTypes DEF Reload, TypeInv, TypeOK
    <2>2. stop' \in [Stops -> StopCall] /\ \A t \in Stops : stop'[t].pc \in {"idle", "done"}
      <3>1. \A t \in Stops : stop[t].app \in Apps \cup {Nobody}
        BY DEF TypeInv, TypeOK, StopCall
      <3>. QED BY <1>32, <3>1, IdleTypes DEF Reload, TypeInv, TypeOK
    <2>3. owned' \in [Apps -> {"none", "published", "live", "connected", "recovered"}]
      BY <1>32 DEF Reload, TypeInv, TypeOK
    <2>4. left' \in [Apps -> SUBSET Programs]
      BY <1>32 DEF Reload, TypeInv, TypeOK
    <2>5. unreadable' \in BOOLEAN /\ holds' \in [Apps -> [Kinds -> Hold]]
      BY <1>32, NoHoldType DEF Reload, TypeInv, TypeOK
    <2>6. TypeOK'
      BY <1>32, <2>1, <2>2, <2>3, <2>4, <2>5 DEF Reload, TypeInv, TypeOK
    <2>7. Located'
      BY <2>1, <2>2 DEF Located, Active
    <2>. QED BY <2>6, <2>7 DEF TypeInv
  <1>34. ASSUME DeleteState PROVE TypeInv'
    BY <1>34, NoHoldType DEF DeleteState, TypeInv, TypeOK, Located
  <1>33. CASE UNCHANGED vars
    BY <1>33 DEF vars, TypeInv, TypeOK, Located
  <1>. QED BY <1>1, <1>2, <1>3, <1>4, <1>5, <1>6, <1>7, <1>8, <1>9, <1>10, <1>11, <1>12, <1>13, <1>14, <1>15, <1>16, <1>17, <1>18, <1>19, <1>20, <1>21, <1>22, <1>23, <1>24, <1>25, <1>26, <1>27, <1>28, <1>29, <1>30, <1>31, <1>32, <1>33, <1>34 DEF Next, StopSteps

-----------------------------------------------------------------------------
(* Who owns a Cheat Engine.                                                *)

\* Only an owned Cheat Engine is alive, one game at most owns one, and nothing
\* is stopped or running once an install is committed.
Alone == \A a, b \in Apps : ~Free(a) /\ ~Free(b) => a = b
OwnInv ==
    /\ \A a \in Apps : alive[a] => owned[a] \in {"live", "connected", "recovered"}
    /\ Alone
    /\ committed => \A a \in Apps : transition[a] = Nobody /\ ~alive[a]

LEMMA OwnStep == TypeInv /\ TypeInv' /\ OwnInv /\ [Next]_vars => OwnInv'
  <1>. SUFFICES ASSUME TypeInv, TypeInv', OwnInv, [Next]_vars PROVE OwnInv' OBVIOUS
  <1>. USE DEF game, ghosts, ce, pointer, record, locks, calls
  <1>1. ASSUME NEW a \in Apps, NEW p \in Programs, ProgramStarts(a, p) PROVE OwnInv'
    BY <1>1 DEF ProgramStarts, OwnInv, Alone, Free, TypeInv, TypeOK
  <1>2. ASSUME NEW a \in Apps, NEW p \in Programs, ProgramEnds(a, p) PROVE OwnInv'
    BY <1>2 DEF ProgramEnds, OwnInv, Alone, Free, TypeInv, TypeOK
  <1>3. ASSUME NEW a \in Apps, NEW p \in Programs, RetryAttach(a, p) PROVE OwnInv'
    BY <1>3 DEF RetryAttach, OwnInv, Alone, Free, TypeInv, TypeOK
  <1>4. ASSUME NEW a \in Apps, Retire(a) PROVE OwnInv'
    BY <1>4 DEF Retire, OwnInv, Alone, Free, TypeInv, TypeOK
  <1>5. ASSUME NEW a \in Apps, Clear(a) PROVE OwnInv'
    BY <1>5 DEF Clear, OwnInv, Alone, Free, TypeInv, TypeOK
  <1>6. ASSUME NEW a \in Apps, Patch(a) PROVE OwnInv'
    BY <1>6 DEF Patch, OwnInv, Alone, Free, TypeInv, TypeOK
  <1>7. ASSUME NEW a \in Apps, Connect(a) PROVE OwnInv'
    BY <1>7 DEF Connect, OwnInv, Alone, Free, TypeInv, TypeOK
  <1>8. ASSUME NEW a \in Apps, CheatEngineExits(a) PROVE OwnInv'
    BY <1>8 DEF CheatEngineExits, OwnInv, Alone, Free, TypeInv, TypeOK
  <1>9. ASSUME NEW a \in Apps, SupervisorDrops(a) PROVE OwnInv'
    BY <1>9 DEF SupervisorDrops, OwnInv, Alone, Free, TypeInv, TypeOK
  <1>10. ASSUME NEW a \in Apps, SupervisorStops(a) PROVE OwnInv'
    BY <1>10 DEF SupervisorStops, OwnInv, Alone, Free, TypeInv, TypeOK
  <1>11. ASSUME NEW a \in Apps, Fork(a) PROVE OwnInv'
    BY <1>11 DEF Fork, Admissible, OwnInv, Alone, Free, TypeInv, TypeOK
  <1>12. ASSUME NEW a \in Apps, ForkRefused(a) PROVE OwnInv'
    BY <1>12 DEF ForkRefused, OwnInv, Alone, Free, TypeInv, TypeOK
  <1>13. ASSUME NEW a \in Apps, RetireSession(a) PROVE OwnInv'
    BY <1>13 DEF RetireSession, OwnInv, Alone, Free, TypeInv, TypeOK
  <1>14. ASSUME NEW a \in Apps, NEW b \in BOOLEAN, SetConsent(a, b) PROVE OwnInv'
    BY <1>14 DEF SetConsent, Untouched, OwnInv, Alone, Free, TypeInv, TypeOK
  <1>15. ASSUME NEW a \in Apps, NEW b \in BOOLEAN, SetAutoload(a, b) PROVE OwnInv'
    BY <1>15 DEF SetAutoload, OwnInv, Alone, Free, TypeInv, TypeOK
  <1>16. ASSUME NEW s \in Starts, NEW a \in Apps, NEW i \in Intents, StartAsks(s, a, i) PROVE OwnInv'
    BY <1>16 DEF StartAsks, OwnInv, Alone, Free, TypeInv, TypeOK
  <1>17. ASSUME NEW s \in Starts, Admit(s) PROVE OwnInv'
    BY <1>17 DEF Admit, OwnInv, Alone, Free, TypeInv, TypeOK
  <1>18. ASSUME NEW s \in Starts, Revalidate(s) PROVE OwnInv'
    BY <1>18 DEF Revalidate, OwnInv, Alone, Free, TypeInv, TypeOK
  <1>19. ASSUME NEW s \in Starts, Publish(s) PROVE OwnInv'
    BY <1>19 DEF Publish, OwnInv, Alone, Free, TypeInv, TypeOK
  <1>20. ASSUME NEW s \in Starts, Refuse(s) PROVE OwnInv'
    BY <1>20 DEF Refuse, OwnInv, Alone, Free, TypeInv, TypeOK
  <1>21. ASSUME NEW s \in Starts, StartReturns(s) PROVE OwnInv'
    BY <1>21 DEF StartReturns, OwnInv, Alone, Free, TypeInv, TypeOK
  <1>22. ASSUME NEW t \in Stops, NEW a \in Apps, NEW r \in {"game", "operation"}, NEW h \in BOOLEAN, BeginStop(t, a, r, h) PROVE OwnInv'
    BY <1>22 DEF BeginStop, OwnInv, Alone, Free, TypeInv, TypeOK
  <1>23. ASSUME NEW t \in Stops, StopFindsNothing(t) PROVE OwnInv'
    BY <1>23 DEF StopFindsNothing, OwnInv, Alone, Free, TypeInv, TypeOK
  <1>24. ASSUME NEW t \in Stops, StopUnforked(t) PROVE OwnInv'
    BY <1>24 DEF StopUnforked, OwnInv, Alone, Free, TypeInv, TypeOK
  <1>25. ASSUME NEW t \in Stops, Quiesce(t) PROVE OwnInv'
    BY <1>25 DEF Quiesce, OwnInv, Alone, Free, TypeInv, TypeOK
  <1>26. ASSUME NEW t \in Stops, EndCheatEngine(t) PROVE OwnInv'
    BY <1>26 DEF EndCheatEngine, OwnInv, Alone, Free, TypeInv, TypeOK
  <1>27. ASSUME NEW t \in Stops, EndUnproven(t) PROVE OwnInv'
    <2>1. stop[t].app \in Apps
      BY <1>27 DEF EndUnproven, ReadyToEnd, TypeInv, Located, Active
    <2>2. CASE alive' = [alive EXCEPT ![stop[t].app] = FALSE]
      BY <1>27, <2>1, <2>2 DEF EndUnproven, OwnInv, Alone, Free, TypeInv, TypeOK
    <2>3. CASE UNCHANGED alive
      <3>1. owned' = [owned EXCEPT ![stop[t].app] = "recovered"]
        BY <1>27 DEF EndUnproven
      <3>2. owned \in [Apps -> {"none", "published", "live", "connected", "recovered"}]
        BY DEF TypeInv, TypeOK
      <3>3. \A a \in Apps : alive[a] => owned'[a] \in {"live", "connected", "recovered"}
        BY <2>1, <3>1, <3>2 DEF OwnInv
      <3>4. \A a \in Apps : ~Free(a)' => ~Free(a)
        BY <2>1, <2>3, <3>1, <3>2 DEF OwnInv, Free
      <3>5. UNCHANGED <<committed, transition>>
        BY <1>27 DEF EndUnproven
      <3>. QED BY <2>3, <3>3, <3>4, <3>5 DEF OwnInv, Alone
    <2>. QED BY <1>27, <2>2, <2>3 DEF EndUnproven
  <1>28. ASSUME NEW t \in Stops, TakeHolds(t) PROVE OwnInv'
    BY <1>28 DEF TakeHolds, OwnInv, Alone, Free, TypeInv, TypeOK
  <1>29. ASSUME NEW t \in Stops, EndTransition(t) PROVE OwnInv'
    BY <1>29 DEF EndTransition, OwnInv, Alone, Free, TypeInv, TypeOK
  <1>30. ASSUME CommitInstall PROVE OwnInv'
    BY <1>30 DEF CommitInstall, Untouched, OwnInv, Alone, Free, TypeInv, TypeOK
  <1>31. ASSUME InstallFails PROVE OwnInv'
    BY <1>31 DEF InstallFails, OwnInv, Alone, Free, TypeInv, TypeOK
  <1>32. ASSUME Reload PROVE OwnInv'
    BY <1>32 DEF Reload, OwnInv, Alone, Free, TypeInv, TypeOK
  <1>34. ASSUME DeleteState PROVE OwnInv'
    BY <1>34 DEF DeleteState, OwnInv, Alone, Free, TypeInv, TypeOK
  <1>33. CASE UNCHANGED vars
    BY <1>33 DEF vars, OwnInv, Alone, Free
  <1>. QED BY <1>1, <1>2, <1>3, <1>4, <1>5, <1>6, <1>7, <1>8, <1>9, <1>10, <1>11, <1>12, <1>13, <1>14, <1>15, <1>16, <1>17, <1>18, <1>19, <1>20, <1>21, <1>22, <1>23, <1>24, <1>25, <1>26, <1>27, <1>28, <1>29, <1>30, <1>31, <1>32, <1>33, <1>34 DEF Next, StopSteps

LEMMA InitInv == Init => TypeInv /\ OwnInv
  <1>1. Init => TypeInv
    <2>1. Init => TypeOK
      <3>. SUFFICES ASSUME Init PROVE TypeOK OBVIOUS
      <3>2. runs \in [Apps -> [Programs -> 0..MaxRuns]] /\ at \in [Apps -> Programs]
        BY RunHoldsAssumption DEF Init
      <3>3. profile \in [Apps -> {"revoked", "consented", "autoload"}] /\ owned \in [Apps -> {"none", "published", "live", "connected", "recovered"}]
        BY DEF Init
      <3>4. holds \in [Apps -> [Kinds -> Hold]] /\ file \in [Apps -> [Kinds -> Hold]]
        BY NoHoldType DEF Init
      <3>5. start \in [Starts -> StartCall] /\ stop \in [Stops -> StopCall]
        BY IdleTypes DEF Init
      <3>. QED BY <3>2, <3>3, <3>4, <3>5 DEF Init, TypeOK
    <2>2. IdleStart.pc = "idle" /\ IdleStop.pc = "idle"
      BY DEF IdleStart, IdleStop
    <2>3. Init => Located
      BY <2>2 DEF Init, Located, Active
    <2>. QED BY <2>1, <2>3 DEF TypeInv
  <1>2. Init => OwnInv
    BY RunHoldsAssumption DEF Init, OwnInv, Alone, Free
  <1>. QED BY <1>1, <1>2

LEMMA SpecInv == Spec => [](TypeInv /\ OwnInv)
  <1>1. TypeInv /\ OwnInv /\ [Next]_vars => (TypeInv /\ OwnInv)'
    BY TypeStep, OwnStep
  <1>. QED BY InitInv, <1>1, PTL DEF Spec

\* Every reachable state is one the declared types describe.
THEOREM TypeCorrect == Spec => []TypeOK
  <1>1. TypeInv /\ OwnInv => TypeOK
    BY DEF TypeInv
  <1>. QED BY <1>1, SpecInv, PTL

\* The launcher never runs two Cheat Engines out of the one private runtime,
\* whatever starts, stops, reloads and unproven ends happen in whichever games.
THEOREM OnlyOneCheatEngine == Spec => []OneCheatEngine
  <1>1. TypeInv /\ OwnInv => OneCheatEngine
    BY DEF OwnInv, Alone, OneCheatEngine, Running, Free
  <1>. QED BY <1>1, SpecInv, PTL

\* A committed install meets no stop under way and no running Cheat Engine.
THEOREM InstallMeetsNothing == Spec => []NothingRunsIntoInstall
  <1>1. TypeInv /\ OwnInv => NothingRunsIntoInstall
    BY DEF OwnInv, NothingRunsIntoInstall, Running
  <1>. QED BY <1>1, SpecInv, PTL

-----------------------------------------------------------------------------
(* What a stop left in a game is held until the game is over: the promise   *)
(* RunHolds is about.  It is the code's where an attach is not moved to      *)
(* another program, a stop proves its Cheat Engine gone, an unreadable file  *)
(* stays unreadable, and nothing comes in the windows that Returns, Fails    *)
(* and Forgets name.                                                         *)

\* Without a moved attach a session's cheats go into the main program only, and
\* everything that names programs names that one or none.
PatchInv == \A a \in Apps :
    /\ at[a] = Main
    /\ pointed[a] \subseteq {Main} /\ (session[a] # Nobody => pointed[a] = {Main})
    /\ patched[a] \subseteq {Main} \cap up[a] /\ (owned[a] = "live" => patched[a] = {})
    /\ left[a] \subseteq {Main} \cap up[a]

\* A stop under way holds its game's transition; one that was told that every
\* cheat is down is right, and stays so until Cheat Engine is ended: its bridge
\* switches none on any more, or there is no program for one to be in.
StopInv == \A t \in Stops :
    /\ stop[t].pc \in Active => transition[stop[t].app] = t /\ stop[t].names \subseteq {Main}
    /\ stop[t].pc = "begun" => ~stop[t].confirmed
    /\ stop[t].pc = "asked" /\ stop[t].confirmed =>
         patched[stop[t].app] = {} /\ (quiet[stop[t].app] \/ Main \notin up[stop[t].app])

\* The stop that ended Cheat Engine has its verdict still to write.
Awaited(a) ==
    /\ transition[a] \in Stops /\ stop[transition[a]].app = a
    /\ stop[transition[a]].pc = "ended" /\ ~stop[transition[a]].confirmed
\* A hold some stop took on the run of the main program that is up.
Stands(a, h) == \E i \in SUBSET {Identity(a, Main)}, n \in SUBSET {Main}, t \in Stops :
    h = [ids |-> i, names |-> n, since |-> t]
SavedInv == ~unreadable /\ ~unsaved => file = holds
HeldInv == \A a \in Apps :
    left[a] # {} => unreadable \/ Awaited(a) \/ Stands(a, holds[a]["dirty"])

-----------------------------------------------------------------------------
(* A stop's call, and what the record keeps.                                *)

\* A stop on its way is about a game, and no step of it moves another.
LEMMA StopIs ==
    ASSUME TypeInv, NEW t \in Stops, stop[t].pc \in Active
    PROVE  stop[t].app \in Apps /\ stop[t] \in StopCall
  BY DEF TypeInv, TypeOK, Located

\* A hold that stands is not taken for one whose run is over.
LEMMA StandingIsNotOver ==
    ASSUME TypeInv, PatchInv, NEW a \in Apps, left[a] # {}, NEW h, Stands(a, h)
    PROVE  h # NoHold /\ ~IsOver(a, h)
  <1>1. Main \in up[a] /\ Main \in Programs
    BY RunHoldsAssumption DEF PatchInv
  <1>2. PICK i \in SUBSET {Identity(a, Main)}, n \in SUBSET {Main}, t \in Stops :
          h = [ids |-> i, names |-> n, since |-> t]
    BY DEF Stands
  <1>3. h # NoHold
    BY <1>2, RunHoldsAssumption DEF NoHold
  <1>4. Identity(a, Main) \in Identities(a, Programs)
    BY <1>1 DEF Identities
  <1>. QED BY <1>1, <1>2, <1>3, <1>4 DEF IsOver

LEMMA RetiresStanding ==
    ASSUME TypeInv, PatchInv, NEW a \in Apps, NEW over \in SUBSET Kinds, Retires(a, over),
           NEW b \in Apps, left[b] # {}, Stands(b, holds[b]["dirty"])
    PROVE  holds'[b]["dirty"] = holds[b]["dirty"]
  <1>1. CASE over = {}
    BY <1>1 DEF Retires, record
  <1>2. CASE over # {}
    <2>1. holds' = Without(a, over)
      BY <1>2 DEF Retires, Write
    <2>2. a = b => "dirty" \notin over
      BY StandingIsNotOver DEF Retires
    <2>. QED BY <2>1, <2>2 DEF Without, Kinds, TypeInv, TypeOK
  <1>. QED BY <1>1, <1>2

\* Lifting a stopped hold leaves the dirty one.
LEMMA LiftsStopped ==
    ASSUME TypeInv, NEW a \in Apps, NEW bad, Write(Without(a, {"stopped"}), bad), NEW b \in Apps
    PROVE  holds'[b]["dirty"] = holds[b]["dirty"]
  BY DEF Write, Without, Kinds, TypeInv, TypeOK

\* Nothing but the record moves, and it keeps the holds that stand.
LEMMA StaysHeld ==
    ASSUME HeldInv, UNCHANGED <<transition, stop, unreadable, runs, left>>,
           \A b \in Apps : left[b] # {} /\ Stands(b, holds[b]["dirty"])
                            => holds'[b]["dirty"] = holds[b]["dirty"]
    PROVE  HeldInv'
  <1>. SUFFICES ASSUME NEW b \in Apps, left'[b] # {}
                PROVE  unreadable' \/ Awaited(b)' \/ Stands(b, holds[b]["dirty"])'
    BY DEF HeldInv
  <1>1. CASE Awaited(b)
    BY <1>1 DEF Awaited
  <1>2. CASE Stands(b, holds[b]["dirty"])
    BY <1>2 DEF Stands, Identity
  <1>. QED BY <1>1, <1>2 DEF HeldInv

\* A stop that had not ended its Cheat Engine moves on, and ends none.
LEMMA StopMoves ==
    ASSUME HeldInv, NEW t \in Stops, stop[t].pc # "ended", \A q \in Stops : q # t => stop'[q] = stop[q],
           UNCHANGED <<transition, unreadable, runs, left, holds>>
    PROVE  HeldInv'
  <1>. SUFFICES ASSUME NEW b \in Apps, left'[b] # {}
                PROVE  unreadable' \/ Awaited(b)' \/ Stands(b, holds[b]["dirty"])'
    BY DEF HeldInv
  <1>1. CASE Awaited(b)
    BY <1>1 DEF Awaited
  <1>2. CASE Stands(b, holds[b]["dirty"])
    BY <1>2 DEF Stands, Identity
  <1>. QED BY <1>1, <1>2 DEF HeldInv

\* Asking a session to put its cheats down adds none.
LEMMA QuiesceLowers ==
    ASSUME TypeInv, NEW t \in Stops, Quiesce(t)
    PROVE  \A a \in Apps : patched'[a] \subseteq patched[a]
  <1>1. patched' = [patched EXCEPT ![stop[t].app] = @ \ {at[stop[t].app]}] \/ patched' = patched
    BY DEF Quiesce
  <1>2. patched \in [Apps -> SUBSET Programs]
    BY DEF TypeInv, TypeOK
  <1>3. CASE patched' = [patched EXCEPT ![stop[t].app] = @ \ {at[stop[t].app]}]
    BY <1>2, <1>3
  <1>. QED BY <1>1, <1>3

-----------------------------------------------------------------------------
(* The steps.                                                               *)

LEMMA PatchStep ==
    ASSUME TypeInv, PatchInv, ~Retries, ~Unproven, [Next]_vars
    PROVE  PatchInv'
  <1>. USE DEF game, ghosts, ce, pointer, record, locks, calls
  <1>1. ASSUME NEW a \in Apps, NEW p \in Programs, ProgramStarts(a, p) PROVE PatchInv'
    BY <1>1 DEF ProgramStarts, PatchInv, TypeInv, TypeOK
  <1>2. ASSUME NEW a \in Apps, NEW p \in Programs, ProgramEnds(a, p) PROVE PatchInv'
    BY <1>2 DEF ProgramEnds, PatchInv, TypeInv, TypeOK
  <1>3. ASSUME NEW a \in Apps, NEW p \in Programs, RetryAttach(a, p) PROVE PatchInv'
    BY <1>3 DEF RetryAttach, PatchInv, TypeInv, TypeOK
  <1>4. ASSUME NEW a \in Apps, Retire(a) PROVE PatchInv'
    BY <1>4 DEF Retire, PatchInv, TypeInv, TypeOK
  <1>5. ASSUME NEW a \in Apps, Clear(a) PROVE PatchInv'
    BY <1>5 DEF Clear, PatchInv, TypeInv, TypeOK
  <1>6. ASSUME NEW a \in Apps, Patch(a) PROVE PatchInv'
    BY <1>6 DEF Patch, PatchInv, TypeInv, TypeOK
  <1>7. ASSUME NEW a \in Apps, Connect(a) PROVE PatchInv'
    BY <1>7 DEF Connect, PatchInv, TypeInv, TypeOK
  <1>8. ASSUME NEW a \in Apps, CheatEngineExits(a) PROVE PatchInv'
    BY <1>8 DEF CheatEngineExits, PatchInv, TypeInv, TypeOK
  <1>9. ASSUME NEW a \in Apps, SupervisorDrops(a) PROVE PatchInv'
    BY <1>9 DEF SupervisorDrops, PatchInv, TypeInv, TypeOK
  <1>10. ASSUME NEW a \in Apps, SupervisorStops(a) PROVE PatchInv'
    BY <1>10 DEF SupervisorStops, PatchInv, TypeInv, TypeOK
  <1>11. ASSUME NEW a \in Apps, Fork(a) PROVE PatchInv'
    BY <1>11 DEF Fork, PatchInv, TypeInv, TypeOK
  <1>12. ASSUME NEW a \in Apps, ForkRefused(a) PROVE PatchInv'
    BY <1>12 DEF ForkRefused, PatchInv, TypeInv, TypeOK
  <1>13. ASSUME NEW a \in Apps, RetireSession(a) PROVE PatchInv'
    BY <1>13 DEF RetireSession, PatchInv, TypeInv, TypeOK
  <1>14. ASSUME NEW a \in Apps, NEW b \in BOOLEAN, SetConsent(a, b) PROVE PatchInv'
    BY <1>14 DEF SetConsent, PatchInv, TypeInv, TypeOK
  <1>15. ASSUME NEW a \in Apps, NEW b \in BOOLEAN, SetAutoload(a, b) PROVE PatchInv'
    BY <1>15 DEF SetAutoload, PatchInv, TypeInv, TypeOK
  <1>16. ASSUME NEW s \in Starts, NEW a \in Apps, NEW i \in Intents, StartAsks(s, a, i) PROVE PatchInv'
    BY <1>16 DEF StartAsks, PatchInv, TypeInv, TypeOK
  <1>17. ASSUME NEW s \in Starts, Admit(s) PROVE PatchInv'
    BY <1>17 DEF Admit, PatchInv, TypeInv, TypeOK
  <1>18. ASSUME NEW s \in Starts, Revalidate(s) PROVE PatchInv'
    BY <1>18 DEF Revalidate, PatchInv, TypeInv, TypeOK
  <1>19. ASSUME NEW s \in Starts, Publish(s) PROVE PatchInv'
    BY <1>19 DEF Publish, PatchInv, TypeInv, TypeOK
  <1>20. ASSUME NEW s \in Starts, Refuse(s) PROVE PatchInv'
    BY <1>20 DEF Refuse, PatchInv, TypeInv, TypeOK
  <1>21. ASSUME NEW s \in Starts, StartReturns(s) PROVE PatchInv'
    BY <1>21 DEF StartReturns, PatchInv, TypeInv, TypeOK
  <1>22. ASSUME NEW t \in Stops, NEW a \in Apps, NEW r \in {"game", "operation"}, NEW h \in BOOLEAN, BeginStop(t, a, r, h) PROVE PatchInv'
    BY <1>22 DEF BeginStop, PatchInv, TypeInv, TypeOK
  <1>23. ASSUME NEW t \in Stops, StopFindsNothing(t) PROVE PatchInv'
    BY <1>23 DEF StopFindsNothing, PatchInv, TypeInv, TypeOK
  <1>24. ASSUME NEW t \in Stops, StopUnforked(t) PROVE PatchInv'
    BY <1>24 DEF StopUnforked, PatchInv, TypeInv, TypeOK
  <1>25. ASSUME NEW t \in Stops, Quiesce(t) PROVE PatchInv'
    <2>3. \A a \in Apps : patched'[a] \subseteq patched[a]
      BY <1>25, QuiesceLowers
    <2>4. UNCHANGED <<at, pointed, session, up, left, owned>>
      BY <1>25 DEF Quiesce
    <2>. QED BY <2>3, <2>4 DEF PatchInv
  <1>26. ASSUME NEW t \in Stops, EndCheatEngine(t) PROVE PatchInv'
    <2>1. stop[t].app \in Apps
      BY <1>26, StopIs DEF EndCheatEngine, ReadyToEnd, Active
    <2>. QED BY <1>26, <2>1 DEF EndCheatEngine, Leaves, PatchInv, TypeInv, TypeOK
  <1>27. ASSUME NEW t \in Stops, EndUnproven(t) PROVE PatchInv'
    BY <1>27 DEF EndUnproven, PatchInv, TypeInv, TypeOK
  <1>28. ASSUME NEW t \in Stops, TakeHolds(t) PROVE PatchInv'
    BY <1>28 DEF TakeHolds, PatchInv, TypeInv, TypeOK
  <1>29. ASSUME NEW t \in Stops, EndTransition(t) PROVE PatchInv'
    BY <1>29 DEF EndTransition, PatchInv, TypeInv, TypeOK
  <1>30. ASSUME CommitInstall PROVE PatchInv'
    BY <1>30 DEF CommitInstall, PatchInv, TypeInv, TypeOK
  <1>31. ASSUME InstallFails PROVE PatchInv'
    BY <1>31 DEF InstallFails, PatchInv, TypeInv, TypeOK
  <1>32. ASSUME Reload PROVE PatchInv'
    BY <1>32 DEF Reload, PatchInv, TypeInv, TypeOK
  <1>34. ASSUME DeleteState PROVE PatchInv'
    BY <1>34 DEF DeleteState, PatchInv, TypeInv, TypeOK
  <1>33. CASE UNCHANGED vars
    BY <1>33 DEF vars, PatchInv, TypeInv, TypeOK
  <1>. QED BY <1>1, <1>2, <1>3, <1>4, <1>5, <1>6, <1>7, <1>8, <1>9, <1>10, <1>11, <1>12, <1>13, <1>14, <1>15, <1>16, <1>17, <1>18, <1>19, <1>20, <1>21, <1>22, <1>23, <1>24, <1>25, <1>26, <1>27, <1>28, <1>29, <1>30, <1>31, <1>32, <1>33, <1>34 DEF Next, StopSteps

LEMMA StopStep ==
    ASSUME TypeInv, PatchInv, StopInv, ~Retries, ~Unproven, ~Returns, [Next]_vars
    PROVE  StopInv'
  <1>. USE DEF game, ghosts, ce, pointer, record, locks, calls
  <1>1. ASSUME NEW a \in Apps, NEW p \in Programs, ProgramStarts(a, p) PROVE StopInv'
    <2>1. ~FoundGone(a)
      BY <1>1 DEF ProgramStarts
    <2>2. \A b \in Apps : b # a => up'[b] = up[b]
      BY <1>1 DEF ProgramStarts, TypeInv, TypeOK
    <2>3. UNCHANGED <<stop, transition, patched, quiet>>
      BY <1>1 DEF ProgramStarts
    <2>4. \A t \in Stops : stop[t].pc = "asked" => stop[t].app \in Apps
      BY StopIs DEF Active
    <2>. QED BY <2>1, <2>2, <2>3, <2>4 DEF FoundGone, StopInv
  <1>2. ASSUME NEW a \in Apps, NEW p \in Programs, ProgramEnds(a, p) PROVE StopInv'
    <2>1. \A b \in Apps : patched'[b] \subseteq patched[b] /\ up'[b] \subseteq up[b]
      BY <1>2 DEF ProgramEnds, TypeInv, TypeOK
    <2>2. UNCHANGED <<stop, transition, quiet>>
      BY <1>2 DEF ProgramEnds
    <2>3. \A t \in Stops : stop[t].pc = "asked" => stop[t].app \in Apps
      BY StopIs DEF Active
    <2>. QED BY <2>1, <2>2, <2>3 DEF StopInv
  <1>3. ASSUME NEW a \in Apps, NEW p \in Programs, RetryAttach(a, p) PROVE StopInv'
    BY <1>3 DEF RetryAttach, StopInv, Active, TypeInv, TypeOK
  <1>4. ASSUME NEW a \in Apps, Retire(a) PROVE StopInv'
    BY <1>4 DEF Retire, StopInv, Active, TypeInv, TypeOK
  <1>5. ASSUME NEW a \in Apps, Clear(a) PROVE StopInv'
    BY <1>5 DEF Clear, StopInv, Active, TypeInv, TypeOK
  <1>6. ASSUME NEW a \in Apps, Patch(a) PROVE StopInv'
    <2>1. at[a] = Main /\ ~quiet[a] /\ Main \in up[a]
      BY <1>6 DEF Patch, PatchInv
    <2>2. \A b \in Apps : b # a => patched'[b] = patched[b]
      BY <1>6 DEF Patch, TypeInv, TypeOK
    <2>3. UNCHANGED <<stop, transition, up, quiet>>
      BY <1>6 DEF Patch
    <2>4. \A t \in Stops : stop[t].pc = "asked" => stop[t].app \in Apps
      BY StopIs DEF Active
    <2>. QED BY <2>1, <2>2, <2>3, <2>4 DEF StopInv
  <1>7. ASSUME NEW a \in Apps, Connect(a) PROVE StopInv'
    BY <1>7 DEF Connect, StopInv, Active, TypeInv, TypeOK
  <1>8. ASSUME NEW a \in Apps, CheatEngineExits(a) PROVE StopInv'
    BY <1>8 DEF CheatEngineExits, StopInv, Active, TypeInv, TypeOK
  <1>9. ASSUME NEW a \in Apps, SupervisorDrops(a) PROVE StopInv'
    BY <1>9 DEF SupervisorDrops, StopInv, Active, TypeInv, TypeOK
  <1>10. ASSUME NEW a \in Apps, SupervisorStops(a) PROVE StopInv'
    BY <1>10 DEF SupervisorStops, StopInv, Active, TypeInv, TypeOK
  <1>11. ASSUME NEW a \in Apps, Fork(a) PROVE StopInv'
    <2>1. transition[a] = Nobody
      BY <1>11 DEF Fork, Admissible
    <2>2. \A t \in Stops : stop[t].pc \in Active => stop[t].app \in Apps /\ stop[t].app # a
      BY <2>1, StopIs, RunHoldsAssumption DEF StopInv
    <2>3. \A b \in Apps : b # a => patched'[b] = patched[b] /\ quiet'[b] = quiet[b]
      BY <1>11 DEF Fork, TypeInv, TypeOK
    <2>4. UNCHANGED <<stop, transition, up>>
      BY <1>11 DEF Fork
    <2>. QED BY <2>2, <2>3, <2>4 DEF StopInv, Active
  <1>12. ASSUME NEW a \in Apps, ForkRefused(a) PROVE StopInv'
    BY <1>12 DEF ForkRefused, StopInv, Active, TypeInv, TypeOK
  <1>13. ASSUME NEW a \in Apps, RetireSession(a) PROVE StopInv'
    BY <1>13 DEF RetireSession, StopInv, Active, TypeInv, TypeOK
  <1>14. ASSUME NEW a \in Apps, NEW b \in BOOLEAN, SetConsent(a, b) PROVE StopInv'
    BY <1>14 DEF SetConsent, StopInv, Active, TypeInv, TypeOK
  <1>15. ASSUME NEW a \in Apps, NEW b \in BOOLEAN, SetAutoload(a, b) PROVE StopInv'
    BY <1>15 DEF SetAutoload, StopInv, Active, TypeInv, TypeOK
  <1>16. ASSUME NEW s \in Starts, NEW a \in Apps, NEW i \in Intents, StartAsks(s, a, i) PROVE StopInv'
    BY <1>16 DEF StartAsks, StopInv, Active, TypeInv, TypeOK
  <1>17. ASSUME NEW s \in Starts, Admit(s) PROVE StopInv'
    BY <1>17 DEF Admit, StopInv, Active, TypeInv, TypeOK
  <1>18. ASSUME NEW s \in Starts, Revalidate(s) PROVE StopInv'
    BY <1>18 DEF Revalidate, StopInv, Active, TypeInv, TypeOK
  <1>19. ASSUME NEW s \in Starts, Publish(s) PROVE StopInv'
    BY <1>19 DEF Publish, StopInv, Active, TypeInv, TypeOK
  <1>20. ASSUME NEW s \in Starts, Refuse(s) PROVE StopInv'
    BY <1>20 DEF Refuse, StopInv, Active, TypeInv, TypeOK
  <1>21. ASSUME NEW s \in Starts, StartReturns(s) PROVE StopInv'
    BY <1>21 DEF StartReturns, StopInv, Active, TypeInv, TypeOK
  <1>22. ASSUME NEW t \in Stops, NEW a \in Apps, NEW r \in {"game", "operation"}, NEW h \in BOOLEAN, BeginStop(t, a, r, h) PROVE StopInv'
    <2>1. PICK readable \in BOOLEAN :
            stop' = [stop EXCEPT ![t] =
              [pc |-> "begun", app |-> a, route |-> r, hold |-> h,
               names |-> Evidence(a, readable), confirmed |-> FALSE]]
      BY <1>22 DEF BeginStop
    <2>2. Evidence(a, readable) \subseteq {Main}
      BY DEF Evidence, PatchInv
    <2>3. /\ stop'[t].pc = "begun" /\ stop'[t].app = a /\ ~stop'[t].confirmed
          /\ stop'[t].names = Evidence(a, readable)
          /\ \A q \in Stops : q # t => stop'[q] = stop[q]
      BY <2>1 DEF TypeInv, TypeOK
    <2>4. /\ transition' = [transition EXCEPT ![a] = t] /\ transition[a] = Nobody
          /\ UNCHANGED <<patched, quiet, up>>
      BY <1>22 DEF BeginStop
    <2>5. ASSUME NEW q \in Stops, q # t, stop[q].pc \in Active PROVE transition'[stop[q].app] = q
      <3>1. transition[stop[q].app] = q /\ q # Nobody /\ stop[q].app \in Apps
        BY <2>5, StopIs, RunHoldsAssumption DEF StopInv
      <3>. QED BY <3>1, <2>4 DEF TypeInv, TypeOK
    <2>6. transition'[a] = t
      BY <2>4 DEF TypeInv, TypeOK
    <2>. QED BY <2>2, <2>3, <2>4, <2>5, <2>6 DEF StopInv
  <1>23. ASSUME NEW t \in Stops, StopFindsNothing(t) PROVE StopInv'
    BY <1>23 DEF StopFindsNothing, StopInv, Active, TypeInv, TypeOK
  <1>24. ASSUME NEW t \in Stops, StopUnforked(t) PROVE StopInv'
    <2>1. /\ stop'[t].pc = "ended" /\ stop'[t].app = stop[t].app /\ stop'[t].names = stop[t].names
          /\ \A q \in Stops : q # t => stop'[q] = stop[q]
      BY <1>24 DEF StopUnforked, TypeInv, TypeOK, StopCall
    <2>2. stop[t].pc \in Active /\ UNCHANGED <<transition, patched, quiet, up>>
      BY <1>24 DEF StopUnforked, Active
    <2>. QED BY <2>1, <2>2 DEF StopInv, Active
  <1>25. ASSUME NEW t \in Stops, Quiesce(t) PROVE StopInv'
    <2>1. stop[t].app \in Apps /\ stop[t] \in StopCall /\ ~stop[t].confirmed
      BY <1>25, StopIs DEF Quiesce, Active, StopInv
    <2>2. /\ stop'[t].pc = "asked" /\ stop'[t].app = stop[t].app /\ stop'[t].names = stop[t].names
          /\ \A q \in Stops : q # t => stop'[q] = stop[q]
      BY <1>25, <2>1 DEF Quiesce, TypeInv, TypeOK, StopCall
    <2>3. \A a \in Apps : patched'[a] \subseteq patched[a]
      BY <1>25, QuiesceLowers
    <2>4. stop'[t].confirmed =>
            patched'[stop[t].app] = {} /\ (quiet'[stop[t].app] \/ Main \notin up'[stop[t].app])
      <3>1. CASE /\ patched' = [patched EXCEPT ![stop[t].app] = @ \ {at[stop[t].app]}]
                 /\ quiet' = [quiet EXCEPT ![stop[t].app] = TRUE]
        BY <3>1, <2>1 DEF PatchInv, TypeInv, TypeOK
      <3>2. CASE GameIsGone(stop[t].app) /\ patched' = patched
        <4>1. Main \notin up[stop[t].app]
          BY <3>2, <2>1 DEF GameIsGone, Evidence, PatchInv
        <4>. QED BY <1>25, <3>2, <2>1, <4>1 DEF Quiesce, PatchInv
      <3>3. CASE stop' = [stop EXCEPT ![t].pc = "asked"]
        BY <3>3, <2>1 DEF TypeInv, TypeOK, StopCall
      <3>. QED BY <1>25, <3>1, <3>2, <3>3 DEF Quiesce
    <2>5. \A q \in Stops : q # t /\ stop[q].pc = "asked" /\ stop[q].confirmed =>
            patched'[stop[q].app] = {} /\ (quiet'[stop[q].app] \/ Main \notin up'[stop[q].app])
      <3>1. \A q \in Stops : stop[q].pc = "asked" => stop[q].app \in Apps
        BY StopIs DEF Active
      <3>2. \A b \in Apps : quiet[b] => quiet'[b]
        BY <1>25, <2>1 DEF Quiesce, TypeInv, TypeOK
      <3>3. up' = up
        BY <1>25 DEF Quiesce
      <3>. QED BY <3>1, <3>2, <3>3, <2>3 DEF StopInv
    <2>6. transition' = transition
      BY <1>25 DEF Quiesce
    <2>7. stop[t].pc \in Active
      BY <1>25 DEF Quiesce, Active
    <2>. QED BY <2>2, <2>4, <2>5, <2>6, <2>7 DEF StopInv
  <1>26. ASSUME NEW t \in Stops, EndCheatEngine(t) PROVE StopInv'
    <2>1. /\ stop'[t].pc = "ended" /\ stop'[t].app = stop[t].app /\ stop'[t].names = stop[t].names
          /\ \A q \in Stops : q # t => stop'[q] = stop[q]
      BY <1>26 DEF EndCheatEngine, TypeInv, TypeOK, StopCall
    <2>. QED BY <1>26, <2>1 DEF EndCheatEngine, ReadyToEnd, StopInv, Active
  <1>27. ASSUME NEW t \in Stops, EndUnproven(t) PROVE StopInv'
    BY <1>27 DEF EndUnproven, StopInv, Active, TypeInv, TypeOK
  <1>28. ASSUME NEW t \in Stops, TakeHolds(t) PROVE StopInv'
    BY <1>28 DEF TakeHolds, StopInv, Active, TypeInv, TypeOK
  <1>29. ASSUME NEW t \in Stops, EndTransition(t) PROVE StopInv'
    <2>1. stop[t].app \in Apps /\ stop[t].pc = "ending"
      BY <1>29, StopIs DEF EndTransition, Active
    <2>2. stop'[t].pc = "done" /\ \A q \in Stops : q # t => stop'[q] = stop[q]
      BY <1>29, <2>1, IdleTypes DEF EndTransition, TypeInv, TypeOK
    <2>3. ASSUME NEW q \in Stops, q # t, stop[q].pc \in Active PROVE transition'[stop[q].app] = q
      <3>1. transition[stop[q].app] = q /\ stop[q].app \in Apps
        BY <2>3, StopIs DEF StopInv
      <3>. QED BY <1>29, <3>1, <2>3, <2>1 DEF EndTransition, TypeInv, TypeOK
    <2>4. UNCHANGED <<patched, quiet, up>>
      BY <1>29 DEF EndTransition
    <2>. QED BY <2>2, <2>3, <2>4 DEF StopInv, Active
  <1>30. ASSUME CommitInstall PROVE StopInv'
    BY <1>30 DEF CommitInstall, StopInv, Active, TypeInv, TypeOK
  <1>31. ASSUME InstallFails PROVE StopInv'
    BY <1>31 DEF InstallFails, StopInv, Active, TypeInv, TypeOK
  <1>32. ASSUME Reload PROVE StopInv'
    <2>1. \A t \in Stops : stop[t].app \in Apps \cup {Nobody}
      BY DEF TypeInv, TypeOK, StopCall
    <2>2. \A t \in Stops : stop'[t].pc \in {"idle", "done"}
      BY <1>32, <2>1, IdleTypes DEF Reload, TypeInv, TypeOK
    <2>. QED BY <2>2 DEF StopInv, Active
  <1>34. ASSUME DeleteState PROVE StopInv'
    BY <1>34 DEF DeleteState, StopInv
  <1>33. CASE UNCHANGED vars
    BY <1>33 DEF vars, StopInv, Active, TypeInv, TypeOK
  <1>. QED BY <1>1, <1>2, <1>3, <1>4, <1>5, <1>6, <1>7, <1>8, <1>9, <1>10, <1>11, <1>12, <1>13, <1>14, <1>15, <1>16, <1>17, <1>18, <1>19, <1>20, <1>21, <1>22, <1>23, <1>24, <1>25, <1>26, <1>27, <1>28, <1>29, <1>30, <1>31, <1>32, <1>33, <1>34 DEF Next, StopSteps

LEMMA SavedStep ==
    ASSUME TypeInv, SavedInv, ~Transient, [Next]_vars
    PROVE  SavedInv'
  <1>. USE DEF game, ghosts, ce, pointer, record, locks, calls
  <1>1. ASSUME NEW a \in Apps, NEW p \in Programs, ProgramStarts(a, p) PROVE SavedInv'
    BY <1>1 DEF ProgramStarts, SavedInv, Write, Retires
  <1>2. ASSUME NEW a \in Apps, NEW p \in Programs, ProgramEnds(a, p) PROVE SavedInv'
    BY <1>2 DEF ProgramEnds, SavedInv, Write, Retires
  <1>3. ASSUME NEW a \in Apps, NEW p \in Programs, RetryAttach(a, p) PROVE SavedInv'
    BY <1>3 DEF RetryAttach, SavedInv, Write, Retires
  <1>4. ASSUME NEW a \in Apps, Retire(a) PROVE SavedInv'
    BY <1>4 DEF Retire, SavedInv, Write, Retires
  <1>5. ASSUME NEW a \in Apps, Clear(a) PROVE SavedInv'
    BY <1>5 DEF Clear, SavedInv, Write, Retires
  <1>6. ASSUME NEW a \in Apps, Patch(a) PROVE SavedInv'
    BY <1>6 DEF Patch, SavedInv, Write, Retires
  <1>7. ASSUME NEW a \in Apps, Connect(a) PROVE SavedInv'
    BY <1>7 DEF Connect, SavedInv, Write, Retires
  <1>8. ASSUME NEW a \in Apps, CheatEngineExits(a) PROVE SavedInv'
    BY <1>8 DEF CheatEngineExits, SavedInv, Write, Retires
  <1>9. ASSUME NEW a \in Apps, SupervisorDrops(a) PROVE SavedInv'
    BY <1>9 DEF SupervisorDrops, SavedInv, Write, Retires
  <1>10. ASSUME NEW a \in Apps, SupervisorStops(a) PROVE SavedInv'
    BY <1>10 DEF SupervisorStops, SavedInv, Write, Retires
  <1>11. ASSUME NEW a \in Apps, Fork(a) PROVE SavedInv'
    BY <1>11 DEF Fork, SavedInv, Write, Retires
  <1>12. ASSUME NEW a \in Apps, ForkRefused(a) PROVE SavedInv'
    BY <1>12 DEF ForkRefused, SavedInv, Write, Retires
  <1>13. ASSUME NEW a \in Apps, RetireSession(a) PROVE SavedInv'
    BY <1>13 DEF RetireSession, SavedInv, Write, Retires
  <1>14. ASSUME NEW a \in Apps, NEW b \in BOOLEAN, SetConsent(a, b) PROVE SavedInv'
    BY <1>14 DEF SetConsent, SavedInv, Write, Retires
  <1>15. ASSUME NEW a \in Apps, NEW b \in BOOLEAN, SetAutoload(a, b) PROVE SavedInv'
    BY <1>15 DEF SetAutoload, SavedInv, Write, Retires
  <1>16. ASSUME NEW s \in Starts, NEW a \in Apps, NEW i \in Intents, StartAsks(s, a, i) PROVE SavedInv'
    BY <1>16 DEF StartAsks, SavedInv, Write, Retires
  <1>17. ASSUME NEW s \in Starts, Admit(s) PROVE SavedInv'
    BY <1>17 DEF Admit, SavedInv, Write, Retires
  <1>18. ASSUME NEW s \in Starts, Revalidate(s) PROVE SavedInv'
    BY <1>18 DEF Revalidate, SavedInv, Write, Retires
  <1>19. ASSUME NEW s \in Starts, Publish(s) PROVE SavedInv'
    BY <1>19 DEF Publish, SavedInv, Write, Retires
  <1>20. ASSUME NEW s \in Starts, Refuse(s) PROVE SavedInv'
    BY <1>20 DEF Refuse, SavedInv, Write, Retires
  <1>21. ASSUME NEW s \in Starts, StartReturns(s) PROVE SavedInv'
    BY <1>21 DEF StartReturns, SavedInv, Write, Retires
  <1>22. ASSUME NEW t \in Stops, NEW a \in Apps, NEW r \in {"game", "operation"}, NEW h \in BOOLEAN, BeginStop(t, a, r, h) PROVE SavedInv'
    BY <1>22 DEF BeginStop, SavedInv, Write, Retires
  <1>23. ASSUME NEW t \in Stops, StopFindsNothing(t) PROVE SavedInv'
    BY <1>23 DEF StopFindsNothing, SavedInv, Write, Retires
  <1>24. ASSUME NEW t \in Stops, StopUnforked(t) PROVE SavedInv'
    BY <1>24 DEF StopUnforked, SavedInv, Write, Retires
  <1>25. ASSUME NEW t \in Stops, Quiesce(t) PROVE SavedInv'
    BY <1>25 DEF Quiesce, SavedInv, Write, Retires
  <1>26. ASSUME NEW t \in Stops, EndCheatEngine(t) PROVE SavedInv'
    BY <1>26 DEF EndCheatEngine, SavedInv, Write, Retires
  <1>27. ASSUME NEW t \in Stops, EndUnproven(t) PROVE SavedInv'
    BY <1>27 DEF EndUnproven, SavedInv, Write, Retires
  <1>28. ASSUME NEW t \in Stops, TakeHolds(t) PROVE SavedInv'
    BY <1>28 DEF TakeHolds, SavedInv, Write, Retires
  <1>29. ASSUME NEW t \in Stops, EndTransition(t) PROVE SavedInv'
    BY <1>29 DEF EndTransition, SavedInv, Write, Retires
  <1>30. ASSUME CommitInstall PROVE SavedInv'
    BY <1>30 DEF CommitInstall, SavedInv, Write, Retires
  <1>31. ASSUME InstallFails PROVE SavedInv'
    BY <1>31 DEF InstallFails, SavedInv, Write, Retires
  <1>32. ASSUME Reload PROVE SavedInv'
    BY <1>32 DEF Reload, SavedInv, Write, Retires
  <1>34. ASSUME DeleteState PROVE SavedInv'
    BY <1>34 DEF DeleteState
  <1>33. CASE UNCHANGED vars
    BY <1>33 DEF vars, SavedInv, Write, Retires
  <1>. QED BY <1>1, <1>2, <1>3, <1>4, <1>5, <1>6, <1>7, <1>8, <1>9, <1>10, <1>11, <1>12, <1>13, <1>14, <1>15, <1>16, <1>17, <1>18, <1>19, <1>20, <1>21, <1>22, <1>23, <1>24, <1>25, <1>26, <1>27, <1>28, <1>29, <1>30, <1>31, <1>32, <1>33, <1>34 DEF Next, StopSteps

LEMMA HeldStep ==
    ASSUME TypeInv, PatchInv, StopInv, SavedInv, HeldInv, ~Retries, ~Unproven, ~Transient, ~Fails, ~Forgets,
           [Next]_vars
    PROVE  HeldInv'
  <1>. USE DEF game, ghosts, ce, pointer, record, locks, calls
  <1>1. ASSUME NEW a \in Apps, NEW p \in Programs, ProgramStarts(a, p) PROVE HeldInv'
    <2>1. \A b \in Apps : left[b] # {} => Identity(b, Main)' = Identity(b, Main)
      BY <1>1, RunHoldsAssumption DEF ProgramStarts, PatchInv, Identity, TypeInv, TypeOK
    <2>2. UNCHANGED <<transition, stop, unreadable, left, holds>>
      BY <1>1 DEF ProgramStarts
    <2>. SUFFICES ASSUME NEW b \in Apps, left'[b] # {}
                  PROVE  unreadable' \/ Awaited(b)' \/ Stands(b, holds[b]["dirty"])'
      BY DEF HeldInv
    <2>3. CASE Awaited(b)
      BY <2>3, <2>2 DEF Awaited
    <2>4. CASE Stands(b, holds[b]["dirty"])
      BY <2>4, <2>1, <2>2 DEF Stands
    <2>. QED BY <2>2, <2>3, <2>4 DEF HeldInv
  <1>2. ASSUME NEW a \in Apps, NEW p \in Programs, ProgramEnds(a, p) PROVE HeldInv'
    BY <1>2 DEF ProgramEnds, HeldInv, Awaited, Stands, Identity, TypeInv, TypeOK
  <1>3. ASSUME NEW a \in Apps, NEW p \in Programs, RetryAttach(a, p) PROVE HeldInv'
    BY <1>3 DEF RetryAttach, HeldInv, Awaited, Stands, Identity, TypeInv, TypeOK
  <1>4. ASSUME NEW a \in Apps, Retire(a) PROVE HeldInv'
    <2>1. PICK over \in SUBSET Kinds : Retires(a, over)
      BY <1>4 DEF Retire
    <2>2. \A b \in Apps : left[b] # {} /\ Stands(b, holds[b]["dirty"]) => holds'[b]["dirty"] = holds[b]["dirty"]
      BY <2>1, RetiresStanding
    <2>. QED BY <1>4, <2>2, StaysHeld DEF Retire
  <1>5. ASSUME NEW a \in Apps, Clear(a) PROVE HeldInv'
    <2>. SUFFICES ASSUME NEW b \in Apps, left'[b] # {}
                  PROVE  unreadable' \/ Awaited(b)' \/ Stands(b, holds[b]["dirty"])'
      BY DEF HeldInv
    <2>1. ~unreadable /\ b # a /\ left'[b] = left[b]
      BY <1>5 DEF Clear
    <2>2. holds'[b] = holds[b]
      BY <1>5, <2>1 DEF Clear, Write, Without, TypeInv, TypeOK
    <2>3. UNCHANGED <<transition, stop, runs>>
      BY <1>5 DEF Clear
    <2>4. CASE Awaited(b)
      BY <2>4, <2>3 DEF Awaited
    <2>5. CASE Stands(b, holds[b]["dirty"])
      BY <2>5, <2>2, <2>3 DEF Stands, Identity
    <2>. QED BY <2>1, <2>4, <2>5 DEF HeldInv
  <1>6. ASSUME NEW a \in Apps, Patch(a) PROVE HeldInv'
    BY <1>6 DEF Patch, HeldInv, Awaited, Stands, Identity, TypeInv, TypeOK
  <1>7. ASSUME NEW a \in Apps, Connect(a) PROVE HeldInv'
    BY <1>7 DEF Connect, HeldInv, Awaited, Stands, Identity, TypeInv, TypeOK
  <1>8. ASSUME NEW a \in Apps, CheatEngineExits(a) PROVE HeldInv'
    BY <1>8 DEF CheatEngineExits, HeldInv, Awaited, Stands, Identity, TypeInv, TypeOK
  <1>9. ASSUME NEW a \in Apps, SupervisorDrops(a) PROVE HeldInv'
    <2>1. alive[a] /\ owned[a] = "live" => patched[a] = {}
      BY DEF PatchInv
    <2>2. left' = left
      BY <1>9, <2>1 DEF SupervisorDrops, TypeInv, TypeOK
    <2>. QED BY <1>9, <2>2 DEF SupervisorDrops, HeldInv, Awaited, Stands, Identity
  <1>10. ASSUME NEW a \in Apps, SupervisorStops(a) PROVE HeldInv'
    <2>1. left'[a] = left[a] /\ \A b \in Apps : b # a => left'[b] = left[b]
      BY <1>10 DEF SupervisorStops, PatchInv, TypeInv, TypeOK
    <2>2. UNCHANGED <<transition, stop, unreadable, runs, holds>>
      BY <1>10 DEF SupervisorStops
    <2>. SUFFICES ASSUME NEW b \in Apps, left'[b] # {}
                  PROVE  unreadable' \/ Awaited(b)' \/ Stands(b, holds[b]["dirty"])'
      BY DEF HeldInv
    <2>3. CASE Awaited(b)
      BY <2>3, <2>2 DEF Awaited
    <2>4. CASE Stands(b, holds[b]["dirty"])
      BY <2>4, <2>2 DEF Stands, Identity
    <2>. QED BY <2>1, <2>2, <2>3, <2>4 DEF HeldInv
  <1>11. ASSUME NEW a \in Apps, Fork(a) PROVE HeldInv'
    <2>1. PICK over \in SUBSET Kinds : Retires(a, over)
      BY <1>11 DEF Fork
    <2>2. \A b \in Apps : left[b] # {} /\ Stands(b, holds[b]["dirty"]) => holds'[b]["dirty"] = holds[b]["dirty"]
      BY <2>1, RetiresStanding
    <2>. QED BY <1>11, <2>2, StaysHeld DEF Fork
  <1>12. ASSUME NEW a \in Apps, ForkRefused(a) PROVE HeldInv'
    BY <1>12 DEF ForkRefused, HeldInv, Awaited, Stands, Identity, TypeInv, TypeOK
  <1>13. ASSUME NEW a \in Apps, RetireSession(a) PROVE HeldInv'
    BY <1>13 DEF RetireSession, HeldInv, Awaited, Stands, Identity, TypeInv, TypeOK
  <1>14. ASSUME NEW a \in Apps, NEW b \in BOOLEAN, SetConsent(a, b) PROVE HeldInv'
    BY <1>14 DEF SetConsent, HeldInv, Awaited, Stands, Identity, TypeInv, TypeOK
  <1>15. ASSUME NEW a \in Apps, NEW b \in BOOLEAN, SetAutoload(a, b) PROVE HeldInv'
    <2>1. \A c \in Apps : holds'[c]["dirty"] = holds[c]["dirty"]
      BY <1>15, LiftsStopped DEF SetAutoload
    <2>. QED BY <1>15, <2>1, StaysHeld DEF SetAutoload
  <1>16. ASSUME NEW s \in Starts, NEW a \in Apps, NEW i \in Intents, StartAsks(s, a, i) PROVE HeldInv'
    <2>1. PICK over \in SUBSET Kinds : Retires(a, over)
      BY <1>16 DEF StartAsks
    <2>2. \A b \in Apps : left[b] # {} /\ Stands(b, holds[b]["dirty"]) => holds'[b]["dirty"] = holds[b]["dirty"]
      BY <2>1, RetiresStanding
    <2>. QED BY <1>16, <2>2, StaysHeld DEF StartAsks
  <1>17. ASSUME NEW s \in Starts, Admit(s) PROVE HeldInv'
    <2>1. start[s].app \in Apps
      BY <1>17 DEF Admit, TypeInv, Located
    <2>2. PICK over \in SUBSET Kinds : Retires(start[s].app, over)
      BY <1>17 DEF Admit
    <2>3. \A b \in Apps : left[b] # {} /\ Stands(b, holds[b]["dirty"]) => holds'[b]["dirty"] = holds[b]["dirty"]
      BY <2>1, <2>2, RetiresStanding
    <2>. QED BY <1>17, <2>3, StaysHeld DEF Admit
  <1>18. ASSUME NEW s \in Starts, Revalidate(s) PROVE HeldInv'
    BY <1>18 DEF Revalidate, HeldInv, Awaited, Stands, Identity, TypeInv, TypeOK
  <1>19. ASSUME NEW s \in Starts, Publish(s) PROVE HeldInv'
    BY <1>19 DEF Publish, HeldInv, Awaited, Stands, Identity, TypeInv, TypeOK
  <1>20. ASSUME NEW s \in Starts, Refuse(s) PROVE HeldInv'
    BY <1>20 DEF Refuse, HeldInv, Awaited, Stands, Identity, TypeInv, TypeOK
  <1>21. ASSUME NEW s \in Starts, StartReturns(s) PROVE HeldInv'
    <2>1. start[s].app \in Apps
      BY <1>21 DEF StartReturns, TypeInv, Located
    <2>2. \A c \in Apps : holds'[c]["dirty"] = holds[c]["dirty"]
      BY <1>21, <2>1, LiftsStopped DEF StartReturns
    <2>. QED BY <1>21, <2>2, StaysHeld DEF StartReturns
  <1>22. ASSUME NEW t \in Stops, NEW a \in Apps, NEW r \in {"game", "operation"}, NEW h \in BOOLEAN, BeginStop(t, a, r, h) PROVE HeldInv'
    <2>1. \A q \in Stops : q # t => stop'[q] = stop[q]
      BY <1>22 DEF BeginStop, TypeInv, TypeOK
    <2>2. transition[a] = Nobody /\ transition' = [transition EXCEPT ![a] = t] /\ stop[t].pc = "idle"
      BY <1>22 DEF BeginStop
    <2>3. UNCHANGED <<unreadable, runs, left, holds>>
      BY <1>22 DEF BeginStop
    <2>. SUFFICES ASSUME NEW b \in Apps, left'[b] # {}
                  PROVE  unreadable' \/ Awaited(b)' \/ Stands(b, holds[b]["dirty"])'
      BY DEF HeldInv
    <2>4. CASE Awaited(b)
      <3>1. b # a /\ transition[b] # t
        BY <2>2, <2>4, RunHoldsAssumption DEF Awaited
      <3>2. transition'[b] = transition[b]
        BY <2>2, <3>1 DEF TypeInv, TypeOK
      <3>. QED BY <2>1, <2>4, <3>1, <3>2 DEF Awaited
    <2>5. CASE Stands(b, holds[b]["dirty"])
      BY <2>5, <2>3 DEF Stands, Identity
    <2>. QED BY <2>3, <2>4, <2>5 DEF HeldInv
  <1>23. ASSUME NEW t \in Stops, StopFindsNothing(t) PROVE HeldInv'
    <2>1. stop[t].pc # "ended" /\ \A q \in Stops : q # t => stop'[q] = stop[q]
      BY <1>23 DEF StopFindsNothing, TypeInv, TypeOK
    <2>2. UNCHANGED <<transition, unreadable, runs, left, holds>>
      BY <1>23 DEF StopFindsNothing
    <2>. QED BY <2>1, <2>2, StopMoves
  <1>24. ASSUME NEW t \in Stops, StopUnforked(t) PROVE HeldInv'
    <2>1. stop[t].pc # "ended" /\ \A q \in Stops : q # t => stop'[q] = stop[q]
      BY <1>24 DEF StopUnforked, TypeInv, TypeOK
    <2>2. UNCHANGED <<transition, unreadable, runs, left, holds>>
      BY <1>24 DEF StopUnforked
    <2>. QED BY <2>1, <2>2, StopMoves
  <1>25. ASSUME NEW t \in Stops, Quiesce(t) PROVE HeldInv'
    <2>1. stop[t].pc # "ended" /\ \A q \in Stops : q # t => stop'[q] = stop[q]
      BY <1>25 DEF Quiesce, TypeInv, TypeOK
    <2>2. UNCHANGED <<transition, unreadable, runs, left, holds>>
      BY <1>25 DEF Quiesce
    <2>. QED BY <2>1, <2>2, StopMoves
  <1>26. ASSUME NEW t \in Stops, EndCheatEngine(t) PROVE HeldInv'
    <2>. DEFINE a == stop[t].app
    <2>1. a \in Apps /\ stop[t] \in StopCall /\ stop[t].pc \in Active /\ stop[t].pc # "ended"
      BY <1>26, StopIs DEF EndCheatEngine, ReadyToEnd, Active
    <2>2. /\ stop'[t] = [stop[t] EXCEPT !.pc = "ended"]
          /\ \A q \in Stops : q # t => stop'[q] = stop[q]
      BY <1>26 DEF EndCheatEngine, TypeInv, TypeOK
    <2>3. left'[a] = left[a] \cup patched[a] /\ \A b \in Apps : b # a => left'[b] = left[b]
      BY <1>26, <2>1 DEF EndCheatEngine, Leaves, TypeInv, TypeOK
    <2>4. UNCHANGED <<transition, unreadable, runs, holds>>
      BY <1>26 DEF EndCheatEngine
    <2>. SUFFICES ASSUME NEW b \in Apps, left'[b] # {}
                  PROVE  unreadable' \/ Awaited(b)' \/ Stands(b, holds[b]["dirty"])'
      BY DEF HeldInv
    <2>10. CASE b = a /\ stop[t].confirmed
      <3>1. left[a] # {}
        BY <1>26, <2>3, <2>10 DEF EndCheatEngine, ReadyToEnd, StopInv
      <3>2. ~Awaited(a)
        BY <2>1, <2>10 DEF StopInv, Awaited
      <3>. QED BY <2>1, <2>4, <2>10, <3>1, <3>2 DEF HeldInv, Stands, Identity
    <2>5. CASE b = a /\ ~stop[t].confirmed
      <3>1. ~stop[t].confirmed
        BY <2>5
      <3>2. transition[a] = t
        BY <2>1 DEF StopInv
      <3>3. stop'[t].pc = "ended" /\ stop'[t].app = a /\ ~stop'[t].confirmed
        BY <2>1, <2>2, <3>1 DEF StopCall
      <3>. QED BY <2>4, <2>5, <3>2, <3>3 DEF Awaited
    <2>6. CASE b # a /\ Awaited(b)
      BY <2>1, <2>2, <2>4, <2>6 DEF Awaited
    <2>7. CASE b # a /\ Stands(b, holds[b]["dirty"])
      BY <2>4, <2>7 DEF Stands, Identity
    <2>. QED BY <2>3, <2>4, <2>5, <2>6, <2>7, <2>10 DEF HeldInv
  <1>27. ASSUME NEW t \in Stops, EndUnproven(t) PROVE HeldInv'
    BY <1>27 DEF EndUnproven, HeldInv, Awaited, Stands, Identity, TypeInv, TypeOK
  <1>28. ASSUME NEW t \in Stops, TakeHolds(t) PROVE HeldInv'
    <2>. DEFINE a == stop[t].app
                names == stop[t].names
                taken(n) == {[ids |-> i, names |-> n, since |-> t] : i \in Captured(a, n)}
                lifted == names # {} /\ names \cap up[a] = {}
    <2>1. a \in Apps /\ stop[t].pc = "ended" /\ stop[t].pc \in Active
      BY <1>28, StopIs DEF TakeHolds, Active
    <2>2. \A q \in Stops : q # t => stop'[q] = stop[q]
      BY <1>28 DEF TakeHolds, TypeInv, TypeOK
    <2>3. UNCHANGED <<transition, unreadable, runs, left, up>>
      BY <1>28 DEF TakeHolds
    <2>4. transition[a] = t /\ names \subseteq {Main}
      BY <2>1 DEF StopInv
    <2>5. PICK d \in IF stop[t].confirmed THEN {holds[a]["dirty"]}
                     ELSE taken(names) \cup (IF lifted THEN {holds[a]["dirty"]} ELSE {}) :
            /\ holds'[a]["dirty"] = d
            /\ \A b \in Apps : b # a => holds'[b] = holds[b]
      <3>1. PICK d \in IF stop[t].confirmed THEN {holds[a]["dirty"]}
                       ELSE taken(names) \cup (IF lifted THEN {holds[a]["dirty"]} ELSE {}),
                 s \in taken(IF names = {} THEN {Main} ELSE names) :
              LET new == [holds EXCEPT ![a] = [k \in Kinds |->
                            IF k = "dirty" THEN d ELSE IF stop[t].hold THEN s ELSE @[k]]] IN
              IF new = holds THEN UNCHANGED record ELSE Write(new, unreadable)
        BY <1>28 DEF TakeHolds
      <3>2. holds' = [holds EXCEPT ![a] = [k \in Kinds |->
                        IF k = "dirty" THEN d ELSE IF stop[t].hold THEN s ELSE @[k]]]
        BY <3>1 DEF Write
      <3>3. holds'[a]["dirty"] = d /\ \A b \in Apps : b # a => holds'[b] = holds[b]
        BY <3>2, <2>1 DEF TypeInv, TypeOK, Kinds
      <3>. QED BY <3>1, <3>3
    <2>. SUFFICES ASSUME NEW b \in Apps, left'[b] # {}
                  PROVE  unreadable' \/ Awaited(b)' \/ Stands(b, holds[b]["dirty"])'
      BY DEF HeldInv
    <2>6. CASE b # a /\ Awaited(b)
      BY <2>2, <2>3, <2>6 DEF Awaited
    <2>7. CASE b # a /\ Stands(b, holds[b]["dirty"])
      BY <2>3, <2>5, <2>7 DEF Stands, Identity
    <2>8. CASE b = a /\ stop[t].confirmed
      <3>1. d = holds[a]["dirty"]
        BY <2>5, <2>8
      <3>2. left[a] # {} /\ ~Awaited(a)
        BY <2>3, <2>4, <2>8 DEF Awaited
      <3>3. unreadable \/ Stands(a, holds'[a]["dirty"])
        BY <2>1, <2>5, <3>1, <3>2 DEF HeldInv
      <3>. QED BY <2>3, <2>8, <3>3 DEF Stands, Identity
    <2>9. CASE b = a /\ ~stop[t].confirmed
      <3>1. Main \in up[a]
        BY <2>3, <2>9 DEF PatchInv
      <3>2. ~lifted
        BY <2>4, <3>1
      <3>3. PICK i \in Captured(a, names) : d = [ids |-> i, names |-> names, since |-> t]
        BY <2>5, <2>9, <3>2
      <3>4. i \subseteq {Identity(a, Main)}
        BY <2>4 DEF Captured, Identities
      <3>5. Stands(a, d)
        BY <3>3, <3>4, <2>4 DEF Stands
      <3>. QED BY <2>3, <2>5, <2>9, <3>5 DEF Stands, Identity
    <2>. QED BY <2>3, <2>6, <2>7, <2>8, <2>9 DEF HeldInv
  <1>29. ASSUME NEW t \in Stops, EndTransition(t) PROVE HeldInv'
    BY <1>29 DEF EndTransition, HeldInv, Awaited, Stands, Identity, TypeInv, TypeOK
  <1>30. ASSUME CommitInstall PROVE HeldInv'
    BY <1>30, StaysHeld DEF CommitInstall
  <1>31. ASSUME InstallFails PROVE HeldInv'
    BY <1>31 DEF InstallFails, HeldInv, Awaited, Stands, Identity, TypeInv, TypeOK
  <1>32. ASSUME Reload PROVE HeldInv'
    <2>. SUFFICES ASSUME NEW b \in Apps, left'[b] # {}, ~unreadable'
                  PROVE  Stands(b, holds[b]["dirty"])'
      BY DEF HeldInv
    <2>1. ~unreadable /\ holds' = file /\ runs' = runs
      BY <1>32 DEF Reload
    <2>2. /\ left'[b] = left[b] /\ ~unsaved
          /\ ~\E t \in Stops : stop[t].pc = "ended" /\ stop[t].app = b
      BY <1>32, <2>1 DEF Reload, TypeInv, TypeOK
    <2>3. file = holds
      BY <2>1, <2>2 DEF SavedInv
    <2>4. Stands(b, holds[b]["dirty"])
      BY <2>1, <2>2 DEF HeldInv, Awaited
    <2>. QED BY <2>1, <2>3, <2>4 DEF Stands, Identity
  <1>34. ASSUME DeleteState PROVE HeldInv'
    BY <1>34 DEF DeleteState
  <1>33. CASE UNCHANGED vars
    BY <1>33 DEF vars, HeldInv, Awaited, Stands, Identity, TypeInv, TypeOK
  <1>. QED BY <1>1, <1>2, <1>3, <1>4, <1>5, <1>6, <1>7, <1>8, <1>9, <1>10, <1>11, <1>12, <1>13, <1>14, <1>15, <1>16, <1>17, <1>18, <1>19, <1>20, <1>21, <1>22, <1>23, <1>24, <1>25, <1>26, <1>27, <1>28, <1>29, <1>30, <1>31, <1>32, <1>33, <1>34 DEF Next, StopSteps

\* A Cheat Engine is forked by the gate alone.
LEMMA OnlyTheGateForks ==
    ASSUME TypeInv, [Next]_vars
    PROVE  \A c \in Apps : Forks(c) => Fork(c)
  <1>. USE DEF game, ghosts, ce, pointer, record, locks, calls
  <1>1. ASSUME NEW a \in Apps, NEW p \in Programs, ProgramStarts(a, p) PROVE \A c \in Apps : Forks(c) => Fork(c)
    BY <1>1 DEF ProgramStarts, Forks, TypeInv, TypeOK
  <1>2. ASSUME NEW a \in Apps, NEW p \in Programs, ProgramEnds(a, p) PROVE \A c \in Apps : Forks(c) => Fork(c)
    BY <1>2 DEF ProgramEnds, Forks, TypeInv, TypeOK
  <1>3. ASSUME NEW a \in Apps, NEW p \in Programs, RetryAttach(a, p) PROVE \A c \in Apps : Forks(c) => Fork(c)
    BY <1>3 DEF RetryAttach, Forks, TypeInv, TypeOK
  <1>4. ASSUME NEW a \in Apps, Retire(a) PROVE \A c \in Apps : Forks(c) => Fork(c)
    BY <1>4 DEF Retire, Forks, TypeInv, TypeOK
  <1>5. ASSUME NEW a \in Apps, Clear(a) PROVE \A c \in Apps : Forks(c) => Fork(c)
    BY <1>5 DEF Clear, Forks, TypeInv, TypeOK
  <1>6. ASSUME NEW a \in Apps, Patch(a) PROVE \A c \in Apps : Forks(c) => Fork(c)
    BY <1>6 DEF Patch, Forks, TypeInv, TypeOK
  <1>7. ASSUME NEW a \in Apps, Connect(a) PROVE \A c \in Apps : Forks(c) => Fork(c)
    BY <1>7 DEF Connect, Forks, TypeInv, TypeOK
  <1>8. ASSUME NEW a \in Apps, CheatEngineExits(a) PROVE \A c \in Apps : Forks(c) => Fork(c)
    BY <1>8 DEF CheatEngineExits, Forks, TypeInv, TypeOK
  <1>9. ASSUME NEW a \in Apps, SupervisorDrops(a) PROVE \A c \in Apps : Forks(c) => Fork(c)
    BY <1>9 DEF SupervisorDrops, Forks, TypeInv, TypeOK
  <1>10. ASSUME NEW a \in Apps, SupervisorStops(a) PROVE \A c \in Apps : Forks(c) => Fork(c)
    BY <1>10 DEF SupervisorStops, Forks, TypeInv, TypeOK
  <1>11. ASSUME NEW a \in Apps, Fork(a) PROVE \A c \in Apps : Forks(c) => Fork(c)
    <2>1. owned'[a] = "live" /\ \A b \in Apps : b # a => owned'[b] = owned[b]
      BY <1>11 DEF Fork, TypeInv, TypeOK
    <2>. QED BY <1>11, <2>1 DEF Forks
  <1>12. ASSUME NEW a \in Apps, ForkRefused(a) PROVE \A c \in Apps : Forks(c) => Fork(c)
    BY <1>12 DEF ForkRefused, Forks, TypeInv, TypeOK
  <1>13. ASSUME NEW a \in Apps, RetireSession(a) PROVE \A c \in Apps : Forks(c) => Fork(c)
    BY <1>13 DEF RetireSession, Forks, TypeInv, TypeOK
  <1>14. ASSUME NEW a \in Apps, NEW b \in BOOLEAN, SetConsent(a, b) PROVE \A c \in Apps : Forks(c) => Fork(c)
    BY <1>14 DEF SetConsent, Forks, TypeInv, TypeOK
  <1>15. ASSUME NEW a \in Apps, NEW b \in BOOLEAN, SetAutoload(a, b) PROVE \A c \in Apps : Forks(c) => Fork(c)
    BY <1>15 DEF SetAutoload, Forks, TypeInv, TypeOK
  <1>16. ASSUME NEW s \in Starts, NEW a \in Apps, NEW i \in Intents, StartAsks(s, a, i) PROVE \A c \in Apps : Forks(c) => Fork(c)
    BY <1>16 DEF StartAsks, Forks, TypeInv, TypeOK
  <1>17. ASSUME NEW s \in Starts, Admit(s) PROVE \A c \in Apps : Forks(c) => Fork(c)
    BY <1>17 DEF Admit, Forks, TypeInv, TypeOK
  <1>18. ASSUME NEW s \in Starts, Revalidate(s) PROVE \A c \in Apps : Forks(c) => Fork(c)
    BY <1>18 DEF Revalidate, Forks, TypeInv, TypeOK
  <1>19. ASSUME NEW s \in Starts, Publish(s) PROVE \A c \in Apps : Forks(c) => Fork(c)
    BY <1>19 DEF Publish, Forks, TypeInv, TypeOK
  <1>20. ASSUME NEW s \in Starts, Refuse(s) PROVE \A c \in Apps : Forks(c) => Fork(c)
    BY <1>20 DEF Refuse, Forks, TypeInv, TypeOK
  <1>21. ASSUME NEW s \in Starts, StartReturns(s) PROVE \A c \in Apps : Forks(c) => Fork(c)
    BY <1>21 DEF StartReturns, Forks, TypeInv, TypeOK
  <1>22. ASSUME NEW t \in Stops, NEW a \in Apps, NEW r \in {"game", "operation"}, NEW h \in BOOLEAN, BeginStop(t, a, r, h) PROVE \A c \in Apps : Forks(c) => Fork(c)
    BY <1>22 DEF BeginStop, Forks, TypeInv, TypeOK
  <1>23. ASSUME NEW t \in Stops, StopFindsNothing(t) PROVE \A c \in Apps : Forks(c) => Fork(c)
    BY <1>23 DEF StopFindsNothing, Forks, TypeInv, TypeOK
  <1>24. ASSUME NEW t \in Stops, StopUnforked(t) PROVE \A c \in Apps : Forks(c) => Fork(c)
    BY <1>24 DEF StopUnforked, Forks, TypeInv, TypeOK
  <1>25. ASSUME NEW t \in Stops, Quiesce(t) PROVE \A c \in Apps : Forks(c) => Fork(c)
    BY <1>25 DEF Quiesce, Forks, TypeInv, TypeOK
  <1>26. ASSUME NEW t \in Stops, EndCheatEngine(t) PROVE \A c \in Apps : Forks(c) => Fork(c)
    BY <1>26 DEF EndCheatEngine, Forks, TypeInv, TypeOK
  <1>27. ASSUME NEW t \in Stops, EndUnproven(t) PROVE \A c \in Apps : Forks(c) => Fork(c)
    BY <1>27 DEF EndUnproven, Forks, TypeInv, TypeOK
  <1>28. ASSUME NEW t \in Stops, TakeHolds(t) PROVE \A c \in Apps : Forks(c) => Fork(c)
    BY <1>28 DEF TakeHolds, Forks, TypeInv, TypeOK
  <1>29. ASSUME NEW t \in Stops, EndTransition(t) PROVE \A c \in Apps : Forks(c) => Fork(c)
    BY <1>29 DEF EndTransition, Forks, TypeInv, TypeOK
  <1>30. ASSUME CommitInstall PROVE \A c \in Apps : Forks(c) => Fork(c)
    BY <1>30 DEF CommitInstall, Forks, TypeInv, TypeOK
  <1>31. ASSUME InstallFails PROVE \A c \in Apps : Forks(c) => Fork(c)
    BY <1>31 DEF InstallFails, Forks, TypeInv, TypeOK
  <1>32. ASSUME Reload PROVE \A c \in Apps : Forks(c) => Fork(c)
    BY <1>32 DEF Reload, Forks, TypeInv, TypeOK
  <1>34. ASSUME DeleteState PROVE \A c \in Apps : Forks(c) => Fork(c)
    BY <1>34 DEF DeleteState, Forks
  <1>33. CASE UNCHANGED vars
    BY <1>33 DEF vars, Forks, TypeInv, TypeOK
  <1>. QED BY <1>1, <1>2, <1>3, <1>4, <1>5, <1>6, <1>7, <1>8, <1>9, <1>10, <1>11, <1>12, <1>13, <1>14, <1>15, <1>16, <1>17, <1>18, <1>19, <1>20, <1>21, <1>22, <1>23, <1>24, <1>25, <1>26, <1>27, <1>28, <1>29, <1>30, <1>31, <1>32, <1>33, <1>34 DEF Next, StopSteps

-----------------------------------------------------------------------------
(* The theorems.                                                            *)

HoldsInv == TypeInv /\ PatchInv /\ StopInv /\ SavedInv /\ HeldInv

LEMMA HoldsInit == Init => HoldsInv
  <1>. SUFFICES ASSUME Init PROVE HoldsInv OBVIOUS
  <1>1. TypeInv
    BY InitInv
  <1>2. PatchInv
    BY DEF Init, PatchInv
  <1>3. StopInv
    BY DEF Init, StopInv, IdleStop, Active
  <1>4. SavedInv /\ HeldInv
    BY DEF Init, SavedInv, HeldInv
  <1>. QED BY <1>1, <1>2, <1>3, <1>4 DEF HoldsInv

LEMMA HoldsAlways ==
    ASSUME ~Retries, ~Unproven, ~Transient, ~Returns, ~Fails, ~Forgets
    PROVE  Spec => []HoldsInv
  <1>1. HoldsInv /\ [Next]_vars => HoldsInv'
    BY TypeStep, PatchStep, StopStep, SavedStep, HeldStep DEF HoldsInv
  <1>. QED BY <1>1, HoldsInit, PTL DEF Spec

\* A program a Cheat Engine of ours was ended over, and that still runs with its
\* patches, is refused every start (stop_ce_for_game, _hold_after_stop): through
\* failed saves, reloads at any step, other stops and polls that retire holds.
THEOREM LeftStaysHeld ==
    ASSUME ~Retries, ~Unproven, ~Transient, ~Returns, ~Fails, ~Forgets
    PROVE  Spec => []LeftIsHeld
  <1>1. HoldsInv => LeftIsHeld
    <2>. SUFFICES ASSUME HoldsInv, NEW a \in Apps, left[a] # {} PROVE Refused(a)
      BY DEF LeftIsHeld
    <2>1. CASE Awaited(a)
      BY <2>1, RunHoldsAssumption DEF Awaited, Refused, Settling
    <2>2. CASE Stands(a, holds[a]["dirty"])
      BY <2>2, StandingIsNotOver DEF HoldsInv, Refused
    <2>. QED BY <2>1, <2>2 DEF HoldsInv, HeldInv, Refused
  <1>. QED BY <1>1, HoldsAlways, PTL

\* No Cheat Engine is forked into a game whose program still runs with what an
\* earlier one left (_spawn_gate): the gate asks after every await there was.
THEOREM NoForkOver ==
    ASSUME ~Retries, ~Unproven, ~Transient, ~Returns, ~Fails, ~Forgets
    PROVE  Spec => NoForkOverLeft
  <1>1. ASSUME HoldsInv, [Next]_vars, NEW a \in Apps, Forks(a) PROVE left[a] = {}
    <2>. SUFFICES ASSUME left[a] # {} PROVE FALSE OBVIOUS
    <2>1. Fork(a)
      BY <1>1, OnlyTheGateForks DEF HoldsInv
    <2>2. PICK over \in SUBSET Kinds :
            Retires(a, over) /\ Admissible(a, start[op[a]].intent, over)
      BY <2>1 DEF Fork
    <2>3. ~unreadable /\ ~Awaited(a)
      BY <2>2, RunHoldsAssumption DEF Admissible, Awaited
    <2>4. Stands(a, holds[a]["dirty"])
      BY <1>1, <2>3 DEF HoldsInv, HeldInv
    <2>5. holds[a]["dirty"] # NoHold /\ ~IsOver(a, holds[a]["dirty"])
      BY <1>1, <2>4, StandingIsNotOver DEF HoldsInv
    <2>6. "dirty" \notin over
      BY <2>2, <2>5 DEF Retires
    <2>. QED BY <2>2, <2>5, <2>6 DEF Admissible
  <1>2. HoldsInv /\ [Next]_vars => [\A a \in Apps : Forks(a) => left[a] = {}]_vars
    BY <1>1
  <1>. QED BY <1>2, HoldsAlways, PTL DEF Spec, NoForkOverLeft

-----------------------------------------------------------------------------
(* Consent at the fork.  The gate does not read the profile: the consent    *)
(* stands because it cannot be withdrawn while a start has its reservation   *)
(* or a launch is published.  A second start of the game that is refused     *)
(* gives the first one's reservation back, hence the hypothesis.             *)

UnderWay == {"asked", "admitted", "checked", "published"}

\* No two starts of one game are under way together.
OneStartAGame ==
    \A s, u \in Starts :
        start[s].pc \in UnderWay /\ start[u].pc \in UnderWay /\ start[s].app = start[u].app => s = u

\* A start past its last check still has the reservation, if it has the session;
\* and a published launch of the current session is one of an authorized table.
ConsentInv ==
    /\ \A s \in Starts : LET a == start[s].app IN
         start[s].pc = "checked" /\ session[a] = s => reservation[a] = s /\ profile[a] # "revoked"
    /\ \A a \in Apps : owned[a] = "published" /\ session[a] = op[a] => profile[a] # "revoked"

LEMMA ConsentStep ==
    ASSUME TypeInv, OneStartAGame, ConsentInv, [Next]_vars
    PROVE  ConsentInv'
  <1>. USE DEF game, ghosts, ce, pointer, record, locks, calls
  <1>1. ASSUME NEW a \in Apps, NEW p \in Programs, ProgramStarts(a, p) PROVE ConsentInv'
    BY <1>1 DEF ProgramStarts, ConsentInv, TypeInv, TypeOK, Located
  <1>2. ASSUME NEW a \in Apps, NEW p \in Programs, ProgramEnds(a, p) PROVE ConsentInv'
    BY <1>2 DEF ProgramEnds, ConsentInv, TypeInv, TypeOK, Located
  <1>3. ASSUME NEW a \in Apps, NEW p \in Programs, RetryAttach(a, p) PROVE ConsentInv'
    BY <1>3 DEF RetryAttach, ConsentInv, TypeInv, TypeOK, Located
  <1>4. ASSUME NEW a \in Apps, Retire(a) PROVE ConsentInv'
    BY <1>4 DEF Retire, ConsentInv, TypeInv, TypeOK, Located
  <1>5. ASSUME NEW a \in Apps, Clear(a) PROVE ConsentInv'
    BY <1>5 DEF Clear, ConsentInv, TypeInv, TypeOK, Located
  <1>6. ASSUME NEW a \in Apps, Patch(a) PROVE ConsentInv'
    BY <1>6 DEF Patch, ConsentInv, TypeInv, TypeOK, Located
  <1>7. ASSUME NEW a \in Apps, Connect(a) PROVE ConsentInv'
    BY <1>7 DEF Connect, ConsentInv, TypeInv, TypeOK, Located
  <1>8. ASSUME NEW a \in Apps, CheatEngineExits(a) PROVE ConsentInv'
    BY <1>8 DEF CheatEngineExits, ConsentInv, TypeInv, TypeOK, Located
  <1>9. ASSUME NEW a \in Apps, SupervisorDrops(a) PROVE ConsentInv'
    BY <1>9 DEF SupervisorDrops, ConsentInv, TypeInv, TypeOK, Located
  <1>10. ASSUME NEW a \in Apps, SupervisorStops(a) PROVE ConsentInv'
    BY <1>10 DEF SupervisorStops, ConsentInv, TypeInv, TypeOK, Located
  <1>11. ASSUME NEW a \in Apps, Fork(a) PROVE ConsentInv'
    BY <1>11 DEF Fork, ConsentInv, TypeInv, TypeOK, Located
  <1>12. ASSUME NEW a \in Apps, ForkRefused(a) PROVE ConsentInv'
    BY <1>12 DEF ForkRefused, ConsentInv, TypeInv, TypeOK, Located
  <1>13. ASSUME NEW a \in Apps, RetireSession(a) PROVE ConsentInv'
    BY <1>13, RunHoldsAssumption DEF RetireSession, ConsentInv, TypeInv, TypeOK, Located
  <1>14. ASSUME NEW a \in Apps, NEW b \in BOOLEAN, SetConsent(a, b) PROVE ConsentInv'
    BY <1>14, RunHoldsAssumption DEF SetConsent, Untouched, Free, ConsentInv, TypeInv, TypeOK, Located
  <1>15. ASSUME NEW a \in Apps, NEW b \in BOOLEAN, SetAutoload(a, b) PROVE ConsentInv'
    BY <1>15 DEF SetAutoload, ConsentInv, TypeInv, TypeOK, Located
  <1>16. ASSUME NEW s \in Starts, NEW a \in Apps, NEW i \in Intents, StartAsks(s, a, i) PROVE ConsentInv'
    BY <1>16 DEF StartAsks, ConsentInv, TypeInv, TypeOK, Located
  <1>17. ASSUME NEW s \in Starts, Admit(s) PROVE ConsentInv'
    BY <1>17 DEF Admit, Free, ConsentInv, TypeInv, TypeOK, Located
  <1>18. ASSUME NEW s \in Starts, Revalidate(s) PROVE ConsentInv'
    BY <1>18 DEF Revalidate, Free, ConsentInv, TypeInv, TypeOK, Located
  <1>19. ASSUME NEW s \in Starts, Publish(s) PROVE ConsentInv'
    <2>. PICK a : a = start[s].app
      OBVIOUS
    <2>1. start[s].pc = "checked" /\ a \in Apps
      BY <1>19 DEF Publish, TypeInv, Located
    <2>2. \A u \in Starts : u # s => start'[u] = start[u]
      BY <1>19 DEF Publish, TypeInv, TypeOK
    <2>3. start'[s].pc = "published"
      BY <1>19 DEF Publish, TypeInv, TypeOK
    <2>4. /\ op'[a] = s
          /\ \A b \in Apps : b # a => op'[b] = op[b] /\ owned'[b] = owned[b]
      BY <1>19, <2>1 DEF Publish, TypeInv, TypeOK
    <2>5. UNCHANGED <<session, reservation, profile>>
      BY <1>19 DEF Publish
    <2>. QED BY <2>1, <2>2, <2>3, <2>4, <2>5 DEF ConsentInv
  <1>20. ASSUME NEW s \in Starts, Refuse(s) PROVE ConsentInv'
    BY <1>20 DEF Refuse, IdleStart, OneStartAGame, UnderWay, ConsentInv, TypeInv, TypeOK, Located
  <1>21. ASSUME NEW s \in Starts, StartReturns(s) PROVE ConsentInv'
    BY <1>21 DEF StartReturns, OneStartAGame, UnderWay, ConsentInv, TypeInv, TypeOK, Located
  <1>22. ASSUME NEW t \in Stops, NEW a \in Apps, NEW r \in {"game", "operation"}, NEW h \in BOOLEAN, BeginStop(t, a, r, h) PROVE ConsentInv'
    BY <1>22 DEF BeginStop, ConsentInv, TypeInv, TypeOK, Located
  <1>23. ASSUME NEW t \in Stops, StopFindsNothing(t) PROVE ConsentInv'
    BY <1>23 DEF StopFindsNothing, Free, ConsentInv, TypeInv, TypeOK, Located
  <1>24. ASSUME NEW t \in Stops, StopUnforked(t) PROVE ConsentInv'
    BY <1>24 DEF StopUnforked, ConsentInv, TypeInv, TypeOK, Located
  <1>25. ASSUME NEW t \in Stops, Quiesce(t) PROVE ConsentInv'
    BY <1>25 DEF Quiesce, ConsentInv, TypeInv, TypeOK, Located
  <1>26. ASSUME NEW t \in Stops, EndCheatEngine(t) PROVE ConsentInv'
    BY <1>26 DEF EndCheatEngine, ReadyToEnd, ConsentInv, TypeInv, TypeOK, Located
  <1>27. ASSUME NEW t \in Stops, EndUnproven(t) PROVE ConsentInv'
    BY <1>27 DEF EndUnproven, ReadyToEnd, ConsentInv, TypeInv, TypeOK, Located
  <1>28. ASSUME NEW t \in Stops, TakeHolds(t) PROVE ConsentInv'
    BY <1>28 DEF TakeHolds, ConsentInv, TypeInv, TypeOK, Located
  <1>29. ASSUME NEW t \in Stops, EndTransition(t) PROVE ConsentInv'
    BY <1>29 DEF EndTransition, ConsentInv, TypeInv, TypeOK, Located
  <1>30. ASSUME CommitInstall PROVE ConsentInv'
    BY <1>30 DEF CommitInstall, ConsentInv, TypeInv, TypeOK, Located
  <1>31. ASSUME InstallFails PROVE ConsentInv'
    BY <1>31 DEF InstallFails, ConsentInv, TypeInv, TypeOK, Located
  <1>32. ASSUME Reload PROVE ConsentInv'
    BY <1>32 DEF Reload, IdleStart, ConsentInv, TypeInv, TypeOK, Located
  <1>33. ASSUME DeleteState PROVE ConsentInv'
    BY <1>33, RunHoldsAssumption DEF DeleteState, Free, ConsentInv, TypeInv, TypeOK, Located
  <1>34. CASE UNCHANGED vars
    BY <1>34 DEF vars, ConsentInv
  <1>. QED BY <1>1, <1>2, <1>3, <1>4, <1>5, <1>6, <1>7, <1>8, <1>9, <1>10, <1>11, <1>12, <1>13, <1>14, <1>15, <1>16, <1>17, <1>18, <1>19, <1>20, <1>21, <1>22, <1>23, <1>24, <1>25, <1>26, <1>27, <1>28, <1>29, <1>30, <1>31, <1>32, <1>33, <1>34 DEF Next, StopSteps

\* Every Cheat Engine that appears is one of a table authorized at that moment
\* (_revalidate_launch_reservation, set_execution_consent), as long as no two
\* starts of the game are under way together.
THEOREM ConsentStands == Spec /\ []OneStartAGame => ConsentedAtFork
  <1>1. Init => ConsentInv
    BY DEF Init, ConsentInv, IdleStart
  <1>2. TypeInv /\ OneStartAGame /\ ConsentInv /\ [Next]_vars => ConsentInv'
    BY ConsentStep
  <1>3. ASSUME TypeInv, ConsentInv, [Next]_vars, NEW a \in Apps, Forks(a) PROVE profile[a] # "revoked"
    <2>1. Fork(a)
      BY <1>3, OnlyTheGateForks
    <2>. QED BY <2>1, <1>3 DEF Fork, ConsentInv
  <1>4. TypeInv /\ ConsentInv /\ [Next]_vars => [\A a \in Apps : Forks(a) => profile[a] # "revoked"]_vars
    BY <1>3
  <1>. QED BY <1>1, <1>2, <1>4, SpecInv, PTL DEF Spec, ConsentedAtFork
=============================================================================
