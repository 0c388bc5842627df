----------------------------- MODULE SetupProofs -----------------------------
(***************************************************************************)
(* Proofs about the setup of a Cheat Engine and the panel that drives it,  *)
(* for any number of installs, faults, imports and panels.                 *)
(*                                                                         *)
(* The inductive invariant has three parts.  Inv is about one install: a   *)
(* task is there exactly while its operation is at work (TaskInv), the one *)
(* operation is the latest one's and not yet the device's (OpInv), every   *)
(* call on its way is about an install that has been and at most one is    *)
(* the mounted panel's (CallInv), and what calls, panels and messages say  *)
(* of the latest install is settled for good (SaysInv, ToldInv).  KeptInv  *)
(* is about the two trees, CopyInv about the private copies.  HoldInv and  *)
(* StartInv hold where no read falls between the two halves of a start.    *)
(***************************************************************************)
EXTENDS SetupPanel, TLAPS

\* What the records of an operation, of a task and of a tree remain.
LEMMA OpTyped ==
    ASSUME op \in Operations, NEW s \in Ended \cup Working
    PROVE  /\ [op EXCEPT !.state = s] \in Operations
           /\ [op EXCEPT !.state = s].id = op.id
           /\ [op EXCEPT !.state = s].state = s
  BY DEF Operations

LEMMA TaskTyped ==
    ASSUME task \in Tasks
    PROVE  /\ \A n \in Notes : [task EXCEPT !.note = n] \in Tasks
           /\ [task EXCEPT !.cancel = TRUE] \in Tasks
           /\ [task EXCEPT !.looking = TRUE] \in Tasks
  BY DEF Tasks

LEMMA PromotionIs ==
    /\ Promotion(1) => dest' = None /\ prev' = (IF dest = None THEN prev ELSE dest)
    /\ Promotion(2) => dest' = Tree(task.note) /\ prev' = (IF dest = None THEN prev ELSE dest)
    /\ Promotion(3) => dest' = Tree(task.note) /\ prev' = prev
    /\ Promotion(4) => dest' = dest /\ prev' = prev
  <1>1. Promotion(1) => dest' = None /\ prev' = (IF dest = None THEN prev ELSE dest)
    BY DEF Promotion
  <1>2. Promotion(2) => dest' = Tree(task.note) /\ prev' = (IF dest = None THEN prev ELSE dest)
    BY DEF Promotion
  <1>3. Promotion(3) => dest' = Tree(task.note) /\ prev' = prev
    BY DEF Promotion
  <1>4. Promotion(4) => dest' = dest /\ prev' = prev
    BY DEF Promotion
  <1>. QED BY <1>1, <1>2, <1>3, <1>4

LEMMA TreeTyped == task \in Tasks => Tree(task.note) \in Trees /\ Tree(task.note).ok
  BY DEF Tree, Trees, Tasks

LEMMA TaskStepTyped ==
    ASSUME SetupTypeOK, TaskStep, op # None
    PROVE  SetupTypeOK'
  <1>. USE NoneAssumption
  <1>0. op \in Operations /\ (task # None => task \in Tasks)
    BY DEF SetupTypeOK
  <1>1. CASE UseCache
    <2>1. cache \in Trees => cache.note \in Notes
      BY DEF Trees
    <2>2. op' \in Operations /\ (task' # None => task' \in Tasks)
      BY <1>0, <1>1, <2>1, OpTyped, TaskTyped DEF UseCache, SetupTypeOK, Ended, Working
    <2>. QED BY <1>1, <2>2 DEF UseCache, InstallUntouched, SetupTypeOK, service, launch, counts
  <1>2. CASE Fetched /\ Fetching
    <2>1. cache' = Tree("right")
      BY <1>2 DEF Fetched, Kept
    <2>2. op' \in Operations /\ task' \in Tasks
      BY <1>0, <1>2, OpTyped, TaskTyped DEF Fetched, Fetching, Working, Notes
    <2>3. cache' \in Trees
      BY <2>1 DEF Tree, Trees, Notes
    <2>. QED BY <1>2, <2>2, <2>3 DEF Fetched, InstallUntouched, SetupTypeOK, service, launch, counts
  <1>5. CASE Download /\ ~Fetched
    <2>1. op' \in Operations /\ task' \in Tasks
      BY <1>0, <1>5, TaskTyped DEF Download, Fetching
    <2>. QED BY <1>5, <2>1 DEF Download, InstallUntouched, SetupTypeOK, service, launch, counts, disk
  <1>3. CASE Extracted \/ InstallFails \/ InstallCancelled
    <2>1. op' \in Operations /\ (task' # None => task' \in Tasks)
      BY <1>0, <1>3, OpTyped, TaskTyped DEF Extracted, InstallFails, InstallCancelled, EndAs, Ended, Working
    <2>. QED BY <1>3, <2>1 DEF Extracted, InstallFails, InstallCancelled, EndAs, InstallUntouched, SetupTypeOK, service, launch, counts, disk
  <1>4. CASE Promoted \/ PromotionFails
    <2>1. op' \in Operations /\ (task' # None => task' \in Tasks)
      BY <1>0, <1>4, OpTyped, TaskTyped DEF Promoted, PromotionFails, EndAs, Ended, Working
    <2>2. dest' \in {None} \cup Trees /\ prev' \in {None} \cup Trees
      BY <1>0, <1>4, PromotionIs, TreeTyped DEF Promoted, PromotionFails, SetupTypeOK
    <2>. QED BY <1>4, <2>1, <2>2 DEF Promoted, PromotionFails, EndAs, InstallUntouched, SetupTypeOK, service, launch, counts
  <1>. QED BY <1>1, <1>2, <1>3, <1>4, <1>5 DEF TaskStep, Download, Rediscover

\* The managed installation has a task exactly while its operation is at work.
TaskInv == task # None <=> op # None /\ op.state \in Working

\* A read drops the reservation of an operation that is gone, failed or cancelled.
Dropped ==
    /\ reservation' = None
    /\ IF op = None THEN reservation # Starting ELSE op.state \in {"failed", "cancelled"}

\* What the panel, its calls and everything around them can do to the backend.
SetupStep ==
    \/ TaskStep \/ Surroundings \/ RestartStep
    \/ StartReserves
    \/ \E force \in BOOLEAN, c \in calls : c.answer = "reserved" /\ StartRuns(force)
    \/ \E id : CancelAsked(id) \/ Complete(id)
    \/ Readable /\ (Dropped \/ UNCHANGED reservation)
    \/ UNCHANGED <<disk, config, runtimes, manager, service, launch, imports, had>>

LEMMA SetupStepTyped ==
    ASSUME SetupTypeOK, TaskInv, SetupStep
    PROVE  SetupTypeOK'
  <1>. USE NoneAssumption DEF disk, manager, service, launch, counts
  <1>0. /\ op # None => op \in Operations
        /\ task # None => task \in Tasks
        /\ dest # None => dest \in Trees
        /\ cache # None => cache \in Trees
        /\ lastId \in Nat
    BY DEF SetupTypeOK
  <1>1. CASE TaskStep
    <2>1. op # None
      BY <1>1 DEF TaskStep, TaskInv, UseCache, Download, Rediscover, Fetching, Extracted, Promoted,
                  InstallFails, InstallCancelled, PromotionFails
    <2>. QED BY <1>1, <2>1, TaskStepTyped
  <1>2. ASSUME NEW what \in {None, "own"}, Import(what) PROVE SetupTypeOK'
    BY <1>2 DEF Import, SetupTypeOK, Sources
  <1>3. CASE ImportArchive
    BY <1>3 DEF ImportArchive, ArchivePromotion, SetupTypeOK, Sources
  <1>4. CASE ReserveLaunch
    <2>1. runtimes' \in [Sources -> {None, "good", "changed"}]
      <3>1. Materialized \in [Sources -> {None, "good", "changed"}]
        BY DEF Materialized, SetupTypeOK
      <3>. QED BY <1>4, <3>1 DEF ReserveLaunch, Collected
    <2>. QED BY <1>4, <2>1 DEF ReserveLaunch, SetupTypeOK
  <1>5. CASE Fork \/ LaunchGivenUp \/ CEEnds
    BY <1>5 DEF Fork, LaunchGivenUp, CEEnds, SetupTypeOK
  <1>6. CASE RuntimeDrifts
    BY <1>6 DEF RuntimeDrifts, SetupTypeOK
  <1>7. CASE Damage
    <2>1. ASSUME NEW t \in Trees PROVE [t EXCEPT !.ok = FALSE] \in Trees
      BY DEF Trees
    <2>2. dest' \in {None} \cup Trees /\ cache' \in {None} \cup Trees /\ had' \in BOOLEAN
      BY <1>7, <1>0, <2>1 DEF Damage, SetupTypeOK
    <2>. QED BY <1>7, <2>2 DEF Damage, SetupTypeOK
  <1>8. CASE RestartStep
    <2>1. cache' \in {None} \cup Trees
      <3>1. cache # None => [cache EXCEPT !.note = "unknown"] \in Trees
        BY <1>0 DEF Trees, Notes
      <3>2. Kept(1) => cache' \in {None} \cup Trees
        BY <3>1 DEF Kept
      <3>3. Kept(2) => cache' \in {None} \cup Trees
        BY DEF Kept, Tree, Trees, Notes
      <3>. QED BY <1>8, <1>0, <3>2, <3>3 DEF RestartStep, Restart, DieKeepingInstaller, DiePromoting, DieImporting
    <2>2. dest' \in {None} \cup Trees /\ prev' \in {None} \cup Trees
      <3>1. CASE DiePromoting
        BY <3>1, <1>0, PromotionIs, TreeTyped DEF DiePromoting, SetupTypeOK
      <3>. QED BY <3>1, <1>8 DEF RestartStep, Restart, DieKeepingInstaller, DieImporting, SetupTypeOK
    <2>3. packed' \in {None, "whole", "aside"}
      BY <1>8 DEF RestartStep, Restart, DieKeepingInstaller, DiePromoting, DieImporting, ArchivePromotion, SetupTypeOK
    <2>4. UNCHANGED <<config, had>> /\ Forgotten
      BY <1>8 DEF RestartStep, Restart, DieKeepingInstaller, DiePromoting, DieImporting
    <2>. QED BY <2>1, <2>2, <2>3, <2>4 DEF Forgotten, SetupTypeOK
  <1>9. CASE StartReserves
    BY <1>9 DEF StartReserves, SetupTypeOK
  <1>10. ASSUME NEW force \in BOOLEAN, StartRuns(force) PROVE SetupTypeOK'
    <2>1. lastId' \in Ids /\ lastId' \in Nat
      BY <1>10, <1>0 DEF StartRuns, Ids
    <2>2. op' \in Operations
      BY <1>10, <2>1 DEF StartRuns, Operations, Ended, Working
    <2>3. task' \in {None} \cup Tasks
      BY <1>10 DEF StartRuns, Tasks, Notes
    <2>4. UNCHANGED <<disk, config, runtimes, completion, launch, counts, had>>
          /\ reservation' \in {reservation, lastId'} /\ adopted' = FALSE
      BY <1>10 DEF StartRuns
    <2>. QED BY <2>1, <2>2, <2>3, <2>4 DEF SetupTypeOK
  <1>11. ASSUME NEW id, CancelAsked(id) PROVE SetupTypeOK'
    <2>1. task' \in Tasks
      BY <1>11, <1>0, TaskTyped DEF CancelAsked
    <2>. QED BY <1>11, <2>1 DEF CancelAsked, SetupTypeOK
  <1>12. ASSUME NEW id, Complete(id) PROVE SetupTypeOK'
    <2>1. id \in Ids
      BY <1>12, <1>0 DEF Complete, CompleteAllowed, Operations
    <2>. QED BY <1>12, <2>1 DEF Complete, SetupTypeOK, Sources
  <1>13. CASE Readable /\ (Dropped \/ UNCHANGED reservation)
    BY <1>13 DEF Readable, Dropped, SetupTypeOK
  <1>14. CASE UNCHANGED <<disk, config, runtimes, manager, service, launch, imports, had>>
    BY <1>14 DEF SetupTypeOK
  <1>. QED BY <1>1, <1>2, <1>3, <1>4, <1>5, <1>6, <1>7, <1>8, <1>9, <1>10, <1>11, <1>12, <1>13, <1>14
           DEF SetupStep, Surroundings

\* A task that is there has its operation at work, and leaves one that is at
\* work or has ended.
LEMMA TaskStepIs ==
    ASSUME SetupTypeOK, TaskInv, TaskStep
    PROVE  /\ op \in Operations /\ op.state \in Working /\ task \in Tasks
           /\ op' \in Operations /\ op'.id = op.id
           /\ IF task' = None THEN op'.state \in Ended ELSE op'.state \in Working
           /\ UNCHANGED <<config, runtimes, lastId, service, launch, counts, packed>>
  <1>. USE NoneAssumption
  <1>1. /\ op \in Operations /\ task \in Tasks /\ op.state \in Working
        /\ UNCHANGED <<config, runtimes, lastId, service, launch, counts, packed>>
    BY DEF TaskStep, TaskInv, UseCache, Download, Rediscover, Fetching, Fetched, Extracted, Promoted, disk,
           InstallFails, InstallCancelled, PromotionFails, SetupTypeOK, InstallUntouched
  <1>2. CASE UseCache
    <2>1. task' \in Tasks
      <3>1. cache \in Trees => cache.note \in Notes
        BY DEF Trees
      <3>. QED BY <1>1, <1>2, <3>1, TaskTyped DEF UseCache, SetupTypeOK
    <2>2. CASE op' = [op EXCEPT !.state = "extracting"]
      BY <1>1, <2>1, <2>2, OpTyped DEF Working
    <2>. QED BY <1>1, <1>2, <2>1, <2>2 DEF UseCache
  <1>3. CASE Fetched /\ Fetching
    <2>1. task' \in Tasks
      BY <1>1, <1>3, TaskTyped DEF Fetched, Notes
    <2>. QED BY <1>1, <1>3, <2>1, OpTyped DEF Fetched, Working
  <1>4. CASE Download /\ ~Fetched
    BY <1>1, <1>4, TaskTyped DEF Download
  <1>5. CASE Extracted
    BY <1>1, <1>5, OpTyped DEF Extracted, Working
  <1>6. CASE Promoted \/ PromotionFails \/ InstallFails \/ InstallCancelled
    <2>1. PICK s \in Ended : EndAs(s)
      BY <1>6 DEF Promoted, PromotionFails, InstallFails, InstallCancelled, Ended
    <2>. QED BY <1>1, <2>1, OpTyped DEF EndAs
  <1>. QED BY <1>1, <1>2, <1>3, <1>4, <1>5, <1>6 DEF TaskStep, Download, Rediscover

LEMMA TaskKeeps ==
    ASSUME SetupTypeOK, TaskInv, SetupStep
    PROVE  TaskInv'
  <1>. USE NoneAssumption DEF manager, TaskInv
  <1>1. CASE TaskStep
    BY <1>1, TaskStepIs DEF Ended, Working
  <1>2. CASE Surroundings
    BY <1>2 DEF Surroundings, Import, ImportArchive, ReserveLaunch, Fork, LaunchGivenUp, RuntimeDrifts,
                CEEnds, Damage
  <1>3. CASE RestartStep
    BY <1>3 DEF RestartStep, Restart, DieKeepingInstaller, DiePromoting, DieImporting, Forgotten
  <1>4. CASE StartReserves
    BY <1>4 DEF StartReserves
  <1>5. ASSUME NEW force \in BOOLEAN, StartRuns(force) PROVE TaskInv'
    <2>1. lastId' \in Ids
      BY <1>5 DEF StartRuns, SetupTypeOK, Ids
    <2>2. op' \in Operations
      BY <1>5, <2>1 DEF StartRuns, Operations, Ended, Working
    <2>3. [note |-> "unknown", cancel |-> FALSE, looking |-> FALSE] \in Tasks
      BY DEF Tasks, Notes
    <2>. QED BY <1>5, <2>2, <2>3 DEF StartRuns, Working
  <1>6. ASSUME NEW id, CancelAsked(id) PROVE TaskInv'
    BY <1>6, TaskTyped DEF CancelAsked, SetupTypeOK
  <1>7. ASSUME NEW id, Complete(id) PROVE TaskInv'
    BY <1>7 DEF Complete, CompleteAllowed
  <1>8. CASE Readable /\ (Dropped \/ UNCHANGED reservation)
    BY <1>8 DEF Readable
  <1>9. CASE UNCHANGED <<disk, config, runtimes, manager, service, launch, imports, had>>
    BY <1>9
  <1>. QED BY <1>1, <1>2, <1>3, <1>4, <1>5, <1>6, <1>7, <1>8, <1>9 DEF SetupStep

\* Nothing but the code having touched it, the managed tree is in its place as it
\* was promoted, or was moved aside as that.
KeptInv == had => /\ dest # None => dest.ok
                  /\ dest = None => Installed(prev)

LEMMA KeptKeeps ==
    ASSUME SetupTypeOK, TaskInv, KeptInv, SetupStep
    PROVE  KeptInv'
  <1>. USE NoneAssumption DEF disk
  <1>0. TaskStep \/ DiePromoting => task \in Tasks
    BY TaskStepIs DEF DiePromoting, SetupTypeOK
  <1>1. CASE Promoted
    BY <1>0, <1>1, PromotionIs, TreeTyped DEF TaskStep, Promoted, Replacing, KeptInv, Installed
  <1>2. CASE DiePromoting
    BY <1>0, <1>2, PromotionIs, TreeTyped DEF DiePromoting, KeptInv, Installed
  <1>3. CASE Damage
    BY <1>3 DEF Damage, KeptInv, Installed
  <1>4. CASE UNCHANGED <<dest, prev, had>>
    BY <1>4 DEF KeptInv, Installed
  <1>5. TaskStep => Promoted \/ UNCHANGED <<dest, prev, had>>
    BY PromotionIs DEF TaskStep, UseCache, Download, Rediscover, Fetched, Extracted, InstallFails,
           InstallCancelled, PromotionFails
  <1>6. Surroundings => Damage \/ UNCHANGED <<dest, prev, had>>
    BY DEF Surroundings, Import, ImportArchive, ReserveLaunch, Fork, LaunchGivenUp, RuntimeDrifts, CEEnds
  <1>7. RestartStep => DiePromoting \/ UNCHANGED <<dest, prev, had>>
    BY DEF RestartStep, Restart, DieKeepingInstaller, DieImporting
  <1>. QED BY <1>1, <1>2, <1>3, <1>4, <1>5, <1>6, <1>7
           DEF SetupStep, StartReserves, StartRuns, CancelAsked, Complete, Readable

\* What a reserved launch is to be started from, and what a Cheat Engine was
\* started from, has its private copy.
CopyInv ==
    /\ reserved => config \in Sources /\ runtimes[config] # None
    /\ live => uses \in Sources /\ runtimes[uses] # None

LEMMA CopyKeeps ==
    ASSUME SetupTypeOK, TaskInv, CopyInv, SetupStep
    PROVE  CopyInv'
  <1>. USE NoneAssumption DEF launch, CopyInv
  <1>1. CASE TaskStep
    BY <1>1, TaskStepIs
  <1>2. ASSUME NEW what \in {None, "own"}, Import(what) PROVE CopyInv'
    BY <1>2 DEF Import, IdentityMayChange, NothingRuns
  <1>3. CASE ImportArchive
    BY <1>3 DEF ImportArchive, IdentityMayChange, NothingRuns
  <1>4. CASE ReserveLaunch
    <2>1. config \in Sources /\ runtimes \in [Sources -> {None, "good", "changed"}]
      <3>1. config # None
        <4>1. None # "managed" /\ None # "packed"
          BY DEF Sources
        <4>2. config = None => ~ValidatedImport
          BY <4>1 DEF ValidatedImport
        <4>. QED BY <4>2, <1>4 DEF ReserveLaunch
      <3>. QED BY <3>1 DEF SetupTypeOK
    <2>2. \A s \in Sources : runtimes'[s] = IF s = config THEN "good" ELSE IF live THEN runtimes[s] ELSE None
      BY <1>4, <2>1 DEF ReserveLaunch, Collected, Materialized
    <2>. QED BY <1>4, <2>1, <2>2 DEF ReserveLaunch
  <1>5. CASE Fork \/ LaunchGivenUp \/ CEEnds \/ Damage
    BY <1>5 DEF Fork, LaunchGivenUp, CEEnds, Damage
  <1>6. CASE RuntimeDrifts
    BY <1>6 DEF RuntimeDrifts, SetupTypeOK
  <1>7. CASE RestartStep
    BY <1>7 DEF RestartStep, Restart, DieKeepingInstaller, DiePromoting, DieImporting, Forgotten
  <1>8. ASSUME NEW id, Complete(id) PROVE CopyInv'
    BY <1>8 DEF Complete, CompleteAllowed, NothingRuns
  <1>9. CASE UNCHANGED <<config, runtimes, launch>>
    BY <1>9
  <1>. QED BY <1>1, <1>2, <1>3, <1>4, <1>5, <1>6, <1>7, <1>8, <1>9
           DEF SetupStep, Surroundings, StartReserves, StartRuns, CancelAsked, Readable

-----------------------------------------------------------------------------
\* What a step can make of the latest install.

Stays == /\ UNCHANGED <<lastId, adopted, completion>>
         /\ Dropped \/ UNCHANGED reservation
         /\ op' = op \/ (op # None /\ op.state \in Working /\ op' # None /\ op'.id = op.id)
Reserves == UNCHANGED <<lastId, adopted, op>> /\ completion' = None /\ reservation' = Starting
Runs == /\ lastId' = lastId + 1 /\ adopted' = FALSE /\ UNCHANGED completion
        /\ op' # None /\ op'.id = lastId'
Commits == /\ op # None /\ op.state = "completed" /\ reservation = op.id
           /\ op' = None /\ adopted' = TRUE /\ completion' = op.id /\ reservation' = None
           /\ UNCHANGED lastId
Forgets == /\ UNCHANGED <<lastId, adopted>>
           /\ op' = None /\ reservation' = None /\ completion' = None

LEMMA OutcomeIs ==
    ASSUME SetupTypeOK, TaskInv
    PROVE  /\ TaskStep \/ Surroundings => Stays
           /\ RestartStep => Forgets
           /\ StartReserves => Reserves
           /\ \A force \in BOOLEAN : StartRuns(force) => Runs
           /\ \A id : CancelAsked(id) => Stays
           /\ \A id : Complete(id) => Commits /\ id = op.id
           /\ Readable /\ (Dropped \/ UNCHANGED reservation) => Stays
           /\ UNCHANGED <<disk, config, runtimes, manager, service, launch, imports, had>> => Stays
           /\ UNCHANGED setupVars => Stays
  <1>. USE NoneAssumption DEF manager, service
  <1>1. TaskStep => Stays
    BY TaskStepIs DEF Stays
  <1>2. Surroundings => Stays
    BY DEF Surroundings, Import, ImportArchive, ReserveLaunch, Fork, LaunchGivenUp, RuntimeDrifts,
           CEEnds, Damage, Stays
  <1>3. RestartStep => Forgets
    BY DEF RestartStep, Restart, DieKeepingInstaller, DiePromoting, DieImporting, Forgotten, Forgets
  <1>4. StartReserves => Reserves
    BY DEF StartReserves, Reserves
  <1>5. ASSUME NEW force \in BOOLEAN, StartRuns(force) PROVE Runs
    <2>1. lastId' \in Ids
      BY <1>5 DEF StartRuns, SetupTypeOK, Ids
    <2>2. op' \in Operations /\ op'.id = lastId'
      BY <1>5, <2>1 DEF StartRuns, Operations, Ended, Working
    <2>. QED BY <1>5, <2>2 DEF StartRuns, Runs
  <1>6. ASSUME NEW id, CancelAsked(id) PROVE Stays
    BY <1>6 DEF CancelAsked, Stays
  <1>7. ASSUME NEW id, Complete(id) PROVE Commits /\ id = op.id
    BY <1>7 DEF Complete, CompleteAllowed, Commits
  <1>8. Readable /\ (Dropped \/ UNCHANGED reservation) => Stays
    BY DEF Readable, Stays
  <1>9. UNCHANGED <<disk, config, runtimes, manager, service, launch, imports, had>> => Stays
    BY DEF Stays
  <1>10. UNCHANGED setupVars => Stays
    BY DEF Stays, setupVars
  <1>. QED BY <1>1, <1>2, <1>3, <1>4, <1>5, <1>6, <1>7, <1>8, <1>9, <1>10

\* The one operation there can be is that of the latest install, which is then
\* not the device's yet; a receipt of the latest install says that it is.
OpInv ==
    /\ op # None => op.id = lastId /\ ~adopted
    /\ completion \in Ids => completion <= lastId
    /\ completion = lastId => adopted

LEMMA OpKeeps ==
    ASSUME SetupTypeOK, TaskInv, OpInv, SetupStep
    PROVE  OpInv'
  <1>. USE NoneAssumption, SetupAssumption DEF OpInv
  <1>0. lastId \in Nat /\ completion \in {None} \cup Ids /\ None \notin Nat
    BY DEF SetupTypeOK
  <1>1. CASE Stays
    BY <1>1 DEF Stays
  <1>2. CASE Reserves
    BY <1>0, <1>2 DEF Reserves, Ids
  <1>3. CASE Runs
    <2>1. completion' # lastId'
      BY <1>0, <1>3 DEF Runs, Ids
    <2>. QED BY <1>0, <1>3, <2>1 DEF Runs, Ids
  <1>4. CASE Commits
    BY <1>0, <1>4 DEF Commits
  <1>5. CASE Forgets
    BY <1>0, <1>5 DEF Forgets, Ids
  <1>. QED BY <1>1, <1>2, <1>3, <1>4, <1>5, OutcomeIs DEF SetupStep

LEMMA NextIsSetupStep ==
    ASSUME [Next]_vars
    PROVE  SetupStep
  <1>1. CapabilityRead => Dropped \/ UNCHANGED reservation
    BY DEF CapabilityRead, Reconciled, Dropped
  <1>2. reservation' = Reconciled(op) => Dropped \/ UNCHANGED reservation
    BY DEF Reconciled, Dropped
  <1>3. UNCHANGED setupVars => SetupStep
    BY DEF SetupStep, setupVars, counts
  <1>4. ASSUME NEW c \in calls, CarryOut(c) PROVE SetupStep
    BY <1>2, <1>3, <1>4 DEF CarryOut, CarryOutStart, CarryOnStart, CarryOutCancel, CarryOutComplete, SetupStep
  <1>5. ASSUME NEW c \in calls, CallLost(c) PROVE SetupStep
    BY <1>5 DEF CallLost, SetupStep
  <1>6. CASE SomeoneReads \/ Mount \/ Refresh \/ StartSettles \/ Polls \/ EndWatched \/ Settles
    BY <1>1, <1>2, <1>6 DEF SomeoneReads, Mount, Refresh, StartSettles, Polls, EndWatched, Settles, SetupStep
  <1>7. CASE CompleteAnswered \/ Resettled
    <2>1. PanelOnly => UNCHANGED setupVars
      BY DEF PanelOnly
    <2>2. ASSUME NEW b, Finished(b) PROVE SetupStep
      BY <1>1, <2>2 DEF Finished, SetupStep
    <2>3. CASE CompleteAnswered
      BY <1>3, <2>1, <2>2, <2>3 DEF CompleteAnswered
    <2>4. CASE Resettled
      <3>. DEFINE a == AnswerOf("complete")
      <3>1. CASE a \in {"now", "before"}
        BY <2>2, <2>4, <3>1 DEF Resettled
      <3>2. CASE a \notin {"now", "before"}
        BY <1>3, <2>1, <2>4, <3>2 DEF Resettled
      <3>. QED BY <3>1, <3>2
    <2>. QED BY <1>7, <2>3, <2>4
  <1>8. CASE Unmount \/ PressCancel \/ StartAnswered \/ CancelAnswered \/ CompleteSent
    BY <1>3, <1>8 DEF Unmount, PressCancel, StartAnswered, CancelAnswered, CompleteSent, PanelOnly
  <1>9. ASSUME NEW kind, Press(kind) PROVE SetupStep
    BY <1>3, <1>9 DEF Press, PanelOnly
  <1>10. CASE TaskStep \/ Surroundings \/ Reload
    BY <1>10 DEF SetupStep, Reload
  <1>11. CASE UNCHANGED vars
    BY <1>3, <1>11 DEF vars
  <1>. QED BY <1>4, <1>5, <1>6, <1>7, <1>8, <1>9, <1>10, <1>11 DEF Next, PanelStep

-----------------------------------------------------------------------------
\* The panel's own call, if one is on its way, is the one its place waits for and
\* about the operation it watches; what other panels called is about no later one.
CallInv ==
    /\ panel.op # None => panel.op.id <= lastId
    /\ panel.at \in {"cancelling", "settling", "completing", "resettling"} => panel.op # None
    /\ \A c, d \in calls : c.mine /\ d.mine => c = d
    /\ \A c \in calls : c.kind = "cancel" =>
         /\ c.id \in Ids /\ c.id <= lastId
         /\ c.answer \in {None, "refused", "lost"} \cup Ended
         /\ c.mine => panel.at = "cancelling" /\ c.id = panel.op.id
    /\ \A c \in calls : c.kind = "complete" =>
         /\ c.id \in Ids /\ c.id <= lastId
         /\ c.answer \in {None, "refused", "lost", "now", "before", "changed"}
         /\ c.mine => panel.at \in {"completing", "resettling"} /\ c.id = panel.op.id
    /\ \A c \in calls : c.kind \in {"install", "reinstall"} /\ c.mine => panel.at = "starting"

Base == TypeOK /\ TaskInv /\ OpInv /\ CallInv

LEMMA SeenTyped ==
    ASSUME SetupTypeOK
    PROVE  IF op = None THEN Seen(op) = None
           ELSE Seen(op) \in Views /\ Seen(op) # None
                /\ Seen(op).id = op.id /\ Seen(op).state = op.state
  BY NoneOfThePanel DEF Seen, SetupTypeOK, Operations, Views

Places == {"gone", "idle", "starting", "restarting", "watching", "cancelling",
           "settling", "completing", "resettling"}

LEMMA NowAtIs ==
    ASSUME panel \in Panels, NEW at \in Places, NEW o \in {None} \cup Views, NowAt(at, o)
    PROVE  panel' \in Panels /\ panel'.at = at /\ panel'.op = o
  BY DEF NowAt, Panels, Places

LEMMA FreshIs ==
    ASSUME NEW at \in Places, NEW o \in {None} \cup Views,
           panel' = [Unmounted EXCEPT !.at = at, !.op = o]
    PROVE  panel' \in Panels /\ panel'.at = at /\ panel'.op = o
  BY DEF Unmounted, Panels, Places

LEMMA ResetIs ==
    ASSUME panel \in Panels, NEW at \in Places, NEW o \in {None} \cup Views,
           \/ panel' = [panel EXCEPT !.stopping = FALSE, !.op = o, !.at = at]
           \/ panel' = [panel EXCEPT !.at = at, !.op = o, !.stopping = FALSE]
    PROVE  panel' \in Panels /\ panel'.at = at /\ panel'.op = o
  BY DEF Panels, Places

LEMMA AnsweredIs ==
    ASSUME calls \subseteq Calls, NEW c \in calls, NEW a \in {None} \cup Answers, Answered(c, a)
    PROVE  /\ calls' \subseteq Calls
           /\ \E e \in Calls : /\ e.kind = c.kind /\ e.id = c.id /\ e.mine = c.mine /\ e.answer = a
                               /\ calls' = (calls \ {c}) \cup {e}
  <1>1. /\ [c EXCEPT !.answer = a] \in Calls
        /\ [c EXCEPT !.answer = a].kind = c.kind /\ [c EXCEPT !.answer = a].id = c.id
        /\ [c EXCEPT !.answer = a].mine = c.mine /\ [c EXCEPT !.answer = a].answer = a
    BY DEF Calls
  <1>. QED BY <1>1 DEF Answered

LEMMA SendsIs ==
    ASSUME NEW kind \in {"install", "reinstall", "cancel", "complete"}, NEW id \in {None} \cup Ids
    PROVE  /\ Call(kind, id) \in Calls /\ Call(kind, id).kind = kind /\ Call(kind, id).id = id
           /\ Call(kind, id).mine /\ Call(kind, id).answer = None
  BY DEF Call, Calls

LEMMA UnmountIs ==
    ASSUME calls \subseteq Calls, Unmount
    PROVE  /\ panel' = Unmounted /\ calls' \subseteq Calls
           /\ \A e \in calls' : /\ ~e.mine /\ e.answer \in {None, "reserved"}
                                /\ \E c \in calls : e.kind = c.kind /\ e.id = c.id /\ e.answer = c.answer
                                                 /\ e = [c EXCEPT !.mine = FALSE]
  <1>1. \A c \in Calls : /\ [c EXCEPT !.mine = FALSE] \in Calls /\ ~[c EXCEPT !.mine = FALSE].mine
                         /\ [c EXCEPT !.mine = FALSE].kind = c.kind
                         /\ [c EXCEPT !.mine = FALSE].id = c.id
                         /\ [c EXCEPT !.mine = FALSE].answer = c.answer
    BY DEF Calls
  <1>2. /\ panel' = Unmounted
        /\ calls' = {[c EXCEPT !.mine = FALSE] : c \in {d \in calls : d.answer \in {None, "reserved"}}}
    BY DEF Unmount
  <1>. QED BY <1>1, <1>2

\* What a panel takes is the answer to its own call.
LEMMA TakesIs ==
    ASSUME CallInv, calls \subseteq Calls, NEW kind, Takes(kind)
    PROVE  \E c \in calls : /\ c.mine /\ c.kind = kind /\ AnswerOf(kind) = c.answer
                            /\ c.answer \notin {None, "reserved"} /\ calls' = calls \ {c}
                            /\ \A d \in calls' : ~d.mine
  <1>1. PICK c \in Mine(kind) : c.answer \notin {None, "reserved"} /\ calls' = calls \ {c}
    BY DEF Takes
  <1>2. \A d \in Mine(kind) : d = c
    BY DEF Mine, CallInv
  <1>3. (CHOOSE d \in Mine(kind) : TRUE) = c
    BY <1>2, <1>1
  <1>4. c \in calls /\ c.mine /\ c.kind = kind /\ \A d \in calls' : ~d.mine
    BY <1>1 DEF Mine, CallInv
  <1>. QED BY <1>1, <1>3, <1>4 DEF AnswerOf

-----------------------------------------------------------------------------
\* What is said of the latest install, and by whom.

\* It is not the device's and can no longer become it.
Dead == ~adopted /\ (op = None \/ op.state \in {"failed", "cancelled"} \/ reservation # lastId)

\* The same, or it is the device's and a start has just thrown its receipt away:
\* then it will not be the latest for long.
Over == Dead \/ (adopted /\ reservation = Starting)

NoTrace == /\ panel.op # None => panel.op.id # lastId
           /\ \A c \in calls : c.id # lastId

PanelSays ==
    panel.op # None /\ panel.op.id = lastId /\ panel.op.state \in {"failed", "cancelled"} => Over

CallSays(c) == c.id = lastId =>
    /\ c.kind = "cancel" /\ c.answer \in {"failed", "cancelled"} => Over
    /\ c.kind = "complete" /\ c.answer = "changed" => Over
    /\ c.kind = "complete" /\ c.answer \in {"now", "before"} => adopted
    /\ c.kind = "complete" /\ c.answer = "now" /\ c.mine => toasts = 0

SaysInv ==
    /\ PanelSays
    /\ \A c \in calls : CallSays(c)
    /\ adopted /\ reservation # Starting => completion = lastId \/ NoTrace

ToldInv ==
    /\ "completed" \in told => adopted
    /\ told \cap {"failed", "cancelled"} # {} => Dead
    /\ toasts \in {0, 1} /\ (toasts = 1 => adopted)

LEMMA DeadStays ==
    ASSUME SetupTypeOK, OpInv, Stays \/ Reserves \/ Commits
    PROVE  /\ Dead => Dead'
           /\ Over => Over'
           /\ adopted => adopted'
           /\ lastId' = lastId
  <1>. USE SetupAssumption DEF Dead, Over
  <1>0. lastId \in Nat /\ None \notin Nat /\ Starting \notin Nat
    BY DEF SetupTypeOK
  <1>1. CASE Stays
    <2>1. CASE op' = op
      BY <1>0, <1>1, <2>1 DEF Stays, Dropped, OpInv
    <2>2. CASE op' # op
      BY <1>0, <1>1, <2>2 DEF Stays, Dropped, OpInv, Working
    <2>. QED BY <2>1, <2>2
  <1>2. CASE Reserves
    BY <1>0, <1>2 DEF Reserves, OpInv
  <1>3. CASE Commits
    BY <1>0, <1>3 DEF Commits, OpInv
  <1>. QED BY <1>1, <1>2, <1>3

\* What was said stands, whatever the backend does but begin another install.
LEMMA SaysKeep ==
    ASSUME Base, SaysInv, Stays \/ Reserves \/ Commits,
           UNCHANGED toasts \/ \A c \in calls' : ~c.mine,
           \A c \in calls' : \/ c \in calls
                             \/ CallSays(c)' /\ (c.id = lastId /\ adopted => ~NoTrace),
           \/ panel'.op = panel.op
           \/ PanelSays' /\ (panel'.op # None /\ panel'.op.id = lastId /\ adopted => ~NoTrace)
    PROVE  SaysInv'
  <1>. USE DEF Base, TypeOK
  <1>1. (Dead => Dead') /\ (Over => Over') /\ (adopted => adopted') /\ lastId' = lastId
    BY DeadStays
  <1>2. PanelSays'
    BY <1>1 DEF SaysInv, PanelSays
  <1>3. ASSUME NEW c \in calls' PROVE CallSays(c)'
    <2>1. CASE c \in calls
      <3>1. CallSays(c)
        BY <2>1 DEF SaysInv
      <3>. QED BY <3>1, <1>1 DEF CallSays
    <2>. QED BY <2>1
  <1>4. adopted' /\ reservation' # Starting => completion' = lastId' \/ NoTrace'
    <2>1. adopted /\ NoTrace => NoTrace'
      BY <1>1 DEF NoTrace
    <2>2. CASE Stays
      BY <2>1, <2>2 DEF Stays, Dropped, SaysInv, OpInv
    <2>3. CASE Reserves
      BY <2>3 DEF Reserves
    <2>4. CASE Commits
      BY <2>4 DEF Commits, OpInv
    <2>. QED BY <2>2, <2>3, <2>4
  <1>. QED BY <1>2, <1>3, <1>4 DEF SaysInv

LEMMA ToldKeeps ==
    ASSUME Base, ToldInv, Stays \/ Reserves \/ Commits, UNCHANGED <<told, toasts>>
    PROVE  ToldInv'
  BY DeadStays DEF Base, TypeOK, ToldInv

\* An operation in view is not the device's, and one that ended badly will not be.
LEMMA SeenSays ==
    ASSUME Base, Stays, UNCHANGED op, op # None
    PROVE  /\ Seen(op).id = lastId /\ ~adopted
           /\ op.state \in {"failed", "cancelled"} => Dead'
  BY SeenTyped DEF Base, TypeOK, OpInv, Stays, Dead
-----------------------------------------------------------------------------
PanelInv == PanelTypeOK /\ CallInv /\ SaysInv /\ ToldInv
Inv == SetupTypeOK /\ TaskInv /\ OpInv /\ PanelInv

LEMMA BackendKeeps ==
    ASSUME Inv, Stays, UNCHANGED panelVars
    PROVE  PanelInv'
  <1>1. lastId' = lastId /\ Base
    BY DEF Stays, Inv, PanelInv, Base, TypeOK
  <1>2. PanelTypeOK' /\ CallInv'
    BY <1>1 DEF Inv, PanelInv, PanelTypeOK, CallInv, panelVars
  <1>3. SaysInv'
    BY <1>1, SaysKeep DEF Inv, PanelInv, panelVars
  <1>4. ToldInv'
    BY <1>1, ToldKeeps DEF Inv, PanelInv, panelVars
  <1>. QED BY <1>2, <1>3, <1>4 DEF PanelInv

\* What a call is answered has to be true of the latest install.
LEMMA AnswerKeeps ==
    ASSUME Inv, Stays \/ Reserves \/ Commits, NEW c \in calls, NEW a \in Answers,
           Answered(c, a), UNCHANGED <<panel, mounts, told, toasts>>,
           c.kind = "cancel" => a \in {"refused", "lost"} \cup Ended,
           c.kind = "complete" => a \in {"refused", "lost", "now", "before", "changed"},
           c.kind = "cancel" /\ a \in {"failed", "cancelled"} => (c.id = lastId => Over'),
           c.kind = "complete" /\ a = "changed" => (c.id = lastId => Over'),
           c.kind = "complete" /\ a \in {"now", "before"} => (c.id = lastId => adopted'),
           c.kind = "complete" /\ a = "now" /\ c.mine => toasts = 0
    PROVE  PanelInv'
  <1>1. lastId' = lastId /\ Base /\ calls \subseteq Calls
    BY DeadStays DEF Inv, PanelInv, Base, TypeOK, PanelTypeOK
  <1>2. PICK e \in Calls : /\ e.kind = c.kind /\ e.id = c.id /\ e.mine = c.mine /\ e.answer = a
                           /\ calls' = (calls \ {c}) \cup {e} /\ calls' \subseteq Calls
    BY <1>1, AnsweredIs
  <1>3. PanelTypeOK'
    BY <1>2 DEF Inv, PanelInv, PanelTypeOK
  <1>4. CallInv'
    <2>1. \A x, y \in calls' : x.mine /\ y.mine => x = y
      BY <1>2 DEF Inv, PanelInv, CallInv
    <2>2. \A x \in calls' : x.kind = "cancel" =>
            /\ x.id \in Ids /\ x.id <= lastId'
            /\ x.answer \in {None, "refused", "lost"} \cup Ended
            /\ x.mine => panel'.at = "cancelling" /\ x.id = panel'.op.id
      BY <1>1, <1>2 DEF Inv, PanelInv, CallInv
    <2>3. \A x \in calls' : x.kind = "complete" =>
            /\ x.id \in Ids /\ x.id <= lastId'
            /\ x.answer \in {None, "refused", "lost", "now", "before", "changed"}
            /\ x.mine => panel'.at \in {"completing", "resettling"} /\ x.id = panel'.op.id
      BY <1>1, <1>2 DEF Inv, PanelInv, CallInv
    <2>4. \A x \in calls' : x.kind \in {"install", "reinstall"} /\ x.mine => panel'.at = "starting"
      BY <1>2 DEF Inv, PanelInv, CallInv
    <2>. QED BY <1>1, <2>1, <2>2, <2>3, <2>4 DEF Inv, PanelInv, CallInv
  <1>5. SaysInv'
    <2>1. CallSays(e)'
      BY <1>1, <1>2 DEF CallSays
    <2>2. e.id = lastId => ~NoTrace
      BY <1>2 DEF NoTrace
    <2>. QED BY <1>1, <1>2, <2>1, <2>2, SaysKeep DEF Inv, PanelInv
  <1>6. ToldInv'
    BY <1>1, ToldKeeps DEF Inv, PanelInv
  <1>. QED BY <1>3, <1>4, <1>5, <1>6 DEF PanelInv

LEMMA CarryOutStartKeeps ==
    ASSUME Inv, NEW c \in calls, CarryOutStart(c)
    PROVE  PanelInv'
  <1>1. Stays \/ Reserves
    BY OutcomeIs DEF CarryOutStart, Inv
  <1>2. PICK a \in {"reserved", "refused"} : Answered(c, a)
    BY DEF CarryOutStart
  <1>. QED BY <1>1, <1>2, AnswerKeeps DEF CarryOutStart, Answers

LEMMA CarryOutCancelKeeps ==
    ASSUME Inv, NEW c \in calls, CarryOutCancel(c)
    PROVE  PanelInv'
  <1>0. c.kind = "cancel" /\ UNCHANGED <<panel, mounts, told, toasts>> /\ SetupTypeOK /\ TaskInv
    BY DEF CarryOutCancel, Inv
  <1>1. CASE op = None \/ op.id # c.id
    <2>1. Stays /\ Answered(c, "refused")
      BY <1>0, <1>1, OutcomeIs DEF CarryOutCancel
    <2>. QED BY <1>0, <2>1, AnswerKeeps DEF Answers
  <1>2. CASE op # None /\ op.id = c.id /\ task = None
    <2>1. Answered(c, op.state) /\ Readable /\ reservation' = Reconciled(op)
      BY <1>2 DEF CarryOutCancel
    <2>2. Stays /\ UNCHANGED op
      BY <1>0, <2>1, OutcomeIs DEF Reconciled, Dropped, Readable, manager
    <2>3. op.state \in Ended
      BY <1>0, <1>2, NoneAssumption DEF SetupTypeOK, TaskInv, Operations
    <2>4. op.state \in {"failed", "cancelled"} => Over'
      BY <1>2, <2>2, SeenSays DEF Inv, PanelInv, Base, TypeOK, Over
    <2>. QED BY <1>0, <2>1, <2>2, <2>3, <2>4, AnswerKeeps DEF Answers
  <1>3. CASE op # None /\ op.id = c.id /\ task # None
    <2>1. CancelAsked(c.id) /\ UNCHANGED calls
      BY <1>3 DEF CarryOutCancel
    <2>. QED BY <1>0, <2>1, OutcomeIs, BackendKeeps DEF panelVars
  <1>. QED BY <1>1, <1>2, <1>3

LEMMA CarryOutCompleteKeeps ==
    ASSUME Inv, NEW c \in calls, CarryOutComplete(c)
    PROVE  PanelInv'
  <1>0. c.kind = "complete" /\ UNCHANGED <<panel, mounts, told, toasts>> /\ SetupTypeOK /\ TaskInv /\ OpInv
    BY DEF CarryOutComplete, Inv
  <1>1. CASE CompleteAllowed(c.id)
    <2>1. Complete(c.id) /\ Answered(c, "now")
      BY <1>1 DEF CarryOutComplete
    <2>2. Commits
      BY <1>0, <2>1, OutcomeIs
    <2>3. ~adopted
      BY <1>0, <2>2 DEF Commits, OpInv
    <2>4. toasts = 0
      BY <2>3 DEF Inv, PanelInv, ToldInv
    <2>5. adopted'
      BY <2>2 DEF Commits
    <2>. QED BY <1>0, <2>1, <2>2, <2>4, <2>5, AnswerKeeps DEF Answers
  <1>2. CASE ~CompleteAllowed(c.id)
    <2>0. UNCHANGED setupVars
      BY <1>2 DEF CarryOutComplete
    <2>1. Stays
      BY <1>0, <2>0, OutcomeIs
    <2>2. CASE reservation = c.id
      <3>1. Answered(c, "refused")
        BY <1>2, <2>2 DEF CarryOutComplete
      <3>. QED BY <1>0, <2>1, <3>1, AnswerKeeps DEF Answers
    <2>3. CASE reservation # c.id /\ completion = c.id
      <3>1. Answered(c, "before")
        BY <1>2, <2>3 DEF CarryOutComplete
      <3>2. c.id = lastId => adopted'
        BY <1>0, <2>1, <2>3 DEF OpInv, Stays
      <3>. QED BY <1>0, <2>1, <3>1, <3>2, AnswerKeeps DEF Answers
    <2>4. CASE reservation # c.id /\ completion # c.id
      <3>1. Answered(c, "changed")
        BY <1>2, <2>4 DEF CarryOutComplete
      <3>2. c.id = lastId => Over
        <4>1. c.id = lastId => ~NoTrace
          BY DEF NoTrace
        <4>. QED BY <4>1, <2>4 DEF Inv, PanelInv, SaysInv, Over, Dead
      <3>3. c.id = lastId => Over'
        BY <1>0, <2>1, <3>2, DeadStays
      <3>. QED BY <1>0, <2>1, <3>1, <3>3, AnswerKeeps DEF Answers
    <2>. QED BY <2>2, <2>3, <2>4
  <1>. QED BY <1>1, <1>2

LEMMA CallLostKeeps ==
    ASSUME Inv, NEW c \in calls, CallLost(c)
    PROVE  PanelInv'
  <1>1. Answered(c, "lost") /\ UNCHANGED <<panel, mounts, told, toasts>>
    BY DEF CallLost
  <1>2. Stays
    BY OutcomeIs DEF CallLost, Inv
  <1>. QED BY <1>1, <1>2, AnswerKeeps DEF Answers

\* Nothing has been said of an install that has just begun.
LEMMA CarryOnStartKeeps ==
    ASSUME Inv, NEW c \in calls, CarryOnStart(c)
    PROVE  PanelInv'
  <1>1. Runs
    BY OutcomeIs DEF CarryOnStart, Inv
  <1>2. told' = {} /\ toasts' = 0 /\ UNCHANGED <<panel, mounts>> /\ lastId \in Nat /\ lastId' = lastId + 1
    BY <1>1 DEF CarryOnStart, Runs, Inv, SetupTypeOK
  <1>3. c.kind \in {"install", "reinstall"}
    BY DEF CarryOnStart
  <1>4. PICK a \in Answers : Answered(c, a)
    BY DEF CarryOnStart, Answers
  <1>5. PICK e \in Calls : /\ e.kind = c.kind /\ e.id = c.id /\ e.mine = c.mine /\ e.answer = a
                           /\ calls' = (calls \ {c}) \cup {e} /\ calls' \subseteq Calls
    BY <1>4, AnsweredIs DEF Inv, PanelInv, PanelTypeOK
  <1>6. PanelTypeOK'
    BY <1>2, <1>5 DEF Inv, PanelInv, PanelTypeOK
  <1>7. /\ panel.op # None => panel.op.id \in Nat /\ panel.op.id <= lastId
        /\ \A x \in calls' : x.kind \in {"cancel", "complete"} => x \in calls /\ x.id \in Nat /\ x.id <= lastId
    BY <1>3, <1>5, NoneOfThePanel DEF Inv, PanelInv, CallInv, PanelTypeOK, Panels, Views, Ids
  <1>8. CallInv'
    BY <1>2, <1>3, <1>5, <1>7 DEF Inv, PanelInv, CallInv
  <1>9. SaysInv'
    <2>1. PanelSays'
      BY <1>2, <1>7 DEF PanelSays
    <2>2. \A x \in calls' : CallSays(x)'
      BY <1>2, <1>7 DEF CallSays
    <2>3. ~adopted'
      BY <1>1 DEF Runs
    <2>. QED BY <2>1, <2>2, <2>3 DEF SaysInv
  <1>10. ToldInv'
    BY <1>2 DEF ToldInv
  <1>. QED BY <1>6, <1>8, <1>9, <1>10 DEF PanelInv

\* The panel has a call of its own only where it waits for one.
LEMMA NoneOfItsOwn ==
    ASSUME Inv, panel.at \in {"gone", "idle", "restarting", "watching", "settling"}
    PROVE  \A c \in calls : ~c.mine
  BY DEF Inv, PanelInv, CallInv, PanelTypeOK, Calls

\* The panel goes on with what it watched or with what it has read, and waits for
\* no call.
LEMMA PlaceKeeps ==
    ASSUME Inv, Stays, UNCHANGED op,
           panel' \in Panels, panel'.op = panel.op \/ panel'.op = Seen(op),
           panel'.at = "settling" => panel'.op # None,
           panel'.at \notin {"cancelling", "completing", "resettling"},
           calls' \subseteq calls, \A c \in calls' : ~c.mine, mounts' \in 0 .. MaxMounts,
           told' \subseteq Ended, toasts' \in Nat
    PROVE  PanelTypeOK' /\ CallInv' /\ SaysInv'
  <1>0. Base /\ lastId' = lastId /\ lastId \in Nat
    BY DEF Inv, PanelInv, Base, TypeOK, Stays, SetupTypeOK
  <1>1. PanelTypeOK'
    BY DEF Inv, PanelInv, PanelTypeOK
  <1>2. CallInv'
    <2>1. panel'.op # None => panel'.op.id <= lastId'
      <3>1. CASE panel'.op = panel.op
        BY <1>0, <3>1 DEF Inv, PanelInv, CallInv
      <3>2. CASE panel'.op = Seen(op)
        BY <1>0, <3>2, SeenTyped DEF Base, TypeOK, OpInv
      <3>. QED BY <3>1, <3>2
    <2>. QED BY <1>0, <2>1 DEF Inv, PanelInv, CallInv
  <1>3. SaysInv'
    <2>1. CASE panel'.op = panel.op
      BY <1>0, <2>1, SaysKeep DEF Inv, PanelInv
    <2>2. CASE panel'.op = Seen(op)
      <3>1. PanelSays' /\ (panel'.op # None /\ panel'.op.id = lastId /\ adopted => ~NoTrace)
        <4>1. CASE op = None
          BY <1>0, <2>2, <4>1, SeenTyped DEF PanelSays, Base, TypeOK
        <4>2. CASE op # None
          BY <1>0, <2>2, <4>2, SeenSays, SeenTyped DEF PanelSays, Over, Base, TypeOK
        <4>. QED BY <4>1, <4>2
      <3>. QED BY <1>0, <3>1, SaysKeep DEF Inv, PanelInv
    <2>. QED BY <2>1, <2>2
  <1>. QED BY <1>1, <1>2, <1>3

\* The panel calls, about what it watches.
LEMMA SendKeeps ==
    ASSUME Inv, Stays, panel' \in Panels, panel'.op = panel.op,
           panel.at \in {"gone", "idle", "restarting", "watching", "settling"},
           NEW kind \in {"install", "reinstall", "cancel", "complete"}, NEW id,
           calls' = calls \cup {Call(kind, id)}, UNCHANGED <<mounts, told, toasts>>,
           CASE kind = "cancel" -> panel.op # None /\ id = panel.op.id /\ panel'.at = "cancelling"
             [] kind = "complete" -> /\ panel.op # None /\ id = panel.op.id
                                     /\ panel'.at \in {"completing", "resettling"}
             [] OTHER -> id = None /\ panel'.at = "starting"
    PROVE  PanelInv'
  <1>0. Base /\ lastId' = lastId /\ lastId \in Nat /\ panel.op \in {None} \cup Views
    BY DEF Inv, PanelInv, Base, TypeOK, Stays, SetupTypeOK, PanelTypeOK, Panels
  <1>1. \/ /\ kind = "cancel" /\ panel.op # None /\ id = panel.op.id /\ panel'.at = "cancelling"
        \/ /\ kind = "complete" /\ panel.op # None /\ id = panel.op.id
           /\ panel'.at \in {"completing", "resettling"}
        \/ kind \in {"install", "reinstall"} /\ id = None /\ panel'.at = "starting"
    OBVIOUS
  <1>2. id \in {None} \cup Ids
    BY <1>0, <1>1 DEF Views
  <1>3. PICK e \in Calls : /\ e.kind = kind /\ e.id = id /\ e.mine /\ e.answer = None
                           /\ calls' = calls \cup {e}
    BY <1>2, SendsIs
  <1>4. PanelTypeOK'
    BY <1>3 DEF Inv, PanelInv, PanelTypeOK
  <1>5. CallInv'
    <2>1. \A x, y \in calls' : x.mine /\ y.mine => x = y
      BY <1>3, NoneOfItsOwn
    <2>2. \A x \in calls : /\ ~x.mine
                           /\ x.kind = "cancel" => /\ x.id \in Ids /\ x.id <= lastId'
                                                   /\ x.answer \in {None, "refused", "lost"} \cup Ended
                           /\ x.kind = "complete" =>
                                /\ x.id \in Ids /\ x.id <= lastId'
                                /\ x.answer \in {None, "refused", "lost", "now", "before", "changed"}
      BY <1>0, NoneOfItsOwn DEF Inv, PanelInv, CallInv
    <2>3. /\ panel'.op # None => panel'.op.id <= lastId'
          /\ panel'.at \in {"cancelling", "settling", "completing", "resettling"} => panel'.op # None
      BY <1>0, <1>1 DEF Inv, PanelInv, CallInv
    <2>4. kind \in {"cancel", "complete"} => id \in Ids /\ id <= lastId'
      BY <1>0, <1>1, <2>3 DEF Views
    <2>5. \A x \in calls' : x.kind = "cancel" =>
            /\ x.id \in Ids /\ x.id <= lastId'
            /\ x.answer \in {None, "refused", "lost"} \cup Ended
            /\ x.mine => panel'.at = "cancelling" /\ x.id = panel'.op.id
      BY <1>1, <1>3, <2>2, <2>4
    <2>6. \A x \in calls' : x.kind = "complete" =>
            /\ x.id \in Ids /\ x.id <= lastId'
            /\ x.answer \in {None, "refused", "lost", "now", "before", "changed"}
            /\ x.mine => panel'.at \in {"completing", "resettling"} /\ x.id = panel'.op.id
      BY <1>1, <1>3, <2>2, <2>4
    <2>7. \A x \in calls' : x.kind \in {"install", "reinstall"} /\ x.mine => panel'.at = "starting"
      BY <1>1, <1>3, <2>2
    <2>. QED BY <2>1, <2>3, <2>5, <2>6, <2>7 DEF CallInv
  <1>6. SaysInv'
    <2>1. CallSays(e)'
      BY <1>3, NoneOfThePanel DEF CallSays, Answers, Ended
    <2>2. e.id = lastId => ~NoTrace
      BY <1>0, <1>1, <1>3, SetupAssumption DEF NoTrace
    <2>. QED BY <1>0, <1>3, <2>1, <2>2, SaysKeep DEF Inv, PanelInv
  <1>7. ToldInv'
    BY <1>0, ToldKeeps DEF Inv, PanelInv
  <1>. QED BY <1>4, <1>5, <1>6, <1>7 DEF PanelInv

LEMMA MountKeeps ==
    ASSUME Inv, Mount
    PROVE  PanelInv'
  <1>0. Base /\ SetupTypeOK /\ TaskInv
    BY DEF Inv, PanelInv, Base, TypeOK
  <1>1. CapabilityRead => Dropped \/ UNCHANGED reservation
    BY DEF CapabilityRead, Reconciled, Dropped
  <1>2. Stays /\ UNCHANGED op
    BY <1>0, <1>1, OutcomeIs DEF Mount, Readable, manager
  <1>3. PICK at \in {"watching", "idle"} : panel' = [Unmounted EXCEPT !.at = at, !.op = Seen(op)]
    BY DEF Mount
  <1>4. panel' \in Panels /\ panel'.at = at /\ panel'.op = Seen(op)
    <2>1. Seen(op) \in {None} \cup Views
      BY <1>0, SeenTyped
    <2>. QED BY <1>3, <2>1, FreshIs DEF Places
  <1>5. UNCHANGED <<calls, told, toasts>> /\ mounts' \in 0 .. MaxMounts /\ told \subseteq Ended /\ toasts \in Nat
    BY PanelAssumption DEF Mount, Inv, PanelInv, PanelTypeOK
  <1>6. \A c \in calls : ~c.mine
    BY NoneOfItsOwn DEF Mount
  <1>7. PanelTypeOK' /\ CallInv' /\ SaysInv'
    BY <1>2, <1>4, <1>5, <1>6, PlaceKeeps
  <1>8. ToldInv'
    BY <1>0, <1>2, <1>5, ToldKeeps DEF Inv, PanelInv
  <1>. QED BY <1>7, <1>8 DEF PanelInv

LEMMA UnmountKeeps ==
    ASSUME Inv, Unmount
    PROVE  PanelInv'
  <1>0. Base /\ SetupTypeOK /\ TaskInv /\ calls \subseteq Calls
    BY DEF Inv, PanelInv, Base, TypeOK, PanelTypeOK
  <1>1. Stays /\ lastId' = lastId /\ UNCHANGED <<mounts, told, toasts>>
    BY <1>0, OutcomeIs DEF Unmount, PanelOnly, Stays
  <1>2. panel' \in Panels /\ panel'.at = "gone" /\ panel'.op = None
    BY DEF Unmount, Unmounted, Panels
  <1>3. PanelTypeOK'
    BY <1>0, <1>1, <1>2, UnmountIs DEF Inv, PanelInv, PanelTypeOK
  <1>4. CallInv'
    BY <1>0, <1>1, <1>2, UnmountIs DEF Inv, PanelInv, CallInv
  <1>5. SaysInv'
    <2>1. PanelSays'
      BY <1>2 DEF PanelSays
    <2>2. ASSUME NEW c \in calls' PROVE CallSays(c)' /\ (c.id = lastId /\ adopted => ~NoTrace)
      <3>1. CallSays(c)'
        BY <1>0, UnmountIs, NoneOfThePanel DEF CallSays, Answers, Ended
      <3>2. c.id = lastId => ~NoTrace
        BY <1>0, UnmountIs DEF NoTrace
      <3>. QED BY <3>1, <3>2
    <2>. QED BY <1>0, <1>1, <1>2, <2>1, <2>2, SaysKeep DEF Inv, PanelInv
  <1>6. ToldInv'
    BY <1>0, <1>1, ToldKeeps DEF Inv, PanelInv
  <1>. QED BY <1>3, <1>4, <1>5, <1>6 DEF PanelInv

\* The reads of a panel that waits for no call.
LEMMA ReadKeeps ==
    ASSUME Inv, Refresh \/ StartSettles \/ Polls
    PROVE  PanelInv'
  <1>0. Base /\ SetupTypeOK /\ TaskInv /\ panel \in Panels /\ panel.op \in {None} \cup Views
    BY DEF Inv, PanelInv, Base, TypeOK, PanelTypeOK, Panels
  <1>1. /\ CapabilityRead => Dropped \/ UNCHANGED reservation
        /\ reservation' = Reconciled(op) => Dropped \/ UNCHANGED reservation
    BY DEF CapabilityRead, Reconciled, Dropped
  <1>2. Readable /\ (Dropped \/ UNCHANGED reservation) /\ UNCHANGED <<calls, mounts, told, toasts>>
    BY <1>1 DEF Refresh, StartSettles, Polls
  <1>3. Stays /\ UNCHANGED op
    BY <1>0, <1>2, OutcomeIs DEF Readable, manager
  <1>4. PICK at \in {"watching", "idle", "settling"}, o \in {panel.op, Seen(op)} :
          NowAt(at, o) /\ (at = "settling" => o # None)
    BY DEF Refresh, StartSettles, Polls, Active, Resumable
  <1>5. o \in {None} \cup Views
    BY <1>0, SeenTyped
  <1>6. panel' \in Panels /\ panel'.at = at /\ panel'.op = o
    BY <1>0, <1>4, <1>5, NowAtIs DEF Places
  <1>7. \A c \in calls : ~c.mine
    BY NoneOfItsOwn DEF Refresh, StartSettles, Polls
  <1>8. PanelTypeOK' /\ CallInv' /\ SaysInv'
    <2>1. mounts' \in 0 .. MaxMounts /\ told' \subseteq Ended /\ toasts' \in Nat
      BY <1>2 DEF Inv, PanelInv, PanelTypeOK
    <2>. QED BY <1>2, <1>3, <1>4, <1>6, <1>7, <2>1, PlaceKeeps
  <1>9. ToldInv'
    BY <1>0, <1>2, <1>3, ToldKeeps DEF Inv, PanelInv
  <1>. QED BY <1>8, <1>9 DEF PanelInv

LEMMA PressKeeps ==
    ASSUME Inv, NEW kind \in {"install", "reinstall"}, Press(kind)
    PROVE  PanelInv'
  <1>0. SetupTypeOK /\ TaskInv /\ panel \in Panels /\ panel.op \in {None} \cup Views
    BY DEF Inv, PanelInv, PanelTypeOK, Panels
  <1>1. panel' \in Panels /\ panel'.at = "starting" /\ panel'.op = panel.op
    BY <1>0, NowAtIs DEF Press, Places
  <1>2. Stays
    BY <1>0, OutcomeIs DEF Press, PanelOnly
  <1>. QED BY <1>1, <1>2, SendKeeps DEF Press, Sends, PanelOnly

LEMMA PressCancelKeeps ==
    ASSUME Inv, PressCancel
    PROVE  PanelInv'
  <1>0. SetupTypeOK /\ TaskInv /\ panel \in Panels /\ panel.op # None
    BY DEF Inv, PanelInv, PanelTypeOK, PressCancel, Active, Resumable
  <1>1. panel' \in Panels /\ panel'.at = "cancelling" /\ panel'.op = panel.op
    BY <1>0 DEF PressCancel, Panels
  <1>2. Stays
    BY <1>0, OutcomeIs DEF PressCancel, PanelOnly
  <1>. QED BY <1>0, <1>1, <1>2, SendKeeps DEF PressCancel, Sends, PanelOnly

LEMMA CompleteSentKeeps ==
    ASSUME Inv, CompleteSent
    PROVE  PanelInv'
  <1>0. SetupTypeOK /\ TaskInv /\ panel \in Panels /\ panel.op \in {None} \cup Views
    BY DEF Inv, PanelInv, PanelTypeOK, Panels
  <1>1. panel' \in Panels /\ panel'.at = "completing" /\ panel'.op = panel.op
    BY <1>0, NowAtIs DEF CompleteSent, Places
  <1>2. Stays
    BY <1>0, OutcomeIs DEF CompleteSent, PanelOnly
  <1>. QED BY <1>1, <1>2, SendKeeps DEF CompleteSent, Sends, PanelOnly

LEMMA StartAnsweredKeeps ==
    ASSUME Inv, StartAnswered
    PROVE  PanelInv'
  <1>0. Base /\ SetupTypeOK /\ TaskInv /\ panel \in Panels /\ panel.op \in {None} \cup Views
    BY DEF Inv, PanelInv, Base, TypeOK, PanelTypeOK, Panels
  <1>1. Stays /\ UNCHANGED <<op, mounts, told, toasts>>
    BY <1>0, OutcomeIs DEF StartAnswered, PanelOnly, setupVars, manager
  <1>2. calls' \subseteq calls /\ \A c \in calls' : ~c.mine
    BY TakesIs DEF StartAnswered, Inv, PanelInv, PanelTypeOK
  <1>3. PICK at \in {"watching", "restarting"}, o \in {panel.op, Seen(op)} : NowAt(at, o)
    BY DEF StartAnswered
  <1>4. o \in {None} \cup Views
    BY <1>0, SeenTyped
  <1>5. panel' \in Panels /\ panel'.at = at /\ panel'.op = o
    BY <1>0, <1>3, <1>4, NowAtIs DEF Places
  <1>6. PanelTypeOK' /\ CallInv' /\ SaysInv'
    <2>1. mounts' \in 0 .. MaxMounts /\ told' \subseteq Ended /\ toasts' \in Nat
      BY <1>1 DEF Inv, PanelInv, PanelTypeOK
    <2>. QED BY <1>1, <1>2, <1>5, <2>1, PlaceKeeps
  <1>7. ToldInv'
    BY <1>0, <1>1, ToldKeeps DEF Inv, PanelInv
  <1>. QED BY <1>6, <1>7 DEF PanelInv

\* The panel takes a state for its operation's that it was told by an answer.
LEMMA StateKeeps ==
    ASSUME Inv, Stays, NEW s \in Ended, panel.op # None,
           NowAt("watching", [panel.op EXCEPT !.state = s]),
           s \in {"failed", "cancelled"} => (panel.op.id = lastId => Over),
           calls' \subseteq calls, \A c \in calls' : ~c.mine, UNCHANGED <<mounts, told, toasts>>
    PROVE  PanelInv'
  <1>0. Base /\ panel \in Panels /\ panel.op \in Views /\ lastId' = lastId
    BY DEF Inv, PanelInv, Base, TypeOK, PanelTypeOK, Panels, Stays
  <1>1. PICK o \in Views : o.id = panel.op.id /\ o.state = s /\ NowAt("watching", o)
    BY <1>0 DEF Views
  <1>2. panel' \in Panels /\ panel'.at = "watching" /\ panel'.op = o /\ o # None
    BY <1>0, <1>1, NowAtIs, NoneOfThePanel DEF Places
  <1>3. PanelTypeOK'
    BY <1>2 DEF Inv, PanelInv, PanelTypeOK
  <1>4. CallInv'
    BY <1>0, <1>1, <1>2 DEF Inv, PanelInv, CallInv
  <1>5. SaysInv'
    <2>1. Over => Over'
      BY <1>0, DeadStays DEF Inv
    <2>2. PanelSays'
      BY <1>0, <1>1, <1>2, <2>1 DEF PanelSays
    <2>3. panel.op.id = lastId => ~NoTrace
      BY DEF NoTrace
    <2>. QED BY <1>0, <1>1, <1>2, <2>2, <2>3, SaysKeep DEF Inv, PanelInv
  <1>6. ToldInv'
    BY <1>0, ToldKeeps DEF Inv, PanelInv
  <1>. QED BY <1>3, <1>4, <1>5, <1>6 DEF PanelInv

\* The panel settles what no answer has told it.
LEMMA SettleKeeps ==
    ASSUME Inv, Stays, UNCHANGED op, NowAt("settling", panel.op), panel.op # None,
           calls' \subseteq calls, \A c \in calls' : ~c.mine, UNCHANGED <<mounts, told, toasts>>
    PROVE  PanelInv'
  <1>0. Base /\ panel \in Panels /\ panel.op \in {None} \cup Views
    BY DEF Inv, PanelInv, Base, TypeOK, PanelTypeOK, Panels
  <1>1. panel' \in Panels /\ panel'.at = "settling" /\ panel'.op = panel.op
    BY <1>0, NowAtIs DEF Places
  <1>2. PanelTypeOK' /\ CallInv' /\ SaysInv'
    <2>1. mounts' \in 0 .. MaxMounts /\ told' \subseteq Ended /\ toasts' \in Nat
      BY DEF Inv, PanelInv, PanelTypeOK
    <2>. QED BY <1>1, <2>1, PlaceKeeps
  <1>3. ToldInv'
    BY <1>0, ToldKeeps DEF Inv, PanelInv
  <1>. QED BY <1>2, <1>3 DEF PanelInv

LEMMA CancelAnsweredKeeps ==
    ASSUME Inv, CancelAnswered
    PROVE  PanelInv'
  <1>0. SetupTypeOK /\ TaskInv /\ calls \subseteq Calls /\ CallInv
    BY DEF Inv, PanelInv, PanelTypeOK
  <1>1. Stays /\ UNCHANGED <<op, mounts, told, toasts>>
    BY <1>0, OutcomeIs DEF CancelAnswered, PanelOnly, setupVars, manager
  <1>2. PICK c \in calls : /\ c.mine /\ c.kind = "cancel" /\ AnswerOf("cancel") = c.answer
                           /\ c.answer \notin {None, "reserved"} /\ calls' = calls \ {c}
                           /\ \A d \in calls' : ~d.mine
    BY <1>0, TakesIs DEF CancelAnswered
  <1>3. panel.op # None /\ c.id = panel.op.id /\ c.answer \in {"refused", "lost"} \cup Ended
    BY <1>0, <1>2 DEF CancelAnswered, CallInv
  <1>4. CASE c.answer \in {"refused", "lost"}
    <2>1. NowAt("settling", panel.op)
      BY <1>2, <1>4 DEF CancelAnswered
    <2>. QED BY <1>1, <1>2, <1>3, <2>1, SettleKeeps
  <1>5. CASE c.answer \notin {"refused", "lost"}
    <2>1. NowAt("watching", [panel.op EXCEPT !.state = c.answer])
      BY <1>2, <1>5 DEF CancelAnswered
    <2>2. c.answer \in {"failed", "cancelled"} => (panel.op.id = lastId => Over)
      BY <1>2, <1>3 DEF Inv, PanelInv, SaysInv, CallSays
    <2>. QED BY <1>1, <1>2, <1>3, <1>5, <2>1, <2>2, StateKeeps
  <1>. QED BY <1>4, <1>5

LEMMA EndWatchedKeeps ==
    ASSUME Inv, EndWatched
    PROVE  PanelInv'
  <1>0. Base /\ SetupTypeOK /\ TaskInv /\ panel \in Panels /\ panel.op \in Views /\ panel.op # None
    BY DEF Inv, PanelInv, Base, TypeOK, PanelTypeOK, Panels, EndWatched
  <1>1. CapabilityRead => Dropped \/ UNCHANGED reservation
    BY DEF CapabilityRead, Reconciled, Dropped
  <1>2. Stays /\ UNCHANGED <<op, calls, mounts, toasts>>
    BY <1>0, <1>1, OutcomeIs DEF EndWatched, Readable, manager
  <1>3. PICK at \in {"watching", "idle"} :
          panel' = [panel EXCEPT !.stopping = FALSE, !.op = Seen(op), !.at = at]
    BY DEF EndWatched
  <1>4. panel' \in Panels /\ panel'.at = at /\ panel'.op = Seen(op)
    <2>1. Seen(op) \in {None} \cup Views
      BY <1>0, SeenTyped
    <2>. QED BY <1>0, <1>3, <2>1, ResetIs DEF Places
  <1>5. /\ told' \subseteq told \cup {panel.op.state} /\ (told' # told => panel.op.id = lastId)
        /\ panel.op.state \in {"failed", "cancelled"}
    BY <1>0 DEF EndWatched, Says, Resumable
  <1>6. PanelTypeOK' /\ CallInv' /\ SaysInv'
    <2>1. mounts' \in 0 .. MaxMounts /\ told' \subseteq Ended /\ toasts' \in Nat
      BY <1>2, <1>5 DEF Inv, PanelInv, PanelTypeOK, Ended
    <2>2. \A c \in calls : ~c.mine
      BY NoneOfItsOwn DEF EndWatched
    <2>. QED BY <1>2, <1>4, <2>1, <2>2, PlaceKeeps
  <1>7. ToldInv'
    <2>1. (Dead => Dead') /\ (adopted => adopted') /\ adopted' = adopted
      BY <1>0, <1>2, DeadStays DEF Base, Stays
    <2>2. panel.op.id = lastId => Dead
      BY <1>0, <1>5 DEF Inv, PanelInv, SaysInv, PanelSays, Over, EndWatched
    <2>3. "completed" \in told' => "completed" \in told
      BY <1>5
    <2>4. told' \cap {"failed", "cancelled"} # {} => Dead
      BY <1>5, <2>2 DEF Inv, PanelInv, ToldInv
    <2>. QED BY <1>2, <2>1, <2>3, <2>4 DEF Inv, PanelInv, ToldInv
  <1>. QED BY <1>6, <1>7 DEF PanelInv

LEMMA SettlesKeeps ==
    ASSUME Inv, Settles
    PROVE  PanelInv'
  <1>0. Base /\ SetupTypeOK /\ TaskInv /\ panel \in Panels /\ panel.op # None /\ panel.op \in Views
    BY DEF Inv, PanelInv, Base, TypeOK, PanelTypeOK, Panels, Settles, CallInv
  <1>1. CapabilityRead => Dropped \/ UNCHANGED reservation
    BY DEF CapabilityRead, Reconciled, Dropped
  <1>2. Stays /\ UNCHANGED <<op, mounts, told, toasts>>
    BY <1>0, <1>1, OutcomeIs DEF Settles, Readable, manager
  <1>3. \A c \in calls : ~c.mine
    BY NoneOfItsOwn DEF Settles
  <1>4. CASE op # None
    <2>1. panel' = [panel EXCEPT !.at = "watching", !.op = Seen(op), !.stopping = FALSE] /\ calls' = calls
      BY <1>4 DEF Settles
    <2>2. panel' \in Panels /\ panel'.at = "watching" /\ panel'.op = Seen(op)
      <3>1. Seen(op) \in {None} \cup Views
        BY <1>0, SeenTyped
      <3>. QED BY <1>0, <2>1, <3>1, ResetIs DEF Places
    <2>3. PanelTypeOK' /\ CallInv' /\ SaysInv'
      <3>1. mounts' \in 0 .. MaxMounts /\ told' \subseteq Ended /\ toasts' \in Nat
        BY <1>2 DEF Inv, PanelInv, PanelTypeOK
      <3>. QED BY <1>2, <1>3, <2>1, <2>2, <3>1, PlaceKeeps
    <2>4. ToldInv'
      BY <1>0, <1>2, ToldKeeps DEF Inv, PanelInv
    <2>. QED BY <2>3, <2>4 DEF PanelInv
  <1>5. CASE op = None
    <2>1. NowAt("resettling", panel.op) /\ Sends("complete", panel.op.id)
      BY <1>5 DEF Settles
    <2>2. panel' \in Panels /\ panel'.at = "resettling" /\ panel'.op = panel.op
      BY <1>0, <2>1, NowAtIs DEF Places
    <2>. QED BY <1>0, <1>2, <2>1, <2>2, SendKeeps DEF Sends, Settles
  <1>. QED BY <1>4, <1>5

\* An install is said to be complete on a receipt, and announced on the one answer
\* that committed it.
LEMMA FinishedKeeps ==
    ASSUME Inv, NEW c \in calls, c.mine, c.kind = "complete", c.answer \in {"now", "before"},
           c.id = panel.op.id, calls' = calls \ {c}, \A d \in calls' : ~d.mine,
           panel.op # None, Finished(c.answer = "now")
    PROVE  PanelInv'
  <1>0. Base /\ SetupTypeOK /\ TaskInv /\ panel \in Panels
    BY DEF Inv, PanelInv, Base, TypeOK, PanelTypeOK
  <1>1. CapabilityRead => Dropped \/ UNCHANGED reservation
    BY DEF CapabilityRead, Reconciled, Dropped
  <1>2. Stays /\ UNCHANGED <<op, mounts>>
    BY <1>0, <1>1, OutcomeIs DEF Finished, Readable, manager
  <1>3. PICK at \in {"watching", "idle"} :
          panel' = [panel EXCEPT !.stopping = FALSE, !.op = Seen(op), !.at = at]
    BY DEF Finished
  <1>4. panel' \in Panels /\ panel'.at = at /\ panel'.op = Seen(op)
    <2>1. Seen(op) \in {None} \cup Views
      BY <1>0, SeenTyped
    <2>. QED BY <1>0, <1>3, <2>1, ResetIs DEF Places
  <1>5. /\ told' \subseteq told \cup {"completed"} /\ (told' # told => c.id = lastId)
        /\ toasts' \in {toasts, toasts + 1} /\ (toasts' # toasts => c.id = lastId /\ c.answer = "now")
    BY DEF Finished, Says
  <1>6. c.id = lastId => adopted /\ (c.answer = "now" => toasts = 0)
    BY DEF Inv, PanelInv, SaysInv, CallSays
  <1>7. PanelTypeOK' /\ CallInv' /\ SaysInv'
    <2>1. mounts' \in 0 .. MaxMounts /\ told' \subseteq Ended /\ toasts' \in Nat
      BY <1>2, <1>5 DEF Inv, PanelInv, PanelTypeOK, Ended
    <2>. QED BY <1>2, <1>4, <2>1, PlaceKeeps
  <1>8. ToldInv'
    <2>1. (Dead => Dead') /\ (adopted => adopted')
      BY <1>0, <1>2, DeadStays DEF Base
    <2>2. "completed" \in told' => adopted
      BY <1>5, <1>6 DEF Inv, PanelInv, ToldInv
    <2>3. told' \cap {"failed", "cancelled"} # {} => Dead
      BY <1>5 DEF Inv, PanelInv, ToldInv
    <2>4. toasts' \in {0, 1} /\ (toasts' = 1 => adopted)
      BY <1>5, <1>6 DEF Inv, PanelInv, ToldInv
    <2>. QED BY <2>1, <2>2, <2>3, <2>4 DEF ToldInv
  <1>. QED BY <1>7, <1>8 DEF PanelInv

LEMMA ReceiptKeeps ==
    ASSUME Inv, CompleteAnswered \/ Resettled
    PROVE  PanelInv'
  <1>0. SetupTypeOK /\ TaskInv /\ calls \subseteq Calls /\ CallInv
    BY DEF Inv, PanelInv, PanelTypeOK
  <1>1. PICK c \in calls : /\ c.mine /\ c.kind = "complete" /\ AnswerOf("complete") = c.answer
                           /\ c.answer \notin {None, "reserved"} /\ calls' = calls \ {c}
                           /\ \A d \in calls' : ~d.mine
    BY <1>0, TakesIs DEF CompleteAnswered, Resettled
  <1>2. /\ panel.op # None /\ c.id = panel.op.id
        /\ c.answer \in {"refused", "lost", "now", "before", "changed"}
    BY <1>0, <1>1 DEF CompleteAnswered, Resettled, CallInv
  <1>3. PanelOnly => Stays /\ UNCHANGED <<op, mounts, told, toasts>>
    BY <1>0, OutcomeIs DEF PanelOnly, setupVars, manager
  <1>4. CASE c.answer \in {"now", "before"}
    <2>1. Finished(c.answer = "now")
      <3>1. CASE CompleteAnswered
        BY <1>1, <1>4, <3>1 DEF CompleteAnswered
      <3>2. CASE Resettled
        BY <1>1, <1>4, <3>2 DEF Resettled
      <3>. QED BY <3>1, <3>2
    <2>. QED BY <1>1, <1>2, <1>4, <2>1, FinishedKeeps
  <1>5. CASE CompleteAnswered /\ c.answer \notin {"now", "before"}
    <2>1. NowAt("settling", panel.op) /\ PanelOnly
      BY <1>1, <1>5 DEF CompleteAnswered
    <2>. QED BY <1>1, <1>2, <1>3, <2>1, SettleKeeps
  <1>6. CASE Resettled /\ c.answer = "changed"
    <2>1. NowAt("watching", [panel.op EXCEPT !.state = "failed"]) /\ PanelOnly
      BY <1>1, <1>6 DEF Resettled
    <2>2. panel.op.id = lastId => Over
      BY <1>1, <1>2, <1>6 DEF Inv, PanelInv, SaysInv, CallSays
    <2>. QED BY <1>1, <1>2, <1>3, <2>1, <2>2, StateKeeps DEF Ended
  <1>7. CASE Resettled /\ c.answer \in {"refused", "lost"}
    <2>1. NowAt("settling", panel.op) /\ PanelOnly
      BY <1>1, <1>7 DEF Resettled
    <2>. QED BY <1>1, <1>2, <1>3, <2>1, SettleKeeps
  <1>. QED BY <1>2, <1>4, <1>5, <1>6, <1>7

\* A reload leaves no panel and no call that could say anything more.
LEMMA ReloadKeeps ==
    ASSUME Inv, Reload
    PROVE  PanelInv'
  <1>1. Forgets /\ panel' = Unmounted /\ calls' = {} /\ UNCHANGED <<mounts, told, toasts>>
    BY OutcomeIs DEF Reload, Inv
  <1>2. panel' \in Panels /\ panel'.at = "gone" /\ panel'.op = None
    BY <1>1 DEF Unmounted, Panels
  <1>3. PanelTypeOK' /\ CallInv'
    BY <1>1, <1>2 DEF Inv, PanelInv, PanelTypeOK, CallInv
  <1>4. SaysInv'
    BY <1>1, <1>2 DEF SaysInv, PanelSays, NoTrace
  <1>5. ToldInv'
    BY <1>1 DEF Inv, PanelInv, ToldInv, Dead, Forgets
  <1>. QED BY <1>3, <1>4, <1>5 DEF PanelInv

-----------------------------------------------------------------------------
\* The inductive invariant, from the first state and through every step.
LEMMA InvStarts == Init => Inv /\ KeptInv /\ CopyInv
  <1>. SUFFICES ASSUME Init PROVE Inv /\ KeptInv /\ CopyInv
    OBVIOUS
  <1>. USE NoneAssumption, SetupAssumption, PanelAssumption DEF Init, SetupInit
  <1>1. SetupTypeOK
    BY DEF SetupTypeOK
  <1>2. TaskInv /\ OpInv /\ KeptInv /\ CopyInv
    BY DEF TaskInv, OpInv, KeptInv, CopyInv, Ids
  <1>3. panel \in Panels /\ panel.op = None /\ panel.at = "gone"
    BY DEF Unmounted, Panels
  <1>4. PanelInv
    BY <1>3 DEF PanelInv, PanelTypeOK, CallInv, SaysInv, PanelSays, ToldInv
  <1>. QED BY <1>1, <1>2, <1>4 DEF Inv

LEMMA InvSteps == Inv /\ KeptInv /\ CopyInv /\ [Next]_vars => Inv' /\ KeptInv' /\ CopyInv'
  <1>. SUFFICES ASSUME Inv, KeptInv, CopyInv, [Next]_vars PROVE Inv' /\ KeptInv' /\ CopyInv'
    OBVIOUS
  <1>1. SetupStep /\ SetupTypeOK /\ TaskInv /\ OpInv
    BY NextIsSetupStep DEF Inv
  <1>2. SetupTypeOK' /\ TaskInv' /\ OpInv' /\ KeptInv' /\ CopyInv'
    BY <1>1, SetupStepTyped, TaskKeeps, OpKeeps, KeptKeeps, CopyKeeps
  <1>3. PanelInv'
    <2>1. CASE (TaskStep \/ Surroundings) /\ Backend
      BY <1>1, <2>1, OutcomeIs, BackendKeeps DEF Backend
    <2>2. CASE SomeoneReads
      <3>1. CapabilityRead => Dropped \/ UNCHANGED reservation
        BY DEF CapabilityRead, Reconciled, Dropped
      <3>. QED BY <1>1, <2>2, <3>1, OutcomeIs, BackendKeeps DEF SomeoneReads, Backend
    <2>3. CASE UNCHANGED vars
      BY <1>1, <2>3, OutcomeIs, BackendKeeps DEF vars
    <2>4. ASSUME NEW c \in calls, CarryOut(c) \/ CallLost(c) PROVE PanelInv'
      BY <2>4, CarryOutStartKeeps, CarryOnStartKeeps, CarryOutCancelKeeps, CarryOutCompleteKeeps,
         CallLostKeeps DEF CarryOut
    <2>5. CASE PanelStep
      BY <2>5, ReadKeeps, StartAnsweredKeeps, CancelAnsweredKeeps, EndWatchedKeeps, CompleteSentKeeps,
         SettlesKeeps, ReceiptKeeps DEF PanelStep
    <2>6. CASE Mount \/ Unmount \/ PressCancel \/ Reload
      BY <2>6, MountKeeps, UnmountKeeps, PressCancelKeeps, ReloadKeeps
    <2>7. ASSUME NEW kind \in {"install", "reinstall"}, Press(kind) PROVE PanelInv'
      BY <2>7, PressKeeps
    <2>. QED BY <2>1, <2>2, <2>3, <2>4, <2>5, <2>6, <2>7 DEF Next
  <1>. QED BY <1>2, <1>3 DEF Inv

\* The inductive invariant holds: nothing said or asked of an install outlives
\* what became of it, and no whole tree and no copy in use is given up.
THEOREM InvHolds == Spec => [](Inv /\ KeptInv /\ CopyInv)
  BY InvStarts, InvSteps, PTL DEF Spec

-----------------------------------------------------------------------------
\* Where no read falls into a start, an install under way has the reservation, the
\* reservation keeps every Cheat Engine out, and it is being made for one call.

HoldInv ==
    /\ task # None => reservation = op.id
    /\ reservation # None => NothingRuns

StartInv ==
    /\ \A c \in calls : c.answer = "reserved" => reservation = Starting
    /\ \A c, d \in calls : c.answer = "reserved" /\ d.answer = "reserved" => c = d

LEMMA HoldKeeps ==
    ASSUME Inv, HoldInv, StartInv, [Next]_vars
    PROVE  HoldInv'
  <1>. USE NoneAssumption, SetupAssumption DEF HoldInv, NothingRuns, manager, service, launch
  <1>0. SetupStep /\ SetupTypeOK /\ TaskInv
    BY NextIsSetupStep DEF Inv
  <1>1. op # None => op \in Operations /\ op.id \in Nat
    BY <1>0 DEF SetupTypeOK, Operations, Ids
  <1>2. CASE TaskStep
    BY <1>0, <1>2, TaskStepIs DEF TaskInv
  <1>3. CASE Surroundings
    <2>1. UNCHANGED <<op, task, reservation>>
      BY <1>3 DEF Surroundings, Import, ImportArchive, ReserveLaunch, Fork, LaunchGivenUp, RuntimeDrifts,
                  CEEnds, Damage
    <2>2. reservation # None => ~live' /\ ~reserved'
      BY <1>3 DEF Surroundings, Import, ImportArchive, ReserveLaunch, Fork, LaunchGivenUp, RuntimeDrifts,
                  CEEnds, Damage
    <2>. QED BY <2>1, <2>2
  <1>4. CASE RestartStep
    BY <1>4 DEF RestartStep, Restart, DieKeepingInstaller, DiePromoting, DieImporting, Forgotten
  <1>5. CASE StartReserves
    <2>1. task = None
      BY <1>0, <1>1, <1>5 DEF StartReserves, IdentityMayChange, TaskInv
    <2>. QED BY <1>5, <2>1 DEF StartReserves, IdentityMayChange
  <1>6. ASSUME NEW force \in BOOLEAN, NEW c \in calls, c.answer = "reserved", StartRuns(force)
        PROVE  HoldInv'
    <2>1. reservation = Starting
      BY <1>6 DEF StartInv
    <2>2. Runs /\ reservation' = lastId'
      BY <1>0, <1>6, <2>1, OutcomeIs DEF StartRuns
    <2>. QED BY <1>6, <2>1, <2>2 DEF StartRuns, Runs
  <1>7. ASSUME NEW id, CancelAsked(id) PROVE HoldInv'
    BY <1>7 DEF CancelAsked
  <1>8. ASSUME NEW id, Complete(id) PROVE HoldInv'
    BY <1>8 DEF Complete, CompleteAllowed
  <1>9. CASE Readable /\ (Dropped \/ UNCHANGED reservation)
    <2>1. Dropped => task = None
      BY <1>0 DEF Dropped, TaskInv, Working
    <2>. QED BY <1>9, <2>1 DEF Readable, Dropped
  <1>10. CASE UNCHANGED <<disk, config, runtimes, manager, service, launch, imports, had>>
    BY <1>10
  <1>. QED BY <1>0, <1>2, <1>3, <1>4, <1>5, <1>6, <1>7, <1>8, <1>9, <1>10 DEF SetupStep

LEMMA StartKeeps ==
    ASSUME Inv, HoldInv, StartInv, ~Threads, [Next]_vars
    PROVE  StartInv'
  <1>. USE NoneOfThePanel, SetupAssumption
  <1>0. calls \subseteq Calls /\ CallInv /\ SetupTypeOK /\ TaskInv
    BY DEF Inv, PanelInv, PanelTypeOK
  <1>1. ASSUME \A e \in calls' : e.answer = "reserved" => e \in calls,
               reservation = Starting => reservation' = Starting
        PROVE  StartInv'
    BY <1>1 DEF StartInv
  <1>2. ASSUME UNCHANGED calls, UNCHANGED reservation \/ reservation # Starting
        PROVE  StartInv'
    BY <1>1, <1>2
  <1>3. CASE (TaskStep \/ Surroundings) /\ Backend
    <2>1. UNCHANGED reservation /\ UNCHANGED calls
      BY <1>0, <1>3, TaskStepIs DEF Backend, panelVars, Surroundings, Import, ImportArchive, ReserveLaunch,
         Fork, LaunchGivenUp, RuntimeDrifts, CEEnds, Damage, service
    <2>. QED BY <1>2, <2>1
  <1>4. CASE SomeoneReads \/ Mount \/ Refresh \/ StartSettles \/ EndWatched \/ Polls
    BY <1>2, <1>4 DEF SomeoneReads, Backend, panelVars, Mount, Refresh, StartSettles, EndWatched, Polls
  <1>5. CASE UNCHANGED vars
    BY <1>2, <1>5 DEF vars, setupVars, panelVars, service
  <1>6. ASSUME NEW c \in calls, NEW a \in Answers, Answered(c, a), a # "reserved",
               reservation = Starting => reservation' = Starting
        PROVE  StartInv'
    <2>1. PICK e \in Calls : e.answer = a /\ calls' = (calls \ {c}) \cup {e}
      BY <1>0, <1>6, AnsweredIs
    <2>. QED BY <1>1, <1>6, <2>1
  <1>7. ASSUME NEW c \in calls, CarryOutStart(c) PROVE StartInv'
    <2>1. CASE StartReserves
      <3>1. reservation' = Starting /\ \A d \in calls : d.answer # "reserved"
        BY <2>1 DEF StartReserves, IdentityMayChange, StartInv
      <3>2. Answered(c, "reserved")
        BY <1>7, <2>1 DEF CarryOutStart, StartReserves
      <3>3. PICK e \in Calls : calls' = (calls \ {c}) \cup {e}
        BY <1>0, <3>2, AnsweredIs DEF Answers
      <3>. QED BY <3>1, <3>3 DEF StartInv
    <2>2. CASE ~StartReserves
      BY <1>6, <1>7, <2>2 DEF CarryOutStart, setupVars, service, Answers
    <2>. QED BY <2>1, <2>2
  <1>8. ASSUME NEW c \in calls, CarryOnStart(c) PROVE StartInv'
    <2>1. PICK a \in {"done", "refused"} : Answered(c, a)
      BY <1>8 DEF CarryOnStart
    <2>2. PICK e \in Calls : e.answer = a /\ calls' = (calls \ {c}) \cup {e}
      BY <1>0, <2>1, AnsweredIs DEF Answers
    <2>3. \A d \in calls' : d.answer # "reserved"
      BY <1>8, <2>1, <2>2 DEF CarryOnStart, StartInv
    <2>. QED BY <2>3 DEF StartInv
  <1>9. ASSUME NEW c \in calls, CarryOutCancel(c) PROVE StartInv'
    <2>1. CASE op = None \/ op.id # c.id
      <3>1. Answered(c, "refused") /\ UNCHANGED reservation
        BY <1>9, <2>1 DEF CarryOutCancel, setupVars, service
      <3>. QED BY <1>6, <3>1 DEF Answers
    <2>2. CASE op # None /\ op.id = c.id /\ task = None
      <3>1. Answered(c, op.state) /\ reservation # Starting
        BY <1>9, <2>2 DEF CarryOutCancel
      <3>2. op.state \in Ended
        BY <1>0, <2>2, NoneAssumption DEF SetupTypeOK, TaskInv, Operations
      <3>. QED BY <1>6, <3>1, <3>2 DEF Answers, Ended
    <2>3. CASE op # None /\ op.id = c.id /\ task # None
      BY <1>2, <1>9, <2>3 DEF CarryOutCancel
    <2>. QED BY <2>1, <2>2, <2>3
  <1>10. ASSUME NEW c \in calls, CarryOutComplete(c) PROVE StartInv'
    <2>1. CASE CompleteAllowed(c.id)
      <3>1. reservation # Starting /\ Answered(c, "now")
        BY <1>0, <1>10, <2>1, NoneAssumption
           DEF CarryOutComplete, CompleteAllowed, Complete, SetupTypeOK, Operations, Ids
      <3>. QED BY <1>6, <3>1 DEF Answers
    <2>2. CASE ~CompleteAllowed(c.id)
      <3>1. PICK a \in {"refused", "before", "changed"} : Answered(c, a)
        BY <1>10, <2>2 DEF CarryOutComplete
      <3>2. UNCHANGED reservation
        BY <1>10, <2>2 DEF CarryOutComplete, setupVars, service
      <3>. QED BY <1>6, <3>1, <3>2 DEF Answers
    <2>. QED BY <2>1, <2>2
  <1>11. ASSUME NEW c \in calls, CallLost(c) PROVE StartInv'
    BY <1>6, <1>11 DEF CallLost, service, Answers
  <1>12. CASE Unmount
    <2>1. UNCHANGED reservation
      BY <1>12 DEF Unmount, PanelOnly, setupVars, service
    <2>2. \A e \in calls' : \E c \in calls : e.answer = c.answer /\ e = [c EXCEPT !.mine = FALSE]
      BY <1>0, <1>12, UnmountIs
    <2>. QED BY <2>1, <2>2 DEF StartInv
  <1>13. ASSUME NEW kind \in {"install", "reinstall", "cancel", "complete"},
                NEW id \in {None} \cup Ids, Sends(kind, id),
                UNCHANGED reservation \/ reservation # Starting
         PROVE  StartInv'
    <2>1. Call(kind, id).answer # "reserved"
      BY SendsIs DEF Answers
    <2>. QED BY <1>1, <1>13, <2>1 DEF Sends, StartInv
  <1>14. panel.op # None => panel.op.id \in Ids
    BY DEF Inv, PanelInv, PanelTypeOK, Panels, Views
  <1>15. CASE PressCancel \/ CompleteSent
    BY <1>13, <1>14, <1>15 DEF PressCancel, CompleteSent, PanelOnly, setupVars, service, Active, Resumable
  <1>16. ASSUME NEW kind \in {"install", "reinstall"}, Press(kind) PROVE StartInv'
    BY <1>13, <1>16 DEF Press, PanelOnly, setupVars, service
  <1>17. CASE Settles
    BY <1>2, <1>13, <1>14, <1>17, <1>0 DEF Settles, CallInv
  <1>18. CASE StartAnswered \/ CancelAnswered \/ CompleteAnswered \/ Resettled
    <2>1. calls' \subseteq calls
      BY <1>18 DEF StartAnswered, CancelAnswered, CompleteAnswered, Resettled, Takes
    <2>2. UNCHANGED reservation \/ reservation # Starting
      <3>1. PanelOnly => UNCHANGED reservation
        BY DEF PanelOnly, setupVars, service
      <3>2. ASSUME NEW b, Finished(b) PROVE reservation # Starting
        BY <3>2 DEF Finished
      <3>3. CASE Resettled
        <4>. DEFINE answer == AnswerOf("complete")
        <4>1. CASE answer \in {"now", "before"}
          BY <3>2, <3>3, <4>1 DEF Resettled
        <4>2. CASE answer \notin {"now", "before"}
          BY <3>1, <3>3, <4>2 DEF Resettled
        <4>. QED BY <4>1, <4>2
      <3>. QED BY <1>18, <3>1, <3>2, <3>3 DEF StartAnswered, CancelAnswered, CompleteAnswered
    <2>. QED BY <1>1, <2>1, <2>2 DEF StartInv
  <1>19. CASE Reload
    BY <1>19 DEF Reload, StartInv
  <1>. QED BY <1>3, <1>4, <1>5, <1>7, <1>8, <1>9, <1>10, <1>11, <1>12, <1>15, <1>16, <1>17, <1>18, <1>19
           DEF Next, PanelStep, CarryOut

\* The step IdentityStands allows.
Stands ==
    /\ (live /\ live') \/ (reserved /\ reserved')
         => /\ UNCHANGED <<config, packed>>
            /\ dest' # dest => dest # None /\ dest' = [dest EXCEPT !.ok = FALSE]
    /\ live /\ live' => runtimes'[uses] \in {runtimes[uses], "changed"}
    /\ live /\ live' /\ runtimes[uses] = "changed" => runtimes'[uses] = "changed"

LEMMA StepStands ==
    ASSUME Inv, CopyInv, HoldInv, [Next]_vars
    PROVE  Stands
  <1>. USE NoneAssumption DEF disk, manager, service, launch
  <1>0. SetupStep /\ SetupTypeOK /\ TaskInv
    BY NextIsSetupStep DEF Inv
  <1>1. ASSUME UNCHANGED <<config, packed, dest, runtimes>> PROVE Stands
    BY <1>1 DEF Stands
  <1>2. ASSUME ~live, ~reserved PROVE Stands
    BY <1>2 DEF Stands
  <1>3. task # None => ~live /\ ~reserved
    <2>1. task # None => reservation # None
      BY <1>0, SetupAssumption DEF HoldInv, TaskInv, SetupTypeOK, Operations, Ids
    <2>. QED BY <2>1 DEF HoldInv, NothingRuns
  <1>4. CASE TaskStep
    BY <1>0, <1>2, <1>3, <1>4, TaskStepIs
  <1>5. CASE ReserveLaunch
    <2>1. UNCHANGED <<config, packed, dest>> /\ ~reserved
      BY <1>5 DEF ReserveLaunch
    <2>2. ASSUME live PROVE runtimes'[uses] = runtimes[uses]
      <3>1. uses \in Sources /\ runtimes[uses] # None /\ runtimes \in [Sources -> {None, "good", "changed"}]
        BY <1>0, <2>2 DEF CopyInv, SetupTypeOK
      <3>2. runtimes'[uses] = IF uses = config THEN "good" ELSE runtimes[uses]
        BY <1>5, <2>2, <3>1 DEF ReserveLaunch, Collected, Materialized
      <3>3. uses = config => runtimes[uses] = "good"
        BY <1>5, <2>2, <3>1 DEF ReserveLaunch, Matches
      <3>. QED BY <3>2, <3>3
    <2>. QED BY <2>1, <2>2 DEF Stands
  <1>6. CASE RuntimeDrifts
    <2>1. runtimes'[uses] = "changed"
      BY <1>0, <1>6 DEF RuntimeDrifts, CopyInv, SetupTypeOK
    <2>. QED BY <1>6, <2>1 DEF RuntimeDrifts, Stands
  <1>7. CASE Damage
    BY <1>7 DEF Damage, Stands
  <1>8. CASE Surroundings /\ ~ReserveLaunch /\ ~RuntimeDrifts /\ ~Damage
    BY <1>1, <1>2, <1>8 DEF Surroundings, Import, ImportArchive, IdentityMayChange, NothingRuns,
                            Fork, LaunchGivenUp, CEEnds
  <1>9. CASE RestartStep
    BY <1>1, <1>2, <1>3, <1>9 DEF RestartStep, Restart, DieKeepingInstaller, DiePromoting, DieImporting,
                                  Forgotten, IdentityMayChange, NothingRuns
  <1>10. ASSUME NEW id, Complete(id) PROVE Stands
    BY <1>2, <1>10 DEF Complete, CompleteAllowed, NothingRuns
  <1>11. CASE UNCHANGED <<disk, config, runtimes>>
    BY <1>1, <1>11
  <1>. QED BY <1>0, <1>4, <1>5, <1>6, <1>7, <1>8, <1>9, <1>10, <1>11
           DEF SetupStep, StartReserves, StartRuns, CancelAsked, Readable

\* Where no read falls into a start, what a game is being served from does not
\* change under it, whatever is installed, imported or launched meanwhile.
THEOREM ServedUndisturbed == ASSUME ~Threads PROVE Spec => IdentityStands
  <1>1. Init => HoldInv /\ StartInv
    BY DEF Init, SetupInit, HoldInv, StartInv
  <1>2. Inv /\ HoldInv /\ StartInv /\ [Next]_vars => HoldInv' /\ StartInv'
    BY HoldKeeps, StartKeeps
  <1>3. Inv /\ CopyInv /\ HoldInv /\ [Next]_vars => [Stands]_setupVars
    BY StepStands
  <1>4. Spec => [][Stands]_setupVars
    BY <1>1, <1>2, <1>3, InvHolds, PTL DEF Spec
  <1>. QED BY <1>4 DEF Stands, IdentityStands

-----------------------------------------------------------------------------
\* Every variable of the setup and of its panel keeps to the states it is meant
\* to have, over any number of installs, faults, imports and panels.
THEOREM TypeCorrect == Spec => []TypeOK
  <1>1. Inv => TypeOK
    BY DEF Inv, PanelInv, TypeOK
  <1>. QED BY <1>1, InvHolds, PTL

\* A managed installation that was whole is never given up before the one that
\* replaces it has been validated: wherever the replacement fails, is cancelled
\* or is cut short by a death, one of the two is in its place or beside it.
THEOREM OneIsAlwaysKept == Spec => []OneIsKept
  <1>1. KeptInv => OneIsKept
    BY DEF KeptInv, OneIsKept, Installed
  <1>. QED BY <1>1, InvHolds, PTL

\* What any panel has said of the latest install is what became of it, and it was
\* announced once at most, whichever calls and answers were lost.
THEOREM WhatIsSaidIsSo == Spec => []SaidIsSo
  <1>1. Inv => SaidIsSo
    BY DEF Inv, PanelInv, ToldInv, SaidIsSo, Dead
  <1>. QED BY <1>1, InvHolds, PTL
=============================================================================
