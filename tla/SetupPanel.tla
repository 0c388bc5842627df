------------------------------ MODULE SetupPanel ------------------------------
(***************************************************************************)
(* The panel that drives an install of Cheat Engine: ManagedSetupOwner of  *)
(* managedSetup.ts, mounted by index.tsx, over the backend of Setup.tla.   *)
(*                                                                         *)
(* A panel is mounted and unmounted at will, one after the other.  Its     *)
(* reads may fail and are repeated; its three calls that change something  *)
(* (start, cancel, complete) may be carried out or not, before or after the*)
(* panel that made them is gone, and their answer may be lost.             *)
(***************************************************************************)
EXTENDS Setup

CONSTANTS MaxMounts    \* panels, one after the other

ASSUME PanelAssumption == MaxMounts \in Nat

VARIABLES
  panel,    \* the mounted panel
  calls,    \* the calls on their way to the backend, or answered
  mounts,
  told,     \* what panels said of the latest install
  toasts    \* how often it was announced as verified

panelVars == <<panel, calls, mounts, told, toasts>>
vars == <<setupVars, panelVars>>

Resumable(o) == o # None /\ o.state # "failed" /\ o.state # "cancelled"
Active(o) == Resumable(o) /\ o.state # "completed"
Seen(o) == IF o = None THEN None ELSE [id |-> o.id, state |-> o.state]

Unmounted == [at |-> "gone", op |-> None, stopping |-> FALSE]
Call(kind, id) == [kind |-> kind, id |-> id, mine |-> TRUE, answer |-> None]
Mine(kind) == {c \in calls : c.mine /\ c.kind = kind}

Answers == Ended \cup {"reserved", "refused", "lost", "done", "now", "before", "changed"}
Calls == [kind : {"install", "reinstall", "cancel", "complete"}, id : {None} \cup Ids,
          mine : BOOLEAN, answer : {None} \cup Answers]
Views == [id : Ids, state : Ended \cup Working]

ASSUME NoneOfThePanel == None \notin Views \cup Answers

Panels == [at : {"gone", "idle", "starting", "restarting", "watching", "cancelling",
                 "settling", "completing", "resettling"},
           op : {None} \cup Views, stopping : BOOLEAN]

PanelTypeOK ==
  /\ panel \in Panels
  /\ calls \subseteq Calls
  /\ mounts \in 0 .. MaxMounts
  /\ told \subseteq Ended /\ toasts \in Nat

TypeOK == SetupTypeOK /\ PanelTypeOK

Init ==
  /\ SetupInit
  /\ panel = Unmounted /\ calls = {} /\ mounts = 0
  /\ told = {} /\ toasts = 0

Backend == UNCHANGED panelVars
Readable == UNCHANGED <<disk, config, runtimes, manager, completion, adopted, launch, counts, had>>

-----------------------------------------------------------------------------
(* The backend's half of a call.                                           *)

Answered(c, answer) == calls' = (calls \ {c}) \cup {[c EXCEPT !.answer = answer]}

\* A start is refused, or reserves and then runs.  In between, another thread
\* can read the capability: see SomeoneReads.
CarryOutStart(c) ==
  /\ c.kind \in {"install", "reinstall"} /\ c.answer = None
  /\ \/ /\ StartReserves /\ Answered(c, "reserved")
     \/ /\ ~IdentityMayChange
        /\ Answered(c, "refused") /\ UNCHANGED setupVars
  /\ UNCHANGED <<panel, mounts, told, toasts>>

CarryOnStart(c) ==
  /\ c.kind \in {"install", "reinstall"} /\ c.answer = "reserved"
  /\ StartRuns(c.kind = "reinstall")
  /\ Answered(c, IF reservation = Starting THEN "done" ELSE "refused")
  /\ told' = {} /\ toasts' = 0
  /\ UNCHANGED <<panel, mounts>>

\* Cancelling answers once the task it told has ended, with what became of it.  It
\* and a start run on the event loop, so neither falls into the other.
CarryOutCancel(c) ==
  /\ c.kind = "cancel" /\ c.answer = None /\ reservation # Starting
  /\ IF op = None \/ op.id # c.id
     THEN Answered(c, "refused") /\ UNCHANGED setupVars
     ELSE IF task = None
     THEN /\ Answered(c, op.state)
          /\ reservation' = Reconciled(op)
          /\ Readable
     ELSE /\ ~task.cancel
          /\ CancelAsked(c.id) /\ UNCHANGED calls
  /\ UNCHANGED <<panel, mounts, told, toasts>>

\* Completing commits once; to the same install it answers again from the
\* receipt, and a reservation that is not its own refuses it.
CarryOutComplete(c) ==
  /\ c.kind = "complete" /\ c.answer = None
  /\ IF CompleteAllowed(c.id)
     THEN Complete(c.id) /\ Answered(c, "now")
     ELSE /\ Answered(c, IF reservation = c.id THEN "refused"
                         ELSE IF completion = c.id THEN "before" ELSE "changed")
          /\ UNCHANGED setupVars
  /\ UNCHANGED <<panel, mounts, told, toasts>>

\* On its way the call is lost, or, carried out, its answer is.
CallLost(c) ==
  /\ faults < MaxFaults /\ c.answer # "reserved" /\ c.answer # "lost" /\ c.mine
  /\ faults' = faults + 1
  /\ Answered(c, "lost")
  /\ UNCHANGED <<disk, config, runtimes, manager, service, launch, imports, had,
                 panel, mounts, told, toasts>>

\* Another reader of the capability.  Its read runs on a thread of its own, and
\* can fall between the two halves of a start, where the operation it finds is
\* still the one before.
SomeoneReads ==
  /\ reservation # None /\ (reservation = Starting => Threads)
  /\ CapabilityRead /\ Readable /\ Backend

-----------------------------------------------------------------------------
(* The panel.                                                              *)

NowAt(at, o) == panel' = [panel EXCEPT !.at = at, !.op = o]
Sends(kind, id) == calls' = calls \cup {Call(kind, id)}
Takes(kind) == \E c \in Mine(kind) : c.answer \notin {None, "reserved"} /\ calls' = calls \ {c}
AnswerOf(kind) == (CHOOSE c \in Mine(kind) : TRUE).answer
PanelOnly == UNCHANGED <<setupVars, mounts, told, toasts>>
Says(id, what) == told' = IF id = lastId THEN told \cup {what} ELSE told

\* A panel comes up and reads the capability; an install it finds under way or
\* complete it takes over.
Mount ==
  /\ panel.at = "gone" /\ mounts < MaxMounts
  /\ reservation # Starting
  /\ mounts' = mounts + 1
  /\ CapabilityRead
  /\ panel' = [Unmounted EXCEPT !.at = IF Resumable(op) THEN "watching" ELSE "idle",
                                !.op = Seen(op)]
  /\ Readable
  /\ UNCHANGED <<calls, told, toasts>>

\* Unmounting aborts the panel's own waiting, never a call it has made.
Unmount ==
  /\ panel.at # "gone" /\ mounts < MaxMounts
  /\ panel' = Unmounted
  /\ calls' = {[c EXCEPT !.mine = FALSE] : c \in {d \in calls : d.answer \in {None, "reserved"}}}
  /\ PanelOnly

\* A panel with nothing to watch reads the capability again, and takes over what
\* an earlier panel's start has made since.
Refresh ==
  /\ panel.at = "idle" /\ reservation # Starting /\ panel.op # Seen(op)
  /\ CapabilityRead
  /\ NowAt(IF Resumable(op) THEN "watching" ELSE "idle", Seen(op))
  /\ Readable /\ UNCHANGED <<calls, mounts, told, toasts>>

\* The player presses Install or Reinstall.
Press(kind) ==
  /\ panel.at = "idle" /\ ~Resumable(panel.op)
  /\ lastId + Cardinality({c \in calls : c.kind \in {"install", "reinstall"}}) < MaxOps
  /\ Sends(kind, None)
  /\ NowAt("starting", panel.op)
  /\ PanelOnly

StartKind == IF Mine("install") # {} THEN "install" ELSE "reinstall"

\* The start's answer: the operation it made, or, when it was refused or lost,
\* whatever the capability shows.
StartAnswered ==
  /\ panel.at = "starting"
  /\ Takes(StartKind)
  /\ IF AnswerOf(StartKind) = "done" /\ op # None
     THEN NowAt("watching", Seen(op))
     ELSE NowAt("restarting", panel.op)
  /\ PanelOnly

\* A start refused before it made anything leaves the one before in view: that
\* one's end is not this press's.
StartSettles ==
  /\ panel.at = "restarting" /\ reservation # Starting
  /\ CapabilityRead
  /\ IF op # None /\ (Resumable(op) \/ panel.op = None \/ op.id # panel.op.id)
     THEN NowAt("watching", Seen(op))
     ELSE NowAt("idle", Seen(op))
  /\ Readable /\ UNCHANGED <<calls, mounts, told, toasts>>

\* A poll of the operation; one the backend no longer knows is settled.
Polls ==
  /\ panel.at = "watching" /\ Active(panel.op) /\ (reservation = Starting => Threads)
  /\ IF op # None /\ op.id = panel.op.id
     THEN /\ reservation' = Reconciled(op)
          /\ NowAt("watching", Seen(op))
     ELSE /\ NowAt("settling", panel.op)
          /\ UNCHANGED reservation
  /\ Readable /\ UNCHANGED <<calls, mounts, told, toasts>>

\* The player presses Cancel while an install is being watched or settled.
PressCancel ==
  /\ panel.at \in {"watching", "settling"} /\ Active(panel.op) /\ ~panel.stopping
  /\ Sends("cancel", panel.op.id)
  /\ panel' = [panel EXCEPT !.at = "cancelling", !.stopping = TRUE]
  /\ PanelOnly

\* The cancel's answer is the operation's state, or is settled.
CancelAnswered ==
  /\ panel.at = "cancelling"
  /\ Takes("cancel")
  /\ LET answer == AnswerOf("cancel")
     IN IF answer \in {"refused", "lost"}
        THEN NowAt("settling", panel.op)
        ELSE NowAt("watching", [panel.op EXCEPT !.state = answer])
  /\ PanelOnly

\* An install that ended cancelled or failed is said to have, and a newer one
\* the capability shows is watched instead.
EndWatched ==
  /\ panel.at = "watching" /\ panel.op # None /\ ~Resumable(panel.op) /\ reservation # Starting
  /\ Says(panel.op.id, panel.op.state)
  /\ CapabilityRead
  /\ panel' = [panel EXCEPT !.stopping = FALSE, !.op = Seen(op),
                            !.at = IF op # None /\ op.id # panel.op.id THEN "watching" ELSE "idle"]
  /\ Readable /\ UNCHANGED <<calls, mounts, toasts>>

\* One that is complete is completed.
CompleteSent ==
  /\ panel.at = "watching" /\ panel.op # None /\ panel.op.state = "completed"
  /\ Sends("complete", panel.op.id)
  /\ NowAt("completing", panel.op)
  /\ PanelOnly

\* With a receipt the panel says so, announces the install when it was this call
\* that committed it, and looks for a newer one.
Finished(announced) ==
  /\ reservation # Starting
  /\ Says(panel.op.id, "completed")
  /\ toasts' = IF announced /\ panel.op.id = lastId THEN toasts + 1 ELSE toasts
  /\ CapabilityRead
  /\ panel' = [panel EXCEPT !.stopping = FALSE, !.op = Seen(op),
                            !.at = IF op # None /\ op.id # panel.op.id THEN "watching" ELSE "idle"]
  /\ Readable /\ UNCHANGED mounts

CompleteAnswered ==
  /\ panel.at = "completing"
  /\ Takes("complete")
  /\ LET answer == AnswerOf("complete")
     IN IF answer \in {"now", "before"}
        THEN Finished(answer = "now")
        ELSE NowAt("settling", panel.op) /\ PanelOnly

\* What the capability shows settles it: an operation is watched, whichever it
\* is; none at all means that this one was completed or forgotten, and only the
\* backend's answer to its exact id can say which.
Settles ==
  /\ panel.at = "settling" /\ reservation # Starting
  /\ CapabilityRead
  /\ IF op # None
     THEN /\ panel' = [panel EXCEPT !.at = "watching", !.op = Seen(op), !.stopping = FALSE]
          /\ UNCHANGED calls
     ELSE /\ Sends("complete", panel.op.id)
          /\ NowAt("resettling", panel.op)
  /\ Readable /\ UNCHANGED <<mounts, told, toasts>>

\* A receipt settles it; the exact refusal means that the install is not there;
\* anything else is asked again.
Resettled ==
  /\ panel.at = "resettling"
  /\ Takes("complete")
  /\ LET answer == AnswerOf("complete")
     IN CASE answer \in {"now", "before"} -> Finished(answer = "now")
          [] answer = "changed" -> /\ NowAt("watching", [panel.op EXCEPT !.state = "failed"])
                                   /\ PanelOnly
          [] OTHER -> NowAt("settling", panel.op) /\ PanelOnly

-----------------------------------------------------------------------------
\* The frontend is reloaded with the plugin: its panel and its calls are gone.
Reload ==
  /\ RestartStep
  /\ panel' = Unmounted /\ calls' = {}
  /\ UNCHANGED <<mounts, told, toasts>>

CarryOut(c) == CarryOutStart(c) \/ CarryOnStart(c) \/ CarryOutCancel(c) \/ CarryOutComplete(c)

PanelStep ==
  \/ Refresh \/ StartAnswered \/ StartSettles \/ Polls \/ CancelAnswered \/ EndWatched
  \/ CompleteSent \/ CompleteAnswered \/ Settles \/ Resettled

Next ==
  \/ (TaskStep \/ Surroundings) /\ Backend
  \/ \E c \in calls : CarryOut(c) \/ CallLost(c)
  \/ SomeoneReads
  \/ Mount \/ Unmount \/ PanelStep \/ PressCancel
  \/ \E kind \in {"install", "reinstall"} : Press(kind)
  \/ Reload

Spec == Init /\ [][Next]_vars

\* The task and the calls are carried on, the panel's loop goes round, a launch
\* reserved is forked or given up and a Cheat Engine ends, and the player comes
\* back to the panel while it can still be mounted.
FairSpec ==
  /\ Spec
  /\ WF_vars(TaskStep /\ Backend)
  /\ WF_vars(\E c \in calls : CarryOut(c))
  /\ WF_vars(PanelStep)
  /\ WF_vars(Mount)
  /\ WF_vars((LaunchGivenUp \/ CEEnds) /\ Backend)

-----------------------------------------------------------------------------
\* What the panels said of an install is what became of it, however many of them
\* watched it and whatever was lost on the way: one said to be cancelled or to
\* have failed has not become the device's Cheat Engine, one said to be complete
\* has, and it was announced once at most (managedSetup.ts:148-180, DESIGN.md:97).
SaidIsSo ==
  /\ "completed" \in told => adopted
  /\ told \cap {"failed", "cancelled"} # {} => ~adopted
  /\ toasts <= 1

\* An install that has been started does not keep everything else waiting for
\* ever: it is registered, it fails, it is cancelled, or it is forgotten.
SetupEnds == reservation # None ~> reservation = None
==============================================================================
