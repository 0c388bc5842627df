----------------------------- MODULE SessionLog -----------------------------
(***************************************************************************)
(* The two files a running session is controlled through: the control log   *)
(* the backend rewrites (`session_protocol.py`) and the status the bridge   *)
(* publishes (`ce_decky_bridge.lua`).  Neither side sees the other's step:  *)
(* the backend compacts the log by an acknowledgement that may be old, gone *)
(* or, once enough results have followed it, no longer in the status.       *)
(*                                                                         *)
(* The log is a set of commands: its lines are ordered by generation and    *)
(* parsing refuses them otherwise.                                          *)
(***************************************************************************)
EXTENDS Naturals, Sequences, FiniteSets

CONSTANTS Clients,     \* panels and stops: who asks for a generation and writes
          Programs,    \* the programs a session can be pointed at
          Home,        \* the one its descriptor names
          None,        \* a command that names no program: it reads, sets, switches, retries
          Quiesce,     \* the one a stop asks for
          Window,      \* results the status keeps (128 in `result`)
          History,     \* RETAINED_TARGET_HISTORY
          StartupResults, \* results of one startup, all of generation 0
          Batches,     \* what is written at once: programs to retry on, None, Quiesce
          Survives,    \* BOOLEAN: a Cheat Engine may outlive a stop that quiesced it
          MaxCommands  \* bound: commands written in all

ASSUME SessionAssumption ==
    /\ Home \in Programs /\ None \notin Programs /\ Quiesce \notin Programs \cup {None}
    /\ Window \in Nat \ {0} /\ History \in Nat \ {0}
    /\ StartupResults \in Nat /\ MaxCommands \in Nat
    /\ Batches \subseteq Seq(Programs \cup {None, Quiesce})
    /\ Survives \in BOOLEAN

VARIABLES
    control,  \* the commands in the control log
    status,   \* the last status published, or None where there is none to read
    last,     \* bridge: state.last_generation
    results,  \* bridge: state.results, their generations
    target,   \* bridge: state.target_process
    batch,    \* bridge: what it read of the log and has still to execute
    pending,  \* bridge: the generation Cheat Engine has not finished, or 0
    asked,    \* bridge: the generation of a quiesce to be answered, or 0
    stopping, \* bridge: a quiesce was taken up, so nothing changes the game again
    starting, \* bridge: results its startup has still to report
    knows,    \* the next generation each client was told, or 0
    issued,   \* history: what each command accepted says
    ran       \* history: the commands executed, in order

bridge == <<last, results, target, batch, pending, asked, stopping, starting, ran>>
vars == <<control, status, bridge, knows, issued>>

Targets == Programs \cup {None, Quiesce}
Commands == [gen : Nat \ {0}, to : Targets]
Status == [results : Seq(Nat), target : Programs]

TypeOK ==
    /\ control \subseteq Commands
    /\ status # None => status \in Status
    /\ last \in Nat
    /\ results \in Seq(Nat) /\ Len(results) <= Window
    /\ target \in Programs
    /\ batch \subseteq Commands
    /\ pending \in Nat
    /\ asked \in Nat
    /\ stopping \in BOOLEAN
    /\ starting \in Nat
    /\ knows \in [Clients -> Nat]
    /\ issued \in Seq(Targets)
    /\ ran \in Seq(Commands)

Init ==
    /\ control = {} /\ status = None
    /\ last = 0 /\ results = <<>> /\ target = Home
    /\ batch = {} /\ pending = 0 /\ asked = 0 /\ stopping = FALSE /\ starting = StartupResults
    /\ knows = [c \in Clients |-> 0]
    /\ issued = <<>> /\ ran = <<>>

-----------------------------------------------------------------------------
(* What the backend reads.                                                 *)

Highest(cs, least) == IF cs = {} THEN least
                      ELSE LET c == CHOOSE c \in cs : \A d \in cs : d.gen <= c.gen IN
                           IF c.gen > least THEN c.gen ELSE least

\* The greatest generation a status answers; 0 where it answers none.
Ack(s) ==
    IF s = None \/ \A i \in DOMAIN s.results : s.results[i] = 0 THEN 0
    ELSE LET i == CHOOSE i \in DOMAIN s.results :
                    \A j \in DOMAIN s.results : s.results[j] <= s.results[i]
         IN s.results[i]

Latest(cs) == {c \in cs : \A d \in cs : d.to = c.to => d.gen <= c.gen}

\* The target the log authorizes the bridge to report.
Authorized(ack) ==
    LET answered == {c \in control : c.to \in Programs /\ c.gen <= ack} IN
    IF answered = {} THEN Home
    ELSE (CHOOSE c \in answered : \A d \in answered : d.gen <= c.gen).to

\* What reading the status accepts.
Valid(s) == s # None => Ack(s) <= Highest(control, 0) /\ s.target = Authorized(Ack(s))

\* Mutants of Retained: no answered command is kept; only the latest retry is.
RetainedNone(ack) == {}

\* The answered retries a compaction keeps, one for each program.
Retained(ack) ==
    LET kept == Latest({c \in control : c.to \in Programs /\ c.gen <= ack}) IN
    {c \in kept : Cardinality({d \in kept : d.gen > c.gen}) < History}

\* Mutant of Pending: the first command not answered is taken for answered.
PendingLate(ack) == {c \in control : c.gen > ack + 1}

Pending(ack) == {c \in control : c.gen > ack}

NextGeneration == 1 + Highest(control, Ack(status))

-----------------------------------------------------------------------------
(* The backend, under its lock.                                            *)

AskGeneration(c) ==
    /\ Valid(status)
    /\ knows' = [knows EXCEPT ![c] = NextGeneration]
    /\ UNCHANGED <<control, status, bridge, issued>>

\* Mutant of Expected: generations are counted from what has been answered.
ExpectedFromAck == 1 + Ack(status)

\* The only generation a write may start at.
Expected == 1 + Highest(Pending(Ack(status)), Ack(status))

\* The write replaces the log: retained, still pending, new.  While a stop runs
\* only what reads is written (write_runtime_commands); a stop that quiesced its
\* Cheat Engine leaves no session to write to, unless that outlived it.
WriteCommands(c) ==
    /\ knows[c] > 0 /\ knows[c] = Expected
    /\ Valid(status)
    /\ \E tos \in Batches :
         /\ \/ Survives
            \/ \A i \in DOMAIN issued : issued[i] # Quiesce
            \/ \A i \in DOMAIN tos : tos[i] = None
         /\ tos # <<>> /\ Len(issued) + Len(tos) <= MaxCommands
         /\ control' = Retained(Ack(status)) \cup Pending(Ack(status))
                       \cup {[gen |-> Expected + i - 1, to |-> tos[i]] : i \in 1..Len(tos)}
         /\ issued' = issued \o tos
         /\ knows' = [knows EXCEPT ![c] = Expected + Len(tos)]
    /\ UNCHANGED <<status, bridge>>

\* A generation that is not the next one is refused.
RefuseStale(c) ==
    /\ knows[c] > 0 /\ knows[c] # Expected
    /\ Valid(status)
    /\ knows' = [knows EXCEPT ![c] = 0]
    /\ UNCHANGED <<control, status, bridge, issued>>

-----------------------------------------------------------------------------
(* The bridge.                                                             *)

\* One more result; the oldest leaves a full window.
Report(g) ==
    LET all == Append(results, g) IN
    results' = IF Len(all) > Window THEN Tail(all) ELSE all

\* Mutant of Poll: the command next to the last one is taken for executed.
PollLate ==
    /\ batch = {} /\ pending = 0
    /\ batch' = {c \in control : c.gen > last + 1}
    /\ batch' # {}
    /\ UNCHANGED <<control, status, last, results, target, pending, asked, stopping, starting, ran, knows, issued>>

\* The log as it is read at one poll.
Poll ==
    /\ batch = {} /\ pending = 0
    /\ batch' = {c \in control : c.gen > last}
    /\ batch' # {}
    /\ UNCHANGED <<control, status, last, results, target, pending, asked, stopping, starting, ran, knows, issued>>

\* The next command of it.  A retry moves the bridge to the program it names, if
\* it names one, attached or not, and starts the startup over where it attached,
\* but is refused once the session is being stopped; another is answered at once
\* or waited for; a quiesce is refused at once or answered later.
Execute ==
    /\ pending = 0
    /\ \E c \in batch :
         /\ \A d \in batch : c.gen <= d.gen
         /\ last' = c.gen
         /\ ran' = Append(ran, c)
         /\ \/ /\ c.to \in Programs \cup {None} /\ ~stopping
               /\ target' = IF c.to \in Programs THEN c.to ELSE target
               /\ starting' \in {0, StartupResults}
               /\ Report(c.gen) /\ batch' = batch \ {c}
               /\ UNCHANGED <<pending, asked, stopping>>
            \/ /\ c.to \in Programs => stopping
               /\ Report(c.gen) /\ batch' = batch \ {c}
               /\ UNCHANGED <<target, starting, pending, asked, stopping>>
            \/ /\ c.to = None /\ ~stopping
               /\ pending' = c.gen /\ batch' = {}
               /\ UNCHANGED <<target, starting, results, asked, stopping>>
            \/ /\ c.to = Quiesce /\ asked = 0
               /\ asked' = c.gen /\ stopping' = TRUE /\ batch' = batch \ {c}
               /\ UNCHANGED <<target, starting, results, pending>>
    /\ UNCHANGED <<control, status, knows, issued>>

Settle ==
    /\ pending > 0
    /\ Report(pending)
    /\ pending' = 0
    /\ UNCHANGED <<control, status, last, target, batch, asked, stopping, starting, ran, knows, issued>>

AnswerQuiesce ==
    /\ asked > 0
    /\ Report(asked)
    /\ asked' = 0
    /\ UNCHANGED <<control, status, last, target, batch, pending, stopping, starting, ran, knows, issued>>

StartupReports ==
    /\ starting > 0
    /\ Report(0)
    /\ starting' = starting - 1
    /\ UNCHANGED <<control, status, last, target, batch, pending, asked, stopping, ran, knows, issued>>

\* The status is written, or for a moment or for good there is none.
WriteStatus ==
    /\ status' \in {[results |-> results, target |-> target], None}
    /\ UNCHANGED <<control, bridge, knows, issued>>

Bridge == Poll \/ Execute \/ Settle \/ AnswerQuiesce \/ StartupReports \/ WriteStatus
Next == Bridge \/ \E c \in Clients : AskGeneration(c) \/ WriteCommands(c) \/ RefuseStale(c)

Spec == Init /\ [][Next]_vars

\* The bridge's timer runs, and its waits are bounded.
FairSpec == Spec /\ WF_vars(Poll) /\ WF_vars(Execute) /\ WF_vars(Settle)

-----------------------------------------------------------------------------
(* Properties.                                                             *)

\* "Merge new commands without dropping commands the resident bridge may not have
\* consumed yet": whatever the status said of it, a command accepted and not yet
\* executed is in the log, as it was accepted (write_commands).
NothingDropped ==
    \A g \in DOMAIN issued : g > last => [gen |-> g, to |-> issued[g]] \in control

\* The bridge executes what was accepted, once each and in order, whatever panels
\* race each other with old generations (write_commands, executeCommand).
RunsWhatWasIssued ==
    /\ Len(ran) <= Len(issued)
    /\ \A g \in DOMAIN ran : ran[g] = [gen |-> g, to |-> issued[g]]

\* What the bridge publishes of itself is never taken for tampering: the log keeps
\* "the latest acknowledged target-setting command as durable authorization"
\* (read_status_observation).
StatusReadable == Valid(status)

\* A command accepted is executed, however late its acknowledgements are.
EveryCommandRuns == \A g \in 1..MaxCommands : Len(issued) >= g ~> last >= g
=============================================================================
