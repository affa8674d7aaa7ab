----------------------------- MODULE BoardLock -----------------------------
(***************************************************************************)
(* Who may write the board: the file .daemon.lock, the processes that take *)
(* it (daemon --role scheduler | all | legacy-serial), and the commands    *)
(* that only look at it: CLI, MCP and web writes of a card, kanban run and *)
(* tick, daemon stop, doctor --fix.                                        *)
(*                                                                         *)
(* A step is one file-system call.  The board is one card file, known by   *)
(* its revision, and one claim.  A pid is dead, a daemon at some point of  *)
(* cmd_daemon, or an unrelated process that was given a dead daemon's pid. *)
(***************************************************************************)
EXTENDS Naturals, Sequences, FiniteSets

CONSTANTS
    Pids,         \* process ids daemons may have
    Operator,     \* the process of the operator's command
    Nobody,       \* no process
    NoLock,       \* there is no lock file
    Kinds,        \* the commands the operator uses
    MaxWrites     \* a bound for model checking: revisions of the card

AllKinds == {"cli", "web", "mcp", "prune", "run", "stop", "kill", "doctor"}
Control == {"stop", "kill", "doctor"}   \* those that may judge a lock malformed

ASSUME BoardLockAssumption ==
    /\ Nobody \notin Pids /\ Operator \notin Pids
    /\ Kinds \subseteq AllKinds
    /\ MaxWrites \in Nat

LockFile == [pid : Pids, written : BOOLEAN]

ASSUME NoLockAssumption == NoLock \notin LockFile

Starting == {"unlinking", "creating", "created"}
Handling == {"idle", "tick", "leaving", "exiting"}   \* its signal handlers are installed
Holding == {"opening", "idle", "tick", "leaving"}
Phases == Starting \cup Holding \cup {"off", "exiting", "forced", "alien"}

(* What the commands do, in order.  The CLI and the web server load the    *)
(* board before they look at the lock, the MCP server after.               *)
MoveSteps == <<"load", "clear", "check", "claim", "write">>

(* kanban requeue: as move.                                                *)
RequeueSteps == MoveSteps

(* kanban card edit writes the fields, and then the history or the status. *)
EditSteps == <<"load", "clear", "check", "claim", "write", "write">>

(* kanban card context and acceptance; acceptance edit waits for an editor *)
(* between the check and the write.                                        *)
ContextSteps == EditSteps
AcceptanceSteps == EditSteps

(* The routes of the web server; they do not clear a stale lock.           *)
WebSteps == <<"load", "check", "claim", "write">>

(* Mutant: the MCP server loads the board before it looks at the lock.     *)
McpStepsLoadFirst == <<"load", "clear", "check", "claim", "write">>

McpSteps == <<"clear", "check", "claim", "load", "write">>

(* kanban worktree prune does not look at claims.                          *)
PruneSteps == <<"clear", "check", "load", "write">>

(* kanban run and tick, recover --stale, demo, and the MCP tools.          *)
RunSteps == <<"clear", "check", "load", "schedule">>
RecoverSteps == RunSteps
DemoSteps == RunSteps
McpRunSteps == RunSteps

StepsOf ==
    [cli    |-> {MoveSteps, RequeueSteps, EditSteps, ContextSteps, AcceptanceSteps},
     web    |-> {WebSteps},
     mcp    |-> {McpSteps},
     prune  |-> {PruneSteps},
     run    |-> {RunSteps, RecoverSteps, DemoSteps, McpRunSteps},
     stop   |-> {<<"status">>},
     kill   |-> {<<"status">>},
     doctor |-> {<<"diagnose">>}]

StepNames == {"load", "clear", "unlink", "check", "claim", "write", "schedule",
              "status", "exists", "signal", "poll", "diagnose"}

VARIABLES
    lock,      \* the lock file
    proc,      \* proc[p]: where the process with pid p is
    cmd,       \* the operator's command: its kind, the steps left, the pid it found
    rev,       \* revision of the card file
    seen,      \* seen[w]: the revision process w has in memory
    stopping,  \* stopping[p]: is the stop event of daemon p set?
    claimed,   \* does the card have a live claim?
    disturbed, \* history: was a daemon forced out, or did two clean-ups cross?
    later      \* history: the daemons that took the lock after the command looked

vars == <<lock, proc, stopping, cmd, rev, seen, claimed, disturbed, later>>
board == <<rev, seen, claimed>>
history == <<disturbed, later>>

Idle == [kind |-> "none", todo |-> << >>, pid |-> Nobody]

Init ==
    /\ lock = NoLock
    /\ proc = [p \in Pids |-> "off"]
    /\ stopping = [p \in Pids |-> FALSE]
    /\ cmd = Idle
    /\ rev = 0
    /\ seen = [w \in Pids \cup {Operator} |-> 0]
    /\ claimed = FALSE
    /\ disturbed = FALSE
    /\ later = {}

-----------------------------------------------------------------------------
(* read_lock: an absent and an unreadable file look the same.              *)
Recorded == IF lock # NoLock /\ lock.written THEN lock.pid ELSE Nobody

Alive(p) == p # Nobody /\ proc[p] # "off"
Stale == Recorded # Nobody /\ ~Alive(Recorded)

At(step) == cmd # Idle /\ Head(cmd.todo) = step

(* A lock was found stale or malformed and is about to be removed.  Nothing *)
(* keeps another process from judging the same file meanwhile, nor daemon  *)
(* stop and doctor --fix from judging the file of a daemon that has not    *)
(* written its pid yet: disturbed records that one of the two has happened, *)
(* or that a second signal has removed a lock.                             *)
Cleaning == At("unlink") \/ \E p \in Pids : proc[p] = "unlinking"
DisturbedIf(happened) == disturbed' = (disturbed \/ happened)

(* The command has looked at the lock, and writes or schedules from here.  *)
Looked ==
    /\ cmd # Idle /\ cmd.kind \notin Control
    /\ \A i \in 1..Len(cmd.todo) : cmd.todo[i] # "check"

Goto(p, phase) == proc' = [proc EXCEPT ![p] = phase]
Gone(p) == Goto(p, "off") /\ stopping' = [stopping EXCEPT ![p] = FALSE]

-----------------------------------------------------------------------------
(* Mutant: the lock is taken over although its process is alive.           *)
StartOver(p) ==
    /\ proc[p] = "off"
    /\ Goto(p, IF Recorded \in Pids \ {p} THEN "unlinking" ELSE "creating")
    /\ DisturbedIf(cmd.kind \in Control \/ (Stale /\ Cleaning))
    /\ UNCHANGED <<lock, stopping, cmd, board, later>>

(* daemon_lock: clear_stale_lock reads the lock.  A lock that holds the    *)
(* new process's own pid is not stale: its process is alive.               *)
Start(p) ==
    /\ proc[p] = "off"
    /\ Goto(p, IF Stale /\ Recorded # p THEN "unlinking" ELSE "creating")
    /\ DisturbedIf(cmd.kind \in Control \/ (Stale /\ Cleaning))
    /\ UNCHANGED <<lock, stopping, cmd, board, later>>

(* ... removes it, whatever it is by now ...                               *)
ClearStale(p) ==
    /\ proc[p] = "unlinking"
    /\ lock' = NoLock
    /\ Goto(p, "creating")
    /\ UNCHANGED <<stopping, cmd, board, history>>

(* ... and creates the file with O_EXCL, or gives up (exit code 2).        *)
Create(p) ==
    /\ proc[p] = "creating"
    /\ \/ /\ lock = NoLock
          /\ lock' = [pid |-> p, written |-> FALSE]
          /\ Goto(p, "created")
       \/ /\ lock # NoLock
          /\ Goto(p, "off")
          /\ UNCHANGED lock
    /\ UNCHANGED <<stopping, cmd, board, history>>

(* The pid is written to the file that was created, which may have been    *)
(* removed since.                                                          *)
WritePid(p) ==
    /\ proc[p] = "created"
    /\ lock' = IF lock # NoLock /\ lock.pid = p THEN [lock EXCEPT !.written = TRUE] ELSE lock
    /\ Goto(p, "opening")
    /\ later' = IF Looked THEN later \cup {p} ELSE later \ {p}
    /\ UNCHANGED <<stopping, cmd, board, disturbed>>

(* The orchestrator and its store are made, the signal handlers installed. *)
OpenBoard(p) ==
    /\ proc[p] = "opening"
    /\ Goto(p, "idle")
    /\ seen' = [seen EXCEPT ![p] = rev]
    /\ UNCHANGED <<lock, stopping, cmd, rev, claimed, history>>

(* A tick re-reads the board ...                                           *)
BeginTick(p) ==
    /\ proc[p] = "idle" /\ ~stopping[p]
    /\ Goto(p, "tick")
    /\ seen' = [seen EXCEPT ![p] = rev]
    /\ UNCHANGED <<lock, stopping, cmd, rev, claimed, history>>

(* A process writes the card it has in memory, and then has the new one.   *)
WriteCard(w) ==
    /\ rev < MaxWrites
    /\ rev' = rev + 1
    /\ seen' = [seen EXCEPT ![w] = rev + 1]

(* ... writes what it decides, and makes and removes claims ...            *)
Tick(p) ==
    /\ proc[p] \in {"tick", "forced"}
    /\ \/ WriteCard(p) /\ UNCHANGED claimed
       \/ claimed' = ~claimed /\ UNCHANGED <<rev, seen>>
    /\ UNCHANGED <<lock, proc, stopping, cmd, history>>

(* ... and ends, in a combined daemon when the workers' cards end too.     *)
EndTick(p) ==
    /\ proc[p] = "tick"
    /\ Goto(p, "idle")
    /\ UNCHANGED <<lock, stopping, cmd, board, history>>

(* run returns: the stop event is set, the idle limit is reached, or one   *)
(* tick of --once is over; only when no thread is in a tick.               *)
Return(p) ==
    /\ proc[p] = "idle"
    /\ Goto(p, "leaving")
    /\ UNCHANGED <<lock, stopping, cmd, board, history>>

(* The combined daemon at its idle limit sets the stop event itself and    *)
(* joins its threads: a first signal then counts as the second.            *)
StopItself(p) ==
    /\ proc[p] \in {"idle", "tick"} /\ ~stopping[p]
    /\ stopping' = [stopping EXCEPT ![p] = TRUE]
    /\ UNCHANGED <<lock, proc, cmd, board, history>>

(* The context manager of daemon_lock removes the file on the way out.     *)
Release(p) ==
    /\ proc[p] = "leaving"
    /\ lock' = NoLock
    /\ Goto(p, "exiting")
    /\ UNCHANGED <<stopping, cmd, board, history>>

Exit(p) ==
    /\ proc[p] \in {"exiting", "forced"}
    /\ Gone(p)
    /\ UNCHANGED <<lock, cmd, board, history>>

(* SIGINT or SIGTERM.  The first sets the stop event.  The next removes    *)
(* the lock file, whoever's it is by now, and then leaves the process,     *)
(* whose threads work until it has gone.  Without handlers it dies.        *)
Signalled(p) ==
    \/ /\ proc[p] \in Handling /\ ~stopping[p]
       /\ stopping' = [stopping EXCEPT ![p] = TRUE]
       /\ UNCHANGED <<lock, proc, disturbed>>
    \/ /\ proc[p] \in Handling /\ stopping[p]
       /\ Goto(p, "forced")
       /\ lock' = NoLock
       /\ disturbed' = TRUE
       /\ UNCHANGED stopping
    \/ /\ proc[p] \in Starting \cup {"opening", "alien"}
       /\ Goto(p, "off")
       /\ UNCHANGED <<lock, stopping, disturbed>>

Signal(p) ==
    /\ proc[p] # "alien" /\ Signalled(p)
    /\ UNCHANGED <<cmd, board, later>>

(* SIGINT before the handlers are installed: the KeyboardInterrupt leaves  *)
(* through daemon_lock, which removes the file.                            *)
Interrupt(p) ==
    /\ proc[p] = "opening"
    /\ lock' = NoLock
    /\ Gone(p)
    /\ UNCHANGED <<cmd, board, history>>

(* SIGKILL, out of memory, power: the file stays.                          *)
Kill(p) ==
    /\ proc[p] # "off"
    /\ Gone(p)
    /\ UNCHANGED <<lock, cmd, board, history>>

(* The pid of a dead daemon is given to a process that is not a daemon.    *)
Reuse(p) ==
    /\ proc[p] = "off"
    /\ Goto(p, "alien")
    /\ UNCHANGED <<lock, stopping, cmd, board, history>>

-----------------------------------------------------------------------------
(* The operator's command.                                                 *)
Issue(kind) ==
    /\ cmd = Idle
    /\ \E steps \in StepsOf[kind] :
           cmd' = [kind |-> kind, todo |-> steps, pid |-> Nobody]
    /\ DisturbedIf(kind \in Control /\ \E p \in Pids : proc[p] \in Starting)
    /\ UNCHANGED <<lock, proc, stopping, board, later>>

(* The command goes on with steps, then with what was left to do.          *)
Then(steps) ==
    LET todo == steps \o Tail(cmd.todo)
    IN  cmd' = IF todo = << >> THEN Idle ELSE [cmd EXCEPT !.todo = todo]

(* MarkdownBoardStore(board): read every card.                             *)
Load ==
    /\ At("load")
    /\ seen' = [seen EXCEPT ![Operator] = rev]
    /\ Then(<< >>)
    /\ UNCHANGED <<lock, proc, stopping, rev, claimed, history>>

(* clear_stale_lock, first half; it removes the file in a second step.     *)
Clear ==
    /\ At("clear")
    /\ Then(IF Stale THEN <<"unlink">> ELSE << >>)
    /\ DisturbedIf(Stale /\ Cleaning)
    /\ UNCHANGED <<lock, proc, stopping, board, later>>

Unlink ==
    /\ At("unlink")
    /\ lock' = NoLock
    /\ Then(<< >>)
    /\ UNCHANGED <<proc, stopping, board, history>>

(* Mutant: a lock of any process is taken for a lock of no process.        *)
CheckNothing ==
    /\ At("check")
    /\ Then(<< >>)
    /\ later' = {}
    /\ UNCHANGED <<lock, proc, stopping, board, disturbed>>

(* assert_no_daemon, second half, and the web server's guard: refuse while *)
(* the recorded process is alive.                                          *)
Check ==
    /\ At("check")
    /\ \/ Alive(Recorded) /\ cmd' = Idle /\ UNCHANGED later
       \/ ~Alive(Recorded) /\ Then(<< >>) /\ later' = {}
    /\ UNCHANGED <<lock, proc, stopping, board, disturbed>>

(* Mutant: the claim is not looked at.                                     *)
SkipClaim ==
    /\ At("claim")
    /\ Then(<< >>)
    /\ UNCHANGED <<lock, proc, stopping, board, history>>

(* _require_card_writable, guard_card_write: refuse under a live claim.    *)
CheckClaim ==
    /\ At("claim")
    /\ IF claimed THEN cmd' = Idle ELSE Then(<< >>)
    /\ UNCHANGED <<lock, proc, stopping, board, history>>

(* The card is written as it was when the command loaded it, and changed.  *)
Write ==
    /\ At("write")
    /\ WriteCard(Operator)
    /\ Then(<< >>)
    /\ UNCHANGED <<lock, proc, stopping, claimed, history>>

(* The command schedules, commits and recovers in its own process, without *)
(* a lock and without reading the board again.                             *)
Schedule ==
    /\ At("schedule")
    /\ \/ WriteCard(Operator) /\ UNCHANGED <<cmd, claimed>>
       \/ claimed' = ~claimed /\ UNCHANGED <<cmd, rev, seen>>
       \/ /\ Then(<< >>)
          /\ UNCHANGED board
    /\ UNCHANGED <<lock, proc, stopping, history>>

(* Mutant: a lock without a readable pid is taken for one that has it.     *)
StatusUnread ==
    /\ At("status")
    /\ \/ Stale /\ Then(<<"clear">>)
       \/ ~Stale /\ cmd' = [cmd EXCEPT !.todo = <<"signal">>, !.pid = Recorded]
    /\ UNCHANGED <<lock, proc, stopping, board, history>>

(* daemon stop: daemon_status, and what it makes of it.  A pid that is not *)
(* a daemon's is refused.                                                  *)
Status ==
    /\ At("status")
    /\ \/ Recorded = Nobody /\ Then(<<"exists">>)
       \/ Stale /\ Then(<<"clear">>)
       \/ Alive(Recorded) /\ proc[Recorded] = "alien" /\ cmd' = Idle
       \/ /\ Alive(Recorded) /\ proc[Recorded] # "alien"
          /\ cmd' = [cmd EXCEPT !.todo = <<"signal">>, !.pid = Recorded]
    /\ UNCHANGED <<lock, proc, stopping, board, history>>

(* No readable lock, but a file: "malformed", to be removed.               *)
Exists ==
    /\ At("exists")
    /\ Then(IF lock # NoLock THEN <<"unlink">> ELSE << >>)
    /\ UNCHANGED <<lock, proc, stopping, board, history>>

(* os.kill with SIGTERM (stop) or SIGKILL (stop --force).                  *)
SendSignal ==
    /\ At("signal")
    /\ \/ proc[cmd.pid] = "off" /\ Then(<<"clear">>) /\ UNCHANGED <<lock, proc, stopping, disturbed>>
       \/ cmd.kind = "stop" /\ Signalled(cmd.pid) /\ Then(<<"poll">>)
       \/ /\ cmd.kind = "stop" /\ proc[cmd.pid] = "forced"
          /\ Then(<<"poll">>)
          /\ UNCHANGED <<lock, proc, stopping, disturbed>>
       \/ /\ cmd.kind = "kill" /\ proc[cmd.pid] # "off"
          /\ Gone(cmd.pid)
          /\ Then(<<"poll">>)
          /\ UNCHANGED <<lock, disturbed>>
    /\ UNCHANGED <<board, later>>

(* Wait until the file is gone, clear it when its process is, give up      *)
(* after --timeout.                                                        *)
Poll ==
    /\ At("poll")
    /\ Then(IF Stale THEN <<"unlink">> ELSE << >>)
    /\ UNCHANGED <<lock, proc, stopping, board, history>>

(* doctor --fix: a file that is unreadable or names a dead process goes.   *)
Diagnose ==
    /\ At("diagnose")
    /\ Then(IF lock # NoLock /\ ~Alive(Recorded) THEN <<"unlink">> ELSE << >>)
    /\ UNCHANGED <<lock, proc, stopping, board, history>>

-----------------------------------------------------------------------------
Daemon(p) ==
    \/ Start(p) \/ ClearStale(p) \/ Create(p) \/ WritePid(p) \/ OpenBoard(p)
    \/ BeginTick(p) \/ Tick(p) \/ EndTick(p)
    \/ StopItself(p) \/ Return(p) \/ Release(p) \/ Exit(p)

Environment(p) == Signal(p) \/ Interrupt(p) \/ Kill(p) \/ Reuse(p)

Command ==
    \/ \E kind \in Kinds : Issue(kind)
    \/ Load \/ Clear \/ Unlink \/ Check \/ CheckClaim \/ Write \/ Schedule
    \/ Status \/ Exists \/ SendSignal \/ Poll \/ Diagnose

Next == Command \/ \E p \in Pids : Daemon(p) \/ Environment(p)

Spec == Init /\ [][Next]_vars

-----------------------------------------------------------------------------
TypeOK ==
    /\ lock \in LockFile \cup {NoLock}
    /\ proc \in [Pids -> Phases]
    /\ stopping \in [Pids -> BOOLEAN]
    /\ \/ cmd = Idle
       \/ /\ cmd \in [kind : AllKinds, todo : Seq(StepNames), pid : Pids \cup {Nobody}]
          /\ cmd.todo # << >>
          /\ At("signal") => cmd.pid # Nobody
    /\ rev \in 0..MaxWrites
    /\ seen \in [Pids \cup {Operator} -> 0..MaxWrites]
    /\ claimed \in BOOLEAN
    /\ disturbed \in BOOLEAN
    /\ later \subseteq Pids

(* Starts may overlap starts and commands: as long as no daemon was forced *)
(* out and no two clean-ups crossed, the lock on disk is that of every     *)
(* daemon that may work.  No clean-up of a stale or malformed lock (a      *)
(* starting daemon's, a command's, daemon stop's, doctor's) and no         *)
(* daemon's own exit removes the file of another that is at work.          *)
LockHeld ==
    ~disturbed => \A p \in Pids : proc[p] \in Holding => lock = [pid |-> p, written |-> TRUE]

Working == {p \in Pids : proc[p] \in {"idle", "tick"}}

(* The single-writer rule: two daemons never schedule one board, however   *)
(* their starts interleave; and kanban run schedules beside a daemon only  *)
(* if that daemon took the lock after the command had looked at it.        *)
OneScheduler ==
    ~disturbed => /\ Cardinality(Working) <= 1
                  /\ At("schedule") => Working \subseteq later

(* An operator's change of a card goes to a board a daemon works on only   *)
(* if the daemon took the lock between the command's look and its write,   *)
(* and, but for prune, to a claimed card only if such a daemon claimed it. *)
GuardedWrites ==
    [][ At("write") /\ rev' # rev /\ ~disturbed =>
            /\ Working \subseteq later
            /\ claimed => (cmd.kind = "prune" \/ later # {}) ]_vars

(* A daemon overwrites a card with an older version of it only if it took  *)
(* the lock behind a command's look; a command that looks before it loads  *)
(* the board (mcp, prune, run: not the CLI, not the web server), only if   *)
(* some daemon did.                                                        *)
LoadsFirst == {"cli", "web"}
FreshWrites ==
    [][ rev' # rev /\ ~disturbed =>
            /\ \A p \in Pids \ later : seen'[p] # seen[p] => seen[p] = rev
            /\ (seen'[Operator] # seen[Operator] /\ cmd.kind \notin LoadsFirst /\ later = {})
                  => seen[Operator] = rev ]_vars
=============================================================================
