----------------------------- MODULE CardFiles -----------------------------
(***************************************************************************)
(* The Markdown store of cards (store_markdown) and the commands that      *)
(* write it: the shared transitions of operations.py, card add and card    *)
(* edit, and the scheduler's starts, results, reworks and blocks.          *)
(*                                                                         *)
(* A command loads every card into memory and works on that copy.  A card  *)
(* is written to <card>.md.tmp and renamed over <card>.md, then a line is  *)
(* appended to events.log.  Each of these can fail (a full disk), and the  *)
(* process can be killed anywhere.  One command runs at a time (BoardLock).*)
(***************************************************************************)
EXTENDS Naturals, Sequences

CONSTANTS
    Cards,       \* the ids of cards
    DependsOn,   \* DependsOn[c]: Card.depends_on
    NoCard,      \* no such card, or not such file
    Torn,        \* a file that was written in part
    OldCards,    \* the cards that earlier sessions may have left
    MaxOps       \* a bound for model checking: commands

ASSUME CardFilesAssumption ==
    /\ DependsOn \in [Cards -> SUBSET Cards]
    /\ NoCard # Torn
    /\ MaxOps \in Nat

VARIABLES
    disk,      \* disk[c]: the file <card>.md
    tmp,       \* the file <card>.md.tmp of the card being written
    told,      \* told[c]: the column in the last line of events.log about c
    cache,     \* cache[c]: the card in the memory of the command
    cmd,       \* the last command: its kind, card, target, and the card as loaded
    steps,     \* what it has still to do
    at,        \* where it is inside a step
    call,      \* the card being written, with what the memory held before
    todo,      \* the dependents still to be moved to READY
    outcome,   \* what the command has reported, or will if nothing else happens
    ops        \* number of commands so far

files == <<disk, tmp, told>>
control == <<cmd, steps, at, call, todo, outcome, ops>>
vars == <<disk, tmp, told, cache, cmd, steps, at, call, todo, outcome, ops>>

Board == INSTANCE BoardStore WITH cards <- disk

Columns == Board!Columns
Stored == Board!Stored

ASSUME StoredAssumption ==
    /\ OldCards \subseteq Stored
    /\ NoCard \notin Stored /\ Torn \notin Stored

NoCmd == [kind |-> "none"]
NoCall == [op |-> "none"]
Unloaded == [c \in Cards |-> NoCard]

Init ==
    /\ disk \in [Cards -> OldCards \cup {NoCard}]
    /\ tmp = NoCard
    /\ told = [c \in Cards |-> "none"]
    /\ cache = Unloaded
    /\ cmd = NoCmd /\ steps = << >> /\ at = "idle" /\ call = NoCall
    /\ todo = {} /\ outcome = "ok" /\ ops = 0

-----------------------------------------------------------------------------
(* What each kind of command does, in order.                               *)

(* Mutant: the fields and the column in two writes, as before the single-  *)
(* write move_card.                                                        *)
TransitionTwoWrites == <<"why", "move", "pass", "detach">>

TransitionSteps == <<"move", "pass", "detach">>

RequeueSteps == <<"move">>
CreateSteps == <<"add">>
StartSteps == <<"move">>
ResultSteps == <<"outcome", "line", "move", "pass", "detach">>
ReworkSteps == <<"rework", "line", "line", "move">>
SpentSteps == <<"request">> \o ResultSteps     \* the rework budget is used up
FailSteps == <<"why", "move", "detach">>

(* card edit: fields only, --set-status only, and both.                    *)
EditSteps(kind) ==
    CASE kind = "fields" -> <<"fields", "line", "flush">>
      [] kind = "force"  -> <<"forced", "move", "pass", "detach">>
      [] kind = "both"   -> <<"fields", "line", "forced", "move", "pass", "detach">>

Transitions == {"move", "block", "unblock"}
SingleWrite == Transitions \cup {"requeue"}

Kinds == SingleWrite \cup {"create", "fields", "force", "both", "start", "result", "rework", "spent", "fail"}

StepsOf(kind) ==
    CASE kind \in Transitions -> TransitionSteps
      [] kind = "requeue" -> RequeueSteps
      [] kind = "create"  -> CreateSteps
      [] kind = "start"   -> StartSteps
      [] kind = "result"  -> ResultSteps
      [] kind = "rework"  -> ReworkSteps
      [] kind = "spent"   -> SpentSteps
      [] kind = "fail"    -> FailSteps
      [] OTHER            -> EditSteps(kind)

(* The columns a command may be asked for, given the card it finds.  A     *)
(* result is applied again after a kill: its card may be there already.    *)
Targets(kind, r) ==
    CASE kind \in {"move", "unblock"} -> Columns
      [] kind \in {"block", "fail", "spent"} -> {"blocked"}
      [] kind = "requeue"             -> {"inbox", "ready"}
      [] kind = "fields"              -> {r.status}
      [] kind = "force"               -> {"inbox", "ready", "done"}
      [] kind = "both"                -> {"inbox", "ready", "done", "blocked"}
      [] kind = "start"  -> {s \in {"doing"} : r.status = "ready"}
      [] kind = "rework" -> {s \in {"ready"} : r.status \in {"review", "ready"}}
      [] kind = "result" -> {s \in {"ready", "review", "done", "blocked"} :
                                <<r.status, s>> \in (Columns \X {"blocked"}) \cup
                                    {<<"inbox", "ready">>, <<"doing", "review">>,
                                     <<"review", "done">>, <<s, s>>}}
      [] OTHER           -> {"inbox"}

(* move_card on the card in memory.                                        *)
Reason(kind, r) ==
    CASE kind = "block" -> TRUE
      [] kind \in {"unblock", "requeue"} -> FALSE
      [] OTHER -> r.reason

(* Mutant: blocked_at is never cleared.                                    *)
StampKept(r, s) == r.stamped \/ s = "blocked"

Stamp(r, s) == s = "blocked" /\ (r.status = "blocked" => r.stamped)

Moved(kind, r, s) ==
    [status  |-> s,
     stamped |-> Stamp(r, s),
     reason  |-> Reason(kind, r),
     owner   |-> r.owner /\ kind # "requeue"]

(* What update_card writes at each step.                                   *)
Fields(r) ==
    IF cmd.to = "blocked"
    THEN {[r EXCEPT !.reason = b] : b \in IF cmd.kind = "both" THEN {TRUE} ELSE BOOLEAN}
    ELSE {r, [r EXCEPT !.reason = FALSE]}

Forced(r) == [r EXCEPT !.owner = FALSE, !.reason = @ /\ cmd.to = "blocked"]

Outcome(r) ==
    IF cmd.to = "blocked" THEN {[r EXCEPT !.reason = TRUE, !.owner = FALSE]}
                          ELSE {[r EXCEPT !.owner = b] : b \in BOOLEAN}

Updated(step, r) ==
    CASE step = "fields"  -> Fields(r)
      [] step \in {"flush", "request"} -> {r}
      [] step = "forced"  -> {Forced(r)}
      [] step = "outcome" -> Outcome(r)
      [] step = "rework"  -> {[r EXCEPT !.owner = TRUE]}
      [] step = "why"     -> {[r EXCEPT !.reason = TRUE]}
      [] OTHER            -> {}

(* INBOX cards whose last dependency was done, on a board b.               *)
Waiting(b, done) ==
    {c \in Cards :
        /\ b[c] # NoCard /\ b[c].status = "inbox"
        /\ done \in DependsOn[c]
        /\ \A d \in DependsOn[c] : b[d] # NoCard /\ b[d].status = "done"}

-----------------------------------------------------------------------------
(* A command starts: it loads the board and looks its card up.             *)
Begin(kind, c, s) ==
    /\ at = "idle" /\ ops < MaxOps
    /\ (kind = "create") = (disk[c] = NoCard)
    /\ s \in Targets(kind, disk[c])
    /\ kind = "create" => \A d \in DependsOn[c] : disk[d] # NoCard
    /\ cmd' = [kind |-> kind, card |-> c, to |-> s, found |-> disk[c]]
    /\ steps' = StepsOf(kind)
    /\ at' = "step" /\ call' = NoCall /\ todo' = {} /\ outcome' = "ok"
    /\ cache' = disk
    /\ ops' = ops + 1
    /\ UNCHANGED files

(* Mutant: the event is appended before the card is written.               *)
StoreEventFirst(op, c, r) ==
    /\ cache' = [cache EXCEPT ![c] = r]
    /\ call' = [op |-> op, card |-> c, old |-> cache[c]]
    /\ at' = "write"
    /\ told' = [told EXCEPT ![c] = r.status]
    /\ UNCHANGED <<disk, tmp, cmd, outcome, ops>>

(* A store operation changes the card in memory and goes on to write it.   *)
Store(op, c, r) ==
    /\ cache' = [cache EXCEPT ![c] = r]
    /\ call' = [op |-> op, card |-> c, old |-> cache[c]]
    /\ at' = "write"
    /\ UNCHANGED <<files, cmd, outcome, ops>>

InStep(S) == at = "step" /\ todo = {} /\ steps # << >> /\ Head(steps) \in S

Add ==
    /\ InStep({"add"})
    /\ Store("add", cmd.card, [status |-> "inbox", stamped |-> FALSE, reason |-> FALSE, owner |-> FALSE])
    /\ steps' = Tail(steps)
    /\ UNCHANGED todo

Update ==
    /\ InStep({"fields", "flush", "forced", "outcome", "rework", "request", "why"})
    /\ \E r \in Updated(Head(steps), cache[cmd.card]) : Store("update", cmd.card, r)
    /\ steps' = Tail(steps)
    /\ UNCHANGED todo

Move ==
    /\ InStep({"move"})
    /\ Store("move", cmd.card, Moved(cmd.kind, cache[cmd.card], cmd.to))
    /\ steps' = Tail(steps)
    /\ UNCHANGED todo

(* Mutant: the previous column is read after the move.                     *)
FreshAfterMove == cmd.to = "done" /\ cache[cmd.card].status # "done"

(* advance_inbox_dependents, on a first move into DONE only.               *)
Fresh == cmd.to = "done" /\ cmd.found.status # "done"

Pass ==
    /\ InStep({"pass"})
    /\ todo' = IF Fresh THEN Waiting(cache, cmd.card) ELSE {}
    /\ steps' = Tail(steps)
    /\ UNCHANGED <<files, cache, cmd, at, call, outcome, ops>>

Advance(c) ==
    /\ at = "step" /\ c \in todo
    /\ Store("move", c, Moved("ready", cache[c], "ready"))
    /\ UNCHANGED <<steps, todo>>

(* The detach of the worktree does not change the card (Worktree).         *)
Detach ==
    /\ InStep({"detach"})
    /\ steps' = Tail(steps)
    /\ UNCHANGED <<files, cache, cmd, at, call, todo, outcome, ops>>

Line ==
    /\ InStep({"line"})
    /\ steps' = Tail(steps)
    /\ UNCHANGED <<files, cache, cmd, at, call, todo, outcome, ops>>

-----------------------------------------------------------------------------
(* Mutant: update_card opens the card's own file.                          *)
OpenInPlace ==
    /\ at = "write" /\ at' = "fill"
    /\ tmp' = Torn
    /\ disk' = IF call.op = "update" THEN [disk EXCEPT ![call.card] = Torn] ELSE disk
    /\ UNCHANGED <<told, cache, cmd, steps, call, todo, outcome, ops>>

(* _write_card: the temporary file is truncated and filled ...             *)
OpenTmp ==
    /\ at = "write" /\ at' = "fill"
    /\ tmp' = Torn
    /\ UNCHANGED <<disk, told, cache, cmd, steps, call, todo, outcome, ops>>

FillTmp ==
    /\ at = "fill" /\ at' = "rename"
    /\ tmp' = cache[call.card]
    /\ UNCHANGED <<disk, told, cache, cmd, steps, call, todo, outcome, ops>>

(* ... which replaces the card's file.                                     *)
Rename ==
    /\ at = "rename"
    /\ disk' = [disk EXCEPT ![call.card] = tmp]
    /\ tmp' = NoCard
    /\ IF call.op = "update" THEN at' = "step" /\ call' = NoCall
                             ELSE at' = "append" /\ UNCHANGED call
    /\ UNCHANGED <<told, cache, cmd, steps, todo, outcome, ops>>

AppendEvent ==
    /\ at = "append" /\ at' = "step"
    /\ told' = [told EXCEPT ![call.card] = cache[call.card].status]
    /\ todo' = todo \ {call.card}
    /\ call' = NoCall
    /\ UNCHANGED <<disk, tmp, cache, cmd, steps, outcome, ops>>

(* The process ends.  Nobody reads what is left of its temporary file.     *)
Exit(how) ==
    /\ at' = "idle" /\ outcome' = how
    /\ steps' = << >> /\ todo' = {} /\ call' = NoCall
    /\ cache' = Unloaded /\ tmp' = NoCard
    /\ UNCHANGED <<cmd, ops>>

Return ==
    /\ at = "step" /\ steps = << >> /\ todo = {}
    /\ Exit(outcome)
    /\ UNCHANGED <<disk, told>>

Kill ==
    /\ at # "idle"
    /\ Exit("killed")
    /\ UNCHANGED <<disk, told>>

(* An exception ends the command, and a scheduler with it, unless it comes *)
(* from a side effect of a transition: that is abandoned with a warning.   *)
Raise(how, memory) ==
    IF todo # {} /\ cmd.kind \in Transitions
    THEN /\ at' = "step" /\ outcome' = "warned"
         /\ todo' = {} /\ call' = NoCall
         /\ cache' = memory /\ tmp' = NoCard
         /\ UNCHANGED <<cmd, steps, ops>>
    ELSE Exit(how)

(* Mutant: move_card does not roll the card in memory back.                *)
NotRolledBack == cache

(* move_card puts the card in memory back; update_card and add_card do not.*)
RolledBack ==
    IF call.op = "move" THEN [cache EXCEPT ![call.card] = call.old] ELSE cache

(* Opening or filling the temporary file fails, or the rename.             *)
WriteFails ==
    /\ at \in {"write", "fill", "rename"}
    /\ Raise("failed", RolledBack)
    /\ UNCHANGED <<disk, told>>

(* Of the two lines about a dependent the second may be the one that fails.*)
AppendFails ==
    /\ at = "append" \/ InStep({"line"})
    /\ \/ UNCHANGED told
       \/ todo # {} /\ told' = [told EXCEPT ![call.card] = cache[call.card].status]
    /\ Raise("failed late", cache)
    /\ UNCHANGED disk

(* The detach fails, or keeps a worktree it could not commit.              *)
DetachFails ==
    /\ InStep({"detach"})
    /\ cmd.to \in {"done", "blocked"}
    /\ IF cmd.kind \in Transitions
       THEN /\ steps' = Tail(steps) /\ outcome' = "warned"
            /\ UNCHANGED <<tmp, cache, cmd, at, call, todo, ops>>
       ELSE Exit("failed late")
    /\ UNCHANGED <<disk, told>>

Next ==
    \/ \E kind \in Kinds, c \in Cards, s \in Columns : Begin(kind, c, s)
    \/ Add \/ Update \/ Move \/ Pass \/ Detach \/ Line
    \/ \E c \in todo : Advance(c)
    \/ OpenTmp \/ FillTmp \/ Rename \/ AppendEvent
    \/ WriteFails \/ AppendFails \/ DetachFails
    \/ Return \/ Kill

Spec == Init /\ [][Next]_vars

-----------------------------------------------------------------------------
Command == [kind : Kinds, card : Cards, to : Columns, found : Stored \cup {NoCard}]
Call == [op : {"add", "update", "move"}, card : Cards, old : Stored \cup {NoCard}]
StepNames == {"add", "fields", "flush", "forced", "outcome", "rework", "request", "why",
              "move", "pass", "detach", "line"}

(* Shape of every variable; a card on disk has blocked_at just when it is  *)
(* BLOCKED (card_store.py:71).                                             *)
TypeOK ==
    /\ disk \in [Cards -> Stored \cup {NoCard, Torn}]
    /\ tmp \in Stored \cup {NoCard, Torn}
    /\ told \in [Cards -> Columns \cup {"none"}]
    /\ cache \in [Cards -> Stored \cup {NoCard}]
    /\ cmd \in Command \cup {NoCmd}
    /\ steps \in Seq(StepNames)
    /\ at \in {"idle", "step", "write", "fill", "rename", "append"}
    /\ call \in Call \cup {NoCall}
    /\ todo \subseteq Cards
    /\ outcome \in {"ok", "warned", "failed", "failed late", "killed"}
    /\ ops \in Nat

(* Whoever reads the card files, whenever, sees the board of an in-memory  *)
(* store: complete cards that are created once, never lost and never half  *)
(* written, with writes that fail and processes that are killed in them    *)
(* (card_store.py:58, "the atomic tmp-then-rename").                       *)
ImplementsBoard == Board!StoreSpec

(* What a transition was asked to do to the card it found.                 *)
Asked ==
    [status  |-> cmd.to,
     stamped |-> cmd.to = "blocked",
     reason  |-> cmd.kind = "block" \/ (cmd.kind = "move" /\ cmd.found.reason),
     owner   |-> cmd.found.owner /\ cmd.kind # "requeue"]

(* A shared transition is one write: at every moment the card is as it was *)
(* found or as it was asked to be, its reason and owner included, and if   *)
(* the write fails it is as it was found (operations.py:17).               *)
AllOrNothing ==
    cmd # NoCmd /\ cmd.kind \in SingleWrite =>
        /\ disk[cmd.card] \in {cmd.found, Asked}
        /\ at = "idle" /\ outcome = "failed" => disk[cmd.card] = cmd.found

(* A transition that returns has made its change, and one that moved its   *)
(* card to DONE and returns without a warning has left no dependent behind *)
(* (operations.py:20, helpers.py:75).                                      *)
ReportsTruthful ==
    cmd # NoCmd /\ cmd.kind \in SingleWrite /\ at = "idle" =>
        /\ outcome \in {"ok", "warned"} => disk[cmd.card] = Asked
        /\ outcome = "ok" /\ cmd.to = "done" /\ cmd.found.status # "done" =>
                Waiting(disk, cmd.card) = {}

(* A command that goes on after a failed write, as a transition does after *)
(* its side effects, decides on what is in the files (card_store.py:56).   *)
MemoryMatchesFiles == at = "step" => cache = disk

(* A line of events.log about a column is appended only when the card's    *)
(* file is in that column (card_store.py:92).                              *)
EventsFollowFacts ==
    [][\A c \in Cards : told'[c] # told[c] =>
            disk[c] # NoCard /\ disk[c].status = told'[c]]_vars
=============================================================================
