---------------------------- MODULE CardFilesProofs ----------------------------
(***************************************************************************)
(* Theorems about CardFiles, for any cards and dependencies and any number *)
(* of commands, failures and kills.                                        *)
(***************************************************************************)
EXTENDS CardFiles, SequenceTheorems, TLAPS

Writing == {"write", "fill", "rename"}

(* The variables have their types; card files and memory are never torn.   *)
Shape ==
    /\ disk \in [Cards -> Stored \cup {NoCard}]
    /\ tmp \in Stored \cup {NoCard, Torn}
    /\ told \in [Cards -> Columns \cup {"none"}]
    /\ cache \in [Cards -> Stored \cup {NoCard}]
    /\ cmd \in Command \cup {NoCmd}
    /\ at \in {"idle", "step", "append"} \cup Writing
    /\ call \in Call \cup {NoCall}
    /\ todo \subseteq Cards
    /\ outcome \in {"ok", "warned", "failed", "failed late", "killed"}
    /\ ops \in Nat

(* What is left to do are steps of the command, in place of which only     *)
(* card add creates its card.                                              *)
StepsLeft ==
    /\ steps \in Seq(StepNames)
    /\ at # "idle" =>
          /\ cmd \in Command
          /\ IF cmd.kind = "create"
             THEN /\ todo = {}
                  /\ \/ steps = <<"add">> /\ at = "step" /\ disk[cmd.card] = NoCard
                     \/ steps = << >>
             ELSE disk[cmd.card] # NoCard /\ \A i \in 1..Len(steps) : steps[i] # "add"
    /\ at = "idle" => todo = {}

(* The card being written: its new content is in memory, the old one in    *)
(* the call and, until the rename, in the file; all others are as on disk. *)
InCall ==
    at \in Writing \cup {"append"} =>
        /\ call \in Call
        /\ cache[call.card] \in Stored
        /\ \A c \in Cards \ {call.card} : cache[c] = disk[c]
        /\ call.card \in todo => call.op = "move"
        /\ call.op # "move" => todo = {}

BeforeRename ==
    at \in Writing =>
        /\ call.old = disk[call.card]
        /\ call.op = "add" =>
               /\ disk[call.card] = NoCard
               /\ cache[call.card] = [status |-> "inbox", stamped |-> FALSE, reason |-> FALSE, owner |-> FALSE]
        /\ call.op # "add" => disk[call.card] \in Stored
        /\ call.op = "update" => cache[call.card].status = disk[call.card].status
        /\ at = "rename" => tmp = cache[call.card]

AfterRename == at = "append" => cache = disk /\ call.op # "update"

(* Dependents exist.                                                       *)
TodoExists == \A c \in todo : disk[c] # NoCard

FilesInv ==
    /\ Shape /\ StepsLeft /\ InCall /\ BeforeRename /\ AfterRename /\ TodoExists
    /\ MemoryMatchesFiles

-----------------------------------------------------------------------------
LEMMA Constants ==
    /\ NoCard # Torn /\ NoCard \notin Stored /\ Torn \notin Stored
    /\ OldCards \subseteq Stored /\ MaxOps \in Nat
  BY CardFilesAssumption, StoredAssumption DEF CardFilesAssumption, StoredAssumption

LEMMA StoredCards ==
    Stored = {r \in [status : Columns, stamped : BOOLEAN, reason : BOOLEAN, owner : BOOLEAN] :
                  r.stamped = (r.status = "blocked")}
  BY DEF Stored, Columns, Board!Stored, Board!Card, Board!Columns

LEMMA ColumnNames == Columns = {"inbox", "ready", "doing", "review", "done", "blocked"}
  BY DEF Columns, Board!Columns

(* What the store writes is a card: add_card ...                           *)
LEMMA AddedIsStored ==
    [status |-> "inbox", stamped |-> FALSE, reason |-> FALSE, owner |-> FALSE] \in Stored
  BY StoredCards, ColumnNames

(* ... move_card ...                                                       *)
LEMMA MovedIsStored ==
    ASSUME NEW kind, NEW r \in Stored, NEW s \in Columns
    PROVE  Moved(kind, r, s) \in Stored /\ Moved(kind, r, s).status = s
  <1>1. /\ r.status \in Columns /\ r.stamped = (r.status = "blocked")
        /\ r.reason \in BOOLEAN /\ r.owner \in BOOLEAN
    BY StoredCards
  <1>2. Reason(kind, r) \in BOOLEAN
    BY <1>1 DEF Reason
  <1>3. Stamp(r, s) = (s = "blocked")
    BY <1>1 DEF Stamp
  <1>. QED
    BY <1>1, <1>2, <1>3, StoredCards DEF Moved

(* ... and update_card, which keeps the column.                            *)
LEMMA UpdatedIsStored ==
    ASSUME NEW step, NEW r \in Stored, NEW u \in Updated(step, r)
    PROVE  u \in Stored /\ u.status = r.status
  <1>1. /\ r \in [status : Columns, stamped : BOOLEAN, reason : BOOLEAN, owner : BOOLEAN]
        /\ r.stamped = (r.status = "blocked")
    BY StoredCards
  <1>2. \/ u = r
        \/ \E b \in BOOLEAN : u = [r EXCEPT !.reason = b]
        \/ \E b \in BOOLEAN : u = [r EXCEPT !.owner = b]
        \/ \E b, o \in BOOLEAN : u = [r EXCEPT !.reason = b, !.owner = o]
    <2>1. CASE step = "fields"
      BY <2>1 DEF Updated, Fields
    <2>2. CASE step \in {"flush", "request"}
      BY <2>2 DEF Updated
    <2>3. CASE step = "forced"
      <3>1. u = [r EXCEPT !.owner = FALSE, !.reason = r.reason /\ cmd.to = "blocked"]
        BY <2>3 DEF Updated, Forced
      <3>2. u = [r EXCEPT !.reason = r.reason /\ cmd.to = "blocked", !.owner = FALSE]
        BY <1>1, <3>1
      <3>. QED
        BY <1>1, <3>2
    <2>4. CASE step = "outcome"
      BY <2>4 DEF Updated, Outcome
    <2>5. CASE step \in {"rework", "why"}
      BY <2>5 DEF Updated
    <2>. QED
      BY <2>1, <2>2, <2>3, <2>4, <2>5 DEF Updated
  <1>. QED
    BY <1>1, <1>2, StoredCards

(* The steps of commands, among which only card add has an "add".          *)
StepLists ==
    {<<"move", "pass", "detach">>,
     <<"move">>,
     <<"outcome", "line", "move", "pass", "detach">>,
     <<"rework", "line", "line", "move">>,
     <<"why", "move", "detach">>,
     <<"fields", "line", "flush">>,
     <<"forced", "move", "pass", "detach">>,
     <<"fields", "line", "forced", "move", "pass", "detach">>}

LEMMA ListedSteps ==
    ASSUME NEW s \in StepLists
    PROVE  s \in Seq(StepNames) /\ \A i \in 1..Len(s) : s[i] # "add"
  <1>1. CASE s = <<"move", "pass", "detach">>
    BY <1>1 DEF StepNames
  <1>2. CASE s = <<"move">>
    BY <1>2 DEF StepNames
  <1>3. CASE s = <<"outcome", "line", "move", "pass", "detach">>
    BY <1>3 DEF StepNames
  <1>4. CASE s = <<"rework", "line", "line", "move">>
    BY <1>4 DEF StepNames
  <1>5. CASE s = <<"why", "move", "detach">>
    BY <1>5 DEF StepNames
  <1>6. CASE s = <<"fields", "line", "flush">>
    BY <1>6 DEF StepNames
  <1>7. CASE s = <<"forced", "move", "pass", "detach">>
    BY <1>7 DEF StepNames
  <1>8. CASE s = <<"fields", "line", "forced", "move", "pass", "detach">>
    BY <1>8 DEF StepNames
  <1>. QED
    BY <1>1, <1>2, <1>3, <1>4, <1>5, <1>6, <1>7, <1>8 DEF StepLists

LEMMA SpentStepsListed ==
    SpentSteps \in Seq(StepNames) /\ \A i \in 1..Len(SpentSteps) : SpentSteps[i] # "add"
  <1>. DEFINE first == <<"request">>
  <1>1. first \in Seq(StepNames) /\ Len(first) = 1 /\ first[1] = "request"
    BY DEF StepNames
  <1>2. ResultSteps \in Seq(StepNames) /\ \A i \in 1..Len(ResultSteps) : ResultSteps[i] # "add"
    BY ListedSteps DEF ResultSteps, StepLists
  <1>3. SpentSteps = first \o ResultSteps
    BY DEF SpentSteps
  <1>. HIDE DEF first
  <1>4. /\ SpentSteps \in Seq(StepNames) /\ Len(SpentSteps) = 1 + Len(ResultSteps)
        /\ \A i \in 1..Len(SpentSteps) :
               SpentSteps[i] = IF i <= 1 THEN first[i] ELSE ResultSteps[i - 1]
    <2>1. /\ first \o ResultSteps \in Seq(StepNames)
          /\ Len(first \o ResultSteps) = Len(first) + Len(ResultSteps)
          /\ \A i \in 1..Len(first) + Len(ResultSteps) : (first \o ResultSteps)[i] =
                 IF i <= Len(first) THEN first[i] ELSE ResultSteps[i - Len(first)]
      BY <1>1, <1>2, ConcatProperties, Zenon
    <2>. QED
      BY <1>1, <1>3, <2>1
  <1>5. ASSUME NEW i \in 1..Len(SpentSteps)
        PROVE  SpentSteps[i] # "add"
    <2>1. Len(ResultSteps) \in Nat
      BY <1>2
    <2>2. CASE i <= 1
      BY <1>1, <1>4, <2>1, <2>2
    <2>3. CASE ~(i <= 1)
      <3>1. i - 1 \in 1..Len(ResultSteps)
        BY <1>4, <2>1, <2>3
      <3>. QED
        BY <1>2, <1>4, <2>3, <3>1
    <2>. QED
      BY <2>2, <2>3
  <1>. QED
    BY <1>4, <1>5

LEMMA StepsOfKind ==
    ASSUME NEW kind \in Kinds
    PROVE  /\ StepsOf(kind) \in Seq(StepNames)
           /\ kind = "create" => StepsOf(kind) = <<"add">>
           /\ kind # "create" => \A i \in 1..Len(StepsOf(kind)) : StepsOf(kind)[i] # "add"
  <1>1. CASE kind = "create"
    <2>1. StepsOf(kind) = <<"add">>
      BY <1>1 DEF StepsOf, CreateSteps, Transitions
    <2>2. <<"add">> \in Seq(StepNames)
      BY DEF StepNames
    <2>. QED
      BY <1>1, <2>1, <2>2
  <1>2. CASE kind # "create"
    <2>1. kind = "spent" => StepsOf(kind) = SpentSteps
      BY DEF StepsOf, Transitions
    <2>2. kind # "spent" => StepsOf(kind) \in StepLists
      BY <1>2 DEF Kinds, SingleWrite, Transitions, StepsOf, TransitionSteps, RequeueSteps,
         StartSteps, ResultSteps, ReworkSteps, FailSteps, EditSteps, StepLists
    <2>. QED
      BY <1>2, <2>1, <2>2, ListedSteps, SpentStepsListed
  <1>. QED
    BY <1>1, <1>2

LEMMA StepTail ==
    ASSUME NEW s \in Seq(StepNames), s # << >>
    PROVE  /\ Tail(s) \in Seq(StepNames) /\ Head(s) \in StepNames
           /\ (\A i \in 1..Len(s) : s[i] # "add") =>
                   Head(s) # "add" /\ \A i \in 1..Len(Tail(s)) : Tail(s)[i] # "add"
  OBVIOUS

-----------------------------------------------------------------------------
LEMMA InitHolds == Init => FilesInv
  <1>. SUFFICES ASSUME Init PROVE FilesInv
    OBVIOUS
  <1>1. Shape
    BY Constants DEF Init, Shape, Writing, Unloaded
  <1>2. << >> \in Seq(StepNames)
    BY EmptySeq
  <1>. QED
    BY <1>1, <1>2 DEF Init, FilesInv, StepsLeft, InCall, BeforeRename, AfterRename, TodoExists,
       MemoryMatchesFiles, Writing

(* The end of a command ...                                                *)
LEMMA ExitKeeps ==
    ASSUME FilesInv, NEW how \in {"ok", "warned", "failed", "failed late", "killed"},
           Exit(how), disk' = disk, told' \in [Cards -> Columns \cup {"none"}]
    PROVE  FilesInv'
  <1>1. Shape'
    BY Constants DEF FilesInv, Shape, Exit, Unloaded, Writing
  <1>2. << >> \in Seq(StepNames)
    BY EmptySeq
  <1>. QED
    BY <1>1, <1>2 DEF FilesInv, Exit, StepsLeft, InCall, BeforeRename, AfterRename, TodoExists,
       MemoryMatchesFiles, Writing

(* ... and a failure, after which only a memory like the files is kept.    *)
LEMMA RaiseKeeps ==
    ASSUME FilesInv, at # "idle", NEW how \in {"failed", "failed late"}, NEW memory,
           Raise(how, memory), todo # {} => memory = disk,
           disk' = disk, told' \in [Cards -> Columns \cup {"none"}]
    PROVE  FilesInv'
  <1>1. CASE todo # {} /\ cmd.kind \in Transitions
    <2>1. /\ at' = "step" /\ outcome' = "warned" /\ todo' = {} /\ call' = NoCall
          /\ cache' = disk /\ tmp' = NoCard /\ UNCHANGED <<cmd, steps, ops>>
      BY <1>1 DEF Raise
    <2>2. Shape'
      BY <2>1 DEF FilesInv, Shape, Writing
    <2>3. StepsLeft'
      BY <1>1, <2>1 DEF FilesInv, StepsLeft
    <2>. QED
      BY <2>1, <2>2, <2>3 DEF FilesInv, InCall, BeforeRename, AfterRename, TodoExists,
         MemoryMatchesFiles, Writing
  <1>2. CASE ~(todo # {} /\ cmd.kind \in Transitions)
    BY <1>2, ExitKeeps DEF Raise
  <1>. QED
    BY <1>1, <1>2

(* A step of the command is taken from the list.                           *)
LEMMA StepTaken ==
    ASSUME FilesInv, NEW S, InStep(S), steps' = Tail(steps), cmd' = cmd, disk' = disk,
           at' # "idle", todo' = {} \/ Head(steps) # "add"
    PROVE  /\ StepsLeft' /\ cmd \in Command
           /\ cmd.kind = "create" => Head(steps) = "add" /\ disk[cmd.card] = NoCard
           /\ cmd.kind # "create" => Head(steps) # "add" /\ disk[cmd.card] # NoCard
  <1>1. at = "step" /\ steps # << >> /\ StepsLeft
    BY DEF InStep, FilesInv
  <1>2. Tail(steps) \in Seq(StepNames)
    BY <1>1, StepTail DEF StepsLeft
  <1>3. CASE cmd.kind = "create"
    <2>1. steps = <<"add">> /\ disk[cmd.card] = NoCard
      BY <1>1, <1>3 DEF StepsLeft
    <2>2. Tail(steps) = << >> /\ Head(steps) = "add"
      BY <2>1
    <2>. QED
      BY <1>1, <1>2, <1>3, <2>1, <2>2 DEF StepsLeft
  <1>4. CASE cmd.kind # "create"
    <2>1. \A i \in 1..Len(steps) : steps[i] # "add"
      BY <1>1, <1>4 DEF StepsLeft
    <2>2. Head(steps) # "add" /\ \A i \in 1..Len(Tail(steps)) : Tail(steps)[i] # "add"
      BY <1>1, <2>1, StepTail DEF StepsLeft
    <2>. QED
      BY <1>1, <1>2, <1>4, <2>2 DEF StepsLeft
  <1>. QED
    BY <1>3, <1>4

(* A store operation has changed the card in memory.                       *)
LEMMA StoreKeeps ==
    ASSUME FilesInv, at = "step", NEW op \in {"add", "update", "move"},
           NEW c \in Cards, NEW r \in Stored, Store(op, c, r), StepsLeft', todo' = todo,
           op = "add" =>
               /\ disk[c] = NoCard
               /\ r = [status |-> "inbox", stamped |-> FALSE, reason |-> FALSE, owner |-> FALSE],
           op # "add" => disk[c] \in Stored,
           op = "update" => r.status = disk[c].status,
           op # "move" => todo = {}
    PROVE  FilesInv'
  <1>1. /\ cache = disk /\ cache' = [cache EXCEPT ![c] = r]
        /\ call' = [op |-> op, card |-> c, old |-> cache[c]] /\ at' = "write"
        /\ UNCHANGED <<disk, tmp, told, cmd, outcome, ops>>
    BY DEF FilesInv, MemoryMatchesFiles, Store, files
  <1>2. call' \in Call
    BY <1>1 DEF FilesInv, Shape, Call
  <1>3. cache' \in [Cards -> Stored \cup {NoCard}] /\ cache'[c] = r
    BY <1>1 DEF FilesInv, Shape
  <1>4. Shape'
    BY <1>1, <1>2, <1>3 DEF FilesInv, Shape, Writing
  <1>5. InCall'
    BY <1>1, <1>2, <1>3 DEF FilesInv, Shape, InCall
  <1>6. BeforeRename'
    BY <1>1, <1>3 DEF BeforeRename
  <1>7. AfterRename' /\ TodoExists' /\ MemoryMatchesFiles'
    BY <1>1 DEF FilesInv, AfterRename, TodoExists, MemoryMatchesFiles
  <1>. QED
    BY <1>4, <1>5, <1>6, <1>7 DEF FilesInv

LEMMA BeginKeeps ==
    ASSUME FilesInv, NEW kind \in Kinds, NEW c \in Cards, NEW s \in Columns, Begin(kind, c, s)
    PROVE  FilesInv'
  <1>1. /\ (kind = "create") = (disk[c] = NoCard)
        /\ cmd' = [kind |-> kind, card |-> c, to |-> s, found |-> disk[c]]
        /\ steps' = StepsOf(kind)
        /\ at' = "step" /\ call' = NoCall /\ todo' = {} /\ outcome' = "ok"
        /\ cache' = disk /\ ops' = ops + 1
        /\ UNCHANGED <<disk, tmp, told>>
    BY DEF Begin, files
  <1>2. cmd' \in Command
    BY <1>1 DEF FilesInv, Shape, Command
  <1>3. Shape'
    <2>1. ops' \in Nat
      <3>1. ops \in Nat
        BY DEF FilesInv, Shape
      <3>2. ops' = ops + 1
        BY DEF Begin
      <3>. QED
        BY <3>1, <3>2
    <2>2. cache' \in [Cards -> Stored \cup {NoCard}] /\ disk' = disk
      BY <1>1 DEF FilesInv, Shape
    <2>. QED
      BY <1>1, <1>2, <2>1, <2>2 DEF FilesInv, Shape
  <1>4. StepsLeft'
    BY <1>1, <1>2, StepsOfKind DEF StepsLeft
  <1>. QED
    BY <1>1, <1>3, <1>4 DEF FilesInv, InCall, BeforeRename, AfterRename, TodoExists,
       MemoryMatchesFiles, Writing

LEMMA StoreOperationsKeep ==
    ASSUME FilesInv, Add \/ Update \/ Move \/ \E c \in todo : Advance(c)
    PROVE  FilesInv'
  <1>. DEFINE new == [status |-> "inbox", stamped |-> FALSE, reason |-> FALSE, owner |-> FALSE]
  <1>0. cache = disk \/ at # "step"
    BY DEF FilesInv, MemoryMatchesFiles
  <1>1. CASE Add
    <2>1. /\ InStep({"add"}) /\ Store("add", cmd.card, new)
          /\ steps' = Tail(steps) /\ UNCHANGED todo
      BY <1>1 DEF Add
    <2>2. /\ at = "step" /\ todo = {} /\ Head(steps) = "add" /\ at' = "write"
          /\ cmd' = cmd /\ disk' = disk
      BY <2>1 DEF InStep, Store, files
    <2>3. StepsLeft' /\ cmd.card \in Cards /\ disk[cmd.card] = NoCard
      BY <2>1, <2>2, StepTaken DEF Command
    <2>. QED
      BY <2>1, <2>2, <2>3, AddedIsStored, StoreKeeps
  <1>2. CASE Update
    <2>. DEFINE S == {"fields", "flush", "forced", "outcome", "rework", "request", "why"}
    <2>1. PICK r \in Updated(Head(steps), cache[cmd.card]) : Store("update", cmd.card, r)
      BY <1>2 DEF Update
    <2>2. InStep(S) /\ steps' = Tail(steps) /\ UNCHANGED todo
      BY <1>2 DEF Update
    <2>3. /\ at = "step" /\ todo = {} /\ Head(steps) # "add" /\ at' = "write"
          /\ cmd' = cmd /\ disk' = disk
      BY <2>1, <2>2 DEF InStep, Store, files
    <2>4. StepsLeft' /\ cmd.card \in Cards /\ disk[cmd.card] # NoCard
      BY <2>2, <2>3, StepTaken DEF Command
    <2>5. disk[cmd.card] \in Stored
      BY <2>4 DEF FilesInv, Shape
    <2>6. r \in Stored /\ r.status = disk[cmd.card].status
      BY <1>0, <2>1, <2>3, <2>5, UpdatedIsStored
    <2>. QED
      BY <2>1, <2>2, <2>3, <2>4, <2>5, <2>6, StoreKeeps
  <1>3. CASE Move
    <2>1. /\ InStep({"move"}) /\ Store("move", cmd.card, Moved(cmd.kind, cache[cmd.card], cmd.to))
          /\ steps' = Tail(steps) /\ UNCHANGED todo
      BY <1>3 DEF Move
    <2>2. /\ at = "step" /\ todo = {} /\ Head(steps) # "add" /\ at' = "write"
          /\ cmd' = cmd /\ disk' = disk
      BY <2>1 DEF InStep, Store, files
    <2>3. StepsLeft' /\ cmd.card \in Cards /\ cmd.to \in Columns /\ disk[cmd.card] # NoCard
      BY <2>1, <2>2, StepTaken DEF Command
    <2>4. disk[cmd.card] \in Stored
      BY <2>3 DEF FilesInv, Shape
    <2>5. Moved(cmd.kind, cache[cmd.card], cmd.to) \in Stored
      BY <1>0, <2>2, <2>3, <2>4, MovedIsStored
    <2>. QED
      BY <2>1, <2>2, <2>3, <2>4, <2>5, StoreKeeps
  <1>4. CASE \E c \in todo : Advance(c)
    <2>1. PICK c \in todo : Advance(c)
      BY <1>4
    <2>2. /\ at = "step" /\ Store("move", c, Moved("ready", cache[c], "ready"))
          /\ UNCHANGED <<steps, todo>>
      BY <2>1 DEF Advance
    <2>3. c \in Cards /\ disk[c] \in Stored
      BY <2>1 DEF FilesInv, Shape, TodoExists
    <2>4. Moved("ready", cache[c], "ready") \in Stored
      BY <1>0, <2>2, <2>3, MovedIsStored, ColumnNames
    <2>5. at' = "write" /\ cmd' = cmd /\ disk' = disk
      BY <2>2 DEF Store, files
    <2>6. StepsLeft'
      BY <2>1, <2>2, <2>5 DEF FilesInv, StepsLeft
    <2>. QED
      BY <2>2, <2>3, <2>4, <2>6, StoreKeeps
  <1>. QED
    BY <1>1, <1>2, <1>3, <1>4

(* Steps that write no card: they may choose the dependents to move.       *)
LEMMA OtherStepsKeep ==
    ASSUME FilesInv, Pass \/ Detach \/ Line
    PROVE  FilesInv'
  <1>1. /\ InStep({"pass", "detach", "line"}) /\ steps' = Tail(steps)
        /\ UNCHANGED <<disk, tmp, told, cache, cmd, at, call, outcome, ops>>
        /\ todo' \in {todo, {}, Waiting(cache, cmd.card)}
    BY DEF Pass, Detach, Line, InStep, files
  <1>2. at = "step" /\ todo = {} /\ Head(steps) # "add" /\ at' = at /\ cache = disk
    BY <1>1 DEF InStep, FilesInv, MemoryMatchesFiles
  <1>3. todo' \subseteq Cards /\ \A c \in todo' : disk[c] # NoCard
    BY <1>1, <1>2 DEF Waiting
  <1>4. Shape'
    BY <1>1, <1>3 DEF FilesInv, Shape
  <1>5. StepsLeft'
    BY <1>1, <1>2, StepTaken
  <1>. QED
    BY <1>1, <1>2, <1>3, <1>4, <1>5 DEF FilesInv, InCall, BeforeRename, AfterRename, TodoExists,
       MemoryMatchesFiles, Writing

(* The temporary file is written ...                                       *)
LEMMA TemporaryKeeps ==
    ASSUME FilesInv, OpenTmp \/ FillTmp
    PROVE  FilesInv'
  <1>1. /\ at \in {"write", "fill"} /\ at' \in {"fill", "rename"}
        /\ tmp' \in {Torn, cache[call.card]}
        /\ at' = "rename" => tmp' = cache[call.card]
        /\ UNCHANGED <<disk, told, cache, cmd, steps, call, todo, outcome, ops>>
    BY DEF OpenTmp, FillTmp
  <1>2. at \in Writing /\ at' \in Writing
    BY <1>1 DEF Writing
  <1>3. call \in Call /\ cache[call.card] \in Stored
    BY <1>2 DEF FilesInv, InCall
  <1>4. Shape'
    BY <1>1, <1>2, <1>3 DEF FilesInv, Shape
  <1>5. StepsLeft'
    BY <1>1 DEF FilesInv, StepsLeft
  <1>6. InCall' /\ BeforeRename'
    BY <1>1, <1>2 DEF FilesInv, InCall, BeforeRename
  <1>. QED
    BY <1>1, <1>4, <1>5, <1>6 DEF FilesInv, AfterRename, TodoExists, MemoryMatchesFiles

(* ... and renamed: the card's file is what the memory holds.              *)
LEMMA RenameKeeps ==
    ASSUME FilesInv, Rename
    PROVE  FilesInv' /\ disk' = cache /\ call \in Call
  <1>1. /\ at = "rename" /\ disk' = [disk EXCEPT ![call.card] = tmp] /\ tmp' = NoCard
        /\ UNCHANGED <<told, cache, cmd, steps, todo, outcome, ops>>
        /\ IF call.op = "update" THEN at' = "step" /\ call' = NoCall
                                 ELSE at' = "append" /\ call' = call
    BY DEF Rename
  <1>2. /\ call \in Call /\ tmp = cache[call.card] /\ cache[call.card] \in Stored
        /\ \A c \in Cards \ {call.card} : cache[c] = disk[c]
        /\ call.card \in todo => call.op = "move"
        /\ call.op # "move" => todo = {}
    BY <1>1 DEF FilesInv, InCall, BeforeRename, Writing
  <1>3. disk' = cache
    BY <1>1, <1>2 DEF FilesInv, Shape, Call
  <1>4. \A c \in Cards : disk[c] # NoCard => disk'[c] # NoCard
    BY <1>1, <1>2, Constants DEF FilesInv, Shape, Call
  <1>5. Shape'
    BY <1>1, <1>2, <1>3 DEF FilesInv, Shape
  <1>6. StepsLeft'
    BY <1>1, <1>4 DEF FilesInv, StepsLeft, Command
  <1>7. InCall'
    BY <1>1, <1>2, <1>3 DEF InCall, Writing
  <1>8. TodoExists'
    BY <1>1, <1>4 DEF FilesInv, Shape, TodoExists
  <1>. QED
    BY <1>1, <1>2, <1>3, <1>5, <1>6, <1>7, <1>8 DEF FilesInv, BeforeRename, AfterRename,
       MemoryMatchesFiles, Writing

LEMMA AppendKeeps ==
    ASSUME FilesInv, AppendEvent
    PROVE  FilesInv'
  <1>1. /\ at = "append" /\ at' = "step"
        /\ told' = [told EXCEPT ![call.card] = cache[call.card].status]
        /\ todo' = todo \ {call.card} /\ call' = NoCall
        /\ UNCHANGED <<disk, tmp, cache, cmd, steps, outcome, ops>>
    BY DEF AppendEvent
  <1>2. cache = disk /\ call \in Call /\ cache[call.card] \in Stored
    BY <1>1 DEF FilesInv, InCall, AfterRename
  <1>3. cache[call.card].status \in Columns
    BY <1>2, StoredCards
  <1>4. Shape'
    BY <1>1, <1>2, <1>3 DEF FilesInv, Shape, Call
  <1>5. StepsLeft'
    BY <1>1 DEF FilesInv, StepsLeft
  <1>. QED
    BY <1>1, <1>2, <1>4, <1>5 DEF FilesInv, InCall, BeforeRename, AfterRename, TodoExists,
       MemoryMatchesFiles, Writing

LEMMA FailuresKeep ==
    ASSUME FilesInv, WriteFails \/ AppendFails \/ DetachFails
    PROVE  FilesInv'
  <1>0. told \in [Cards -> Columns \cup {"none"}]
    BY DEF FilesInv, Shape
  <1>1. CASE WriteFails
    <2>1. at \in Writing /\ Raise("failed", RolledBack) /\ UNCHANGED <<disk, told>>
      BY <1>1 DEF WriteFails, Writing
    <2>2. todo # {} => RolledBack = disk
      <3>1. SUFFICES ASSUME todo # {} PROVE RolledBack = disk
        OBVIOUS
      <3>2. call \in Call /\ call.op = "move" /\ call.old = disk[call.card]
            /\ \A c \in Cards \ {call.card} : cache[c] = disk[c]
        BY <2>1, <3>1 DEF FilesInv, InCall, BeforeRename
      <3>. QED
        BY <3>2 DEF RolledBack, FilesInv, Shape, Call
    <2>. QED
      BY <1>0, <2>1, <2>2, RaiseKeeps DEF Writing
  <1>2. CASE AppendFails
    <2>1. /\ at = "append" \/ InStep({"line"})
          /\ \/ UNCHANGED told
             \/ todo # {} /\ told' = [told EXCEPT ![call.card] = cache[call.card].status]
          /\ Raise("failed late", cache) /\ UNCHANGED disk
      BY <1>2 DEF AppendFails
    <2>2. at # "idle"
      BY <2>1 DEF InStep
    <2>3. cache = disk
      BY <2>1 DEF InStep, FilesInv, AfterRename, MemoryMatchesFiles
    <2>4. told' \in [Cards -> Columns \cup {"none"}]
      <3>1. CASE UNCHANGED told
        BY <1>0, <3>1
      <3>2. CASE todo # {} /\ told' = [told EXCEPT ![call.card] = cache[call.card].status]
        <4>1. cache[call.card] \in Stored /\ call \in Call
          BY <2>1, <3>2 DEF InStep, FilesInv, InCall
        <4>. QED
          BY <1>0, <3>2, <4>1, StoredCards DEF Call
      <3>. QED
        BY <2>1, <3>1, <3>2
    <2>. QED
      BY <2>1, <2>2, <2>3, <2>4, RaiseKeeps
  <1>3. CASE DetachFails
    <2>1. InStep({"detach"}) /\ UNCHANGED <<disk, told>>
      BY <1>3 DEF DetachFails
    <2>2. CASE cmd.kind \in Transitions
      <3>1. /\ steps' = Tail(steps) /\ outcome' = "warned"
            /\ UNCHANGED <<tmp, cache, cmd, at, call, todo, ops>>
        BY <1>3, <2>2 DEF DetachFails
      <3>2. at = "step" /\ todo = {} /\ Head(steps) # "add" /\ cache = disk
        BY <2>1 DEF InStep, FilesInv, MemoryMatchesFiles
      <3>3. Shape'
        BY <2>1, <3>1 DEF FilesInv, Shape
      <3>4. StepsLeft'
        BY <2>1, <3>1, <3>2, StepTaken
      <3>. QED
        BY <2>1, <3>1, <3>2, <3>3, <3>4 DEF FilesInv, InCall, BeforeRename, AfterRename,
           TodoExists, MemoryMatchesFiles, Writing
    <2>3. CASE cmd.kind \notin Transitions
      <3>1. Exit("failed late")
        BY <1>3, <2>3 DEF DetachFails
      <3>. QED
        BY <1>0, <2>1, <3>1, ExitKeeps
    <2>. QED
      BY <2>2, <2>3
  <1>. QED
    BY <1>1, <1>2, <1>3

LEMMA EndsKeep ==
    ASSUME FilesInv, Return \/ Kill
    PROVE  FilesInv'
  <1>1. /\ told \in [Cards -> Columns \cup {"none"}]
        /\ outcome \in {"ok", "warned", "failed", "failed late", "killed"}
    BY DEF FilesInv, Shape
  <1>2. (Exit(outcome) \/ Exit("killed")) /\ UNCHANGED <<disk, told>>
    BY DEF Return, Kill
  <1>. QED
    BY <1>1, <1>2, ExitKeeps

LEMMA StepKeeps == FilesInv /\ [Next]_vars => FilesInv'
  <1>1. ASSUME FilesInv, Next PROVE FilesInv'
    BY <1>1, BeginKeeps, StoreOperationsKeep, OtherStepsKeep, TemporaryKeeps, RenameKeeps,
       AppendKeeps, FailuresKeep, EndsKeep DEF Next
  <1>2. ASSUME FilesInv, UNCHANGED vars PROVE FilesInv'
    <2>1. UNCHANGED <<disk, tmp, told, cache, cmd, steps, at, call, todo, outcome, ops>>
      BY <1>2 DEF vars
    <2>2. Shape' /\ StepsLeft'
      BY <1>2, <2>1 DEF FilesInv, Shape, StepsLeft
    <2>3. InCall' /\ BeforeRename' /\ AfterRename'
      BY <1>2, <2>1 DEF FilesInv, InCall, BeforeRename, AfterRename
    <2>4. TodoExists' /\ MemoryMatchesFiles'
      BY <1>2, <2>1 DEF FilesInv, TodoExists, MemoryMatchesFiles
    <2>. QED
      BY <2>2, <2>3, <2>4 DEF FilesInv
  <1>. QED
    BY <1>1, <1>2

THEOREM Inductive == Spec => []FilesInv
  BY InitHolds, StepKeeps, PTL DEF Spec

(* The variables have their types, and no card's file is ever torn.        *)
THEOREM TypeCorrect == Spec => []TypeOK
  <1>1. FilesInv => TypeOK
    BY DEF FilesInv, Shape, StepsLeft, TypeOK, Writing
  <1>. QED
    BY <1>1, Inductive, PTL

(* Between two steps of a command, after a failed write and its rollback   *)
(* as well, its memory is what the files say.                              *)
THEOREM DecidesOnFiles == Spec => []MemoryMatchesFiles
  <1>1. FilesInv => MemoryMatchesFiles
    BY DEF FilesInv
  <1>. QED
    BY <1>1, Inductive, PTL

-----------------------------------------------------------------------------
(* Only the rename changes the board, and it is an operation of the        *)
(* abstract store.                                                         *)
LEMMA OtherActionsKeepDisk == Next => Rename \/ disk' = disk
  BY DEF Next, Begin, Add, Update, Move, Pass, Detach, Line, Advance, OpenTmp, FillTmp,
     AppendEvent, WriteFails, AppendFails, DetachFails, Return, Kill, Store, files

LEMMA RenameIsOperation ==
    ASSUME FilesInv, Rename
    PROVE  Board!StoreNext
  <1>. DEFINE c == call.card
  <1>1. /\ at \in Writing /\ at = "rename" /\ disk' = [disk EXCEPT ![c] = tmp]
    BY DEF Rename, Writing
  <1>2. /\ call \in Call /\ tmp = cache[c] /\ tmp \in Stored
    BY <1>1 DEF FilesInv, InCall, BeforeRename
  <1>3. c \in Cards /\ call.op \in {"add", "update", "move"}
    BY <1>2 DEF Call
  <1>4. Board!Put(c, tmp)
    BY <1>1 DEF Board!Put
  <1>5. CASE call.op = "add"
    <2>1. /\ disk[c] = NoCard
          /\ tmp = [status |-> "inbox", stamped |-> FALSE, reason |-> FALSE, owner |-> FALSE]
      BY <1>1, <1>2, <1>5 DEF FilesInv, BeforeRename
    <2>2. Board!AddCard(c)
      BY <1>2, <1>4, <2>1 DEF Board!AddCard, Stored
    <2>. QED
      BY <1>3, <2>2 DEF Board!StoreNext
  <1>6. CASE call.op = "move"
    <2>1. disk[c] # NoCard
      BY <1>1, <1>6, Constants DEF FilesInv, BeforeRename
    <2>2. Board!MoveCard(c)
      BY <1>2, <1>4, <2>1 DEF Board!MoveCard, Stored
    <2>. QED
      BY <1>3, <2>2 DEF Board!StoreNext
  <1>7. CASE call.op = "update"
    <2>1. disk[c] \in Stored /\ tmp.status = disk[c].status
      BY <1>1, <1>2, <1>7 DEF FilesInv, BeforeRename
    <2>2. tmp.reason \in BOOLEAN /\ tmp.owner \in BOOLEAN
      BY <1>2, StoredCards
    <2>3. tmp = [disk[c] EXCEPT !.reason = tmp.reason, !.owner = tmp.owner]
      <3>1. SUFFICES ASSUME NEW new \in Stored, NEW old \in Stored, new.status = old.status
                     PROVE  new = [old EXCEPT !.reason = new.reason, !.owner = new.owner]
        BY <1>2, <2>1
      <3>2. /\ new \in [status : Columns, stamped : BOOLEAN, reason : BOOLEAN, owner : BOOLEAN]
            /\ old \in [status : Columns, stamped : BOOLEAN, reason : BOOLEAN, owner : BOOLEAN]
            /\ new.stamped = (new.status = "blocked") /\ old.stamped = (old.status = "blocked")
        BY StoredCards, Zenon
      <3>. QED
        BY <3>1, <3>2
    <2>4. Board!UpdateCard(c)
      BY <1>4, <2>1, <2>2, <2>3, Constants DEF Board!UpdateCard
    <2>. QED
      BY <1>3, <2>4 DEF Board!StoreNext
  <1>. QED
    BY <1>3, <1>5, <1>6, <1>7

(* The card files implement the store that BoardStore describes: whoever   *)
(* reads them, at any moment, sees whole cards that change one operation   *)
(* at a time.                                                              *)
THEOREM FilesImplementBoard == Spec => ImplementsBoard
  <1>1. Init => Board!StoreInit
    BY StoredAssumption DEF Init, Board!StoreInit, StoredAssumption, Stored
  <1>2. FilesInv /\ [Next]_vars => [Board!StoreNext]_disk
    BY OtherActionsKeepDisk, RenameIsOperation DEF vars
  <1>. QED
    BY <1>1, <1>2, Inductive, PTL DEF Spec, ImplementsBoard, Board!StoreSpec

(* A line of events.log is appended after the card's file has said so.     *)
THEOREM EventsAfterFacts == Spec => EventsFollowFacts
  <1>1. ASSUME FilesInv, [Next]_vars, NEW c \in Cards, told'[c] # told[c]
        PROVE  disk[c] # NoCard /\ disk[c].status = told'[c]
    <2>1. AppendEvent \/ AppendFails
      BY <1>1 DEF Next, vars, files, Begin, Add, Update, Move, Pass, Detach, Line, Advance, OpenTmp,
         FillTmp, Rename, WriteFails, DetachFails, Return, Kill, Store
    <2>2. told' = [told EXCEPT ![call.card] = cache[call.card].status] /\ at = "append"
      BY <1>1, <2>1 DEF AppendEvent, AppendFails, InStep
    <2>3. call \in Call /\ cache = disk /\ cache[call.card] \in Stored
      BY <1>1, <2>2 DEF FilesInv, InCall, AfterRename
    <2>4. c = call.card /\ told'[c] = disk[c].status
      BY <1>1, <2>2, <2>3 DEF FilesInv, Shape
    <2>. QED
      BY <2>3, <2>4, Constants
  <1>2. FilesInv /\ [Next]_vars =>
            [\A c \in Cards : told'[c] # told[c] =>
                 disk[c] # NoCard /\ disk[c].status = told'[c]]_vars
    BY <1>1
  <1>. QED
    BY <1>2, Inductive, PTL DEF Spec, EventsFollowFacts

-----------------------------------------------------------------------------
(* A command of a single write is in one of four phases: nothing is done, *)
Untouched ==
    /\ at = "step" /\ steps = StepsOf(cmd.kind) /\ todo = {} /\ outcome = "ok"
    /\ disk[cmd.card] = cmd.found

(* the card is being written,                                              *)
Moving ==
    /\ at \in Writing /\ steps = Tail(StepsOf(cmd.kind)) /\ todo = {} /\ outcome = "ok"
    /\ call.card = cmd.card /\ call.op = "move"
    /\ disk[cmd.card] = cmd.found /\ cache[cmd.card] = Asked

(* it has been written, and its dependents follow,                         *)
FirstDone == cmd.to = "done" /\ cmd.found.status # "done"

AfterMove == IF cmd.kind = "requeue" THEN {<< >>} ELSE {<<"pass", "detach">>, <<"detach">>, << >>}

MovedOn ==
    /\ at \in {"step", "append"} \cup Writing /\ outcome \in {"ok", "warned"}
    /\ disk[cmd.card] = Asked /\ steps \in AfterMove
    /\ cmd.card \notin todo
    /\ todo # {} => cmd.kind \in Transitions
    /\ at \in Writing => call.card \in todo /\ cache[call.card].status = "ready"
    /\ at = "append" /\ call.card \in todo => disk[call.card].status = "ready"
    /\ FirstDone /\ outcome = "ok" /\ steps # <<"pass", "detach">> =>
           Waiting(disk, cmd.card) \subseteq todo

(* or it has ended.                                                        *)
Ended ==
    /\ at = "idle" /\ disk[cmd.card] \in {cmd.found, Asked}
    /\ outcome = "failed" => disk[cmd.card] = cmd.found
    /\ outcome \in {"ok", "warned"} => disk[cmd.card] = Asked
    /\ outcome = "ok" /\ FirstDone => Waiting(disk, cmd.card) = {}

Single == cmd # NoCmd /\ cmd.kind \in SingleWrite

OneWrite ==
    Single =>
        /\ cmd \in Command /\ cmd.found \in Stored
        /\ cmd.kind = "requeue" => cmd.to # "done"
        /\ Untouched \/ Moving \/ MovedOn \/ Ended

(* What the move writes is what was asked.                                 *)
LEMMA MovedAsAsked ==
    ASSUME cmd \in Command, cmd.kind \in SingleWrite, cmd.found \in Stored
    PROVE  Moved(cmd.kind, cmd.found, cmd.to) = Asked
  <1>1. /\ cmd.found.stamped = (cmd.found.status = "blocked")
        /\ cmd.found.reason \in BOOLEAN /\ cmd.found.owner \in BOOLEAN
    BY StoredCards
  <1>2. Stamp(cmd.found, cmd.to) = (cmd.to = "blocked")
    BY <1>1 DEF Stamp
  <1>3. Reason(cmd.kind, cmd.found) = (cmd.kind = "block" \/ (cmd.kind = "move" /\ cmd.found.reason))
    BY <1>1 DEF Reason, SingleWrite, Transitions
  <1>. QED
    BY <1>2, <1>3 DEF Moved, Asked

LEMMA StepsOfSingle ==
    ASSUME NEW kind \in SingleWrite
    PROVE  StepsOf(kind) = IF kind = "requeue" THEN <<"move">> ELSE <<"move", "pass", "detach">>
  BY DEF StepsOf, SingleWrite, Transitions, TransitionSteps, RequeueSteps

LEMMA SamePhase ==
    ASSUME OneWrite, cmd' = cmd, Single => Untouched' \/ Moving' \/ MovedOn' \/ Ended'
    PROVE  OneWrite'
  BY DEF OneWrite, Single

(* The steps of a command of a single write, taken one by one.             *)
LEMMA NextInLine ==
    ASSUME OneWrite, Single, at = "step", steps # << >>
    PROVE  \/ Untouched /\ Head(steps) = "move"
           \/ MovedOn /\ steps = <<"pass", "detach">> /\ Head(steps) = "pass" /\ Tail(steps) = <<"detach">>
           \/ MovedOn /\ steps = <<"detach">> /\ Head(steps) = "detach" /\ Tail(steps) = << >>
  <1>1. Untouched \/ MovedOn
    BY DEF OneWrite, Moving, Ended, Writing
  <1>2. CASE Untouched
    <2>1. steps = <<"move">> \/ steps = <<"move", "pass", "detach">>
      BY <1>2, StepsOfSingle DEF Untouched, Single
    <2>. QED
      BY <1>2, <2>1
  <1>3. CASE MovedOn
    <2>1. steps = <<"pass", "detach">> \/ steps = <<"detach">>
      BY <1>3 DEF MovedOn, AfterMove
    <2>2. CASE steps = <<"pass", "detach">>
      <3>1. Head(<<"pass", "detach">>) = "pass" /\ Tail(<<"pass", "detach">>) = <<"detach">>
        OBVIOUS
      <3>. QED
        BY <1>3, <2>2, <3>1, Zenon
    <2>3. CASE steps = <<"detach">>
      <3>1. Head(<<"detach">>) = "detach" /\ Tail(<<"detach">>) = << >>
        OBVIOUS
      <3>. QED
        BY <1>3, <2>3, <3>1, Zenon
    <2>. QED
      BY <2>1, <2>2, <2>3
  <1>. QED
    BY <1>1, <1>2, <1>3

(* A command may end late, or be killed, in any phase.                     *)
LEMMA ExitLate ==
    ASSUME OneWrite, Single, NEW how \in {"failed late", "killed"}, Exit(how), disk' = disk
    PROVE  Ended'
  <1>1. cmd' = cmd /\ at' = "idle" /\ outcome' = how
    BY DEF Exit
  <1>2. disk[cmd.card] \in {cmd.found, Asked}
    BY DEF OneWrite, Untouched, Moving, MovedOn, Ended
  <1>3. Asked' = Asked
    BY <1>1 DEF Asked
  <1>. QED
    BY <1>1, <1>2, <1>3 DEF Ended

(* Dependents whose last dependency is done: fewer by one that has moved.  *)
LEMMA WaitingShrinks ==
    ASSUME FilesInv, NEW new \in [Cards -> Stored \cup {NoCard}], NEW x \in Cards,
           \A c \in Cards \ {x} : new[c] = disk[c],
           new[x] # NoCard, new[x].status = "ready", NEW done
    PROVE  Waiting(new, done) \subseteq Waiting(disk, done) \ {x}
  <1>1. SUFFICES ASSUME NEW c \in Waiting(new, done)
                 PROVE  c \in Waiting(disk, done) /\ c # x
    OBVIOUS
  <1>2. /\ c \in Cards /\ new[c] # NoCard /\ new[c].status = "inbox" /\ done \in DependsOn[c]
        /\ \A d \in DependsOn[c] : new[d] # NoCard /\ new[d].status = "done"
    BY <1>1 DEF Waiting
  <1>3. c # x /\ new[c] = disk[c]
    BY <1>2
  <1>4. ASSUME NEW d \in DependsOn[c]
        PROVE  disk[d] # NoCard /\ disk[d].status = "done"
    <2>1. d \in Cards
      BY <1>2, CardFilesAssumption DEF CardFilesAssumption
    <2>. QED
      BY <1>2, <2>1
  <1>. QED
    BY <1>2, <1>3, <1>4 DEF Waiting

LEMMA BeginsOneWrite ==
    ASSUME FilesInv, NEW kind \in Kinds, NEW c \in Cards, NEW s \in Columns, Begin(kind, c, s)
    PROVE  OneWrite'
  <1>1. SUFFICES ASSUME kind \in SingleWrite
                 PROVE  /\ cmd' \in Command /\ cmd'.found \in Stored
                        /\ cmd'.kind = "requeue" => cmd'.to # "done"
                        /\ Untouched'
    BY DEF OneWrite, Single, Begin
  <1>2. /\ (kind = "create") = (disk[c] = NoCard) /\ s \in Targets(kind, disk[c])
        /\ cmd' = [kind |-> kind, card |-> c, to |-> s, found |-> disk[c]]
        /\ steps' = StepsOf(kind) /\ at' = "step" /\ todo' = {} /\ disk' = disk /\ outcome' = "ok"
    BY DEF Begin, files
  <1>3. disk[c] \in Stored
    BY <1>1, <1>2 DEF FilesInv, Shape, SingleWrite, Transitions
  <1>4. kind = "requeue" => s # "done"
    BY <1>2 DEF Targets
  <1>. QED
    BY <1>2, <1>3, <1>4 DEF Command, Untouched

LEMMA StoresOneWrite ==
    ASSUME FilesInv, OneWrite, Add \/ Update \/ Move \/ \E c \in todo : Advance(c)
    PROVE  OneWrite'
  <1>1. cmd' = cmd
    BY DEF Add, Update, Move, Advance, Store
  <1>2. SUFFICES ASSUME Single PROVE Untouched' \/ Moving' \/ MovedOn' \/ Ended'
    BY <1>1, SamePhase
  <1>3. at = "step" /\ cache = disk
    BY DEF Add, Update, Move, Advance, InStep, FilesInv, MemoryMatchesFiles
  <1>4. Asked' = Asked /\ AfterMove' = AfterMove /\ FirstDone' = FirstDone
    BY <1>1 DEF Asked, AfterMove, FirstDone
  <1>5. CASE Move
    <2>1. Untouched /\ Head(steps) = "move"
      BY <1>2, <1>5, NextInLine DEF Move, InStep
    <2>2. cmd \in Command /\ cmd.found \in Stored /\ cmd.kind \in SingleWrite
      BY <1>2 DEF OneWrite, Single
    <2>3. /\ Store("move", cmd.card, Moved(cmd.kind, cache[cmd.card], cmd.to))
          /\ steps' = Tail(steps) /\ todo' = todo
      BY <1>5 DEF Move
    <2>4. Moved(cmd.kind, cache[cmd.card], cmd.to) = Asked
      BY <1>3, <2>1, <2>2, MovedAsAsked DEF Untouched
    <2>5. /\ cache' = [cache EXCEPT ![cmd.card] = Asked] /\ at' = "write" /\ disk' = disk
          /\ call' = [op |-> "move", card |-> cmd.card, old |-> cache[cmd.card]] /\ outcome' = outcome
      BY <2>3, <2>4 DEF Store, files
    <2>6. cache'[cmd.card] = Asked
      BY <2>2, <2>5 DEF FilesInv, Shape, Command
    <2>. QED
      BY <1>1, <1>4, <2>1, <2>3, <2>5, <2>6 DEF Untouched, Moving, Writing
  <1>6. CASE \E c \in todo : Advance(c)
    <2>1. PICK c \in todo : Advance(c)
      BY <1>6
    <2>2. MovedOn
      BY <1>2, <1>3, <2>1 DEF OneWrite, Untouched, Moving, Ended, Writing
    <2>3. /\ Store("move", c, Moved("ready", cache[c], "ready")) /\ steps' = steps /\ todo' = todo
      BY <2>1 DEF Advance
    <2>4. c \in Cards /\ disk[c] \in Stored
      BY DEF FilesInv, Shape, TodoExists
    <2>5. Moved("ready", cache[c], "ready").status = "ready"
      BY <1>3, <2>4, MovedIsStored, ColumnNames
    <2>6. /\ at' = "write" /\ disk' = disk /\ outcome' = outcome
          /\ cache'[c].status = "ready" /\ call'.card = c
      BY <2>3, <2>4, <2>5 DEF Store, files, FilesInv, Shape
    <2>. QED
      BY <1>1, <1>4, <2>1, <2>2, <2>3, <2>6 DEF MovedOn, Writing
  <1>7. CASE Add \/ Update
    <2>1. steps # << >> /\ Head(steps) \notin {"move", "pass", "detach"}
      BY <1>7 DEF Add, Update, InStep
    <2>. QED
      BY <1>2, <1>3, <2>1, NextInLine
  <1>. QED
    BY <1>5, <1>6, <1>7

LEMMA OthersOneWrite ==
    ASSUME FilesInv, OneWrite, Pass \/ Detach \/ Line
    PROVE  OneWrite'
  <1>1. /\ InStep({"pass", "detach", "line"}) /\ steps' = Tail(steps)
        /\ UNCHANGED <<disk, tmp, told, cache, cmd, at, call, outcome, ops>>
    BY DEF Pass, Detach, Line, InStep, files
  <1>2. SUFFICES ASSUME Single PROVE MovedOn'
    BY <1>1, SamePhase
  <1>3. at = "step" /\ cache = disk /\ todo = {} /\ steps # << >>
    BY <1>1 DEF InStep, FilesInv, MemoryMatchesFiles
  <1>4. Asked' = Asked /\ AfterMove' = AfterMove /\ FirstDone' = FirstDone
    BY <1>1 DEF Asked, AfterMove, FirstDone
  <1>5. CASE Pass
    <2>1. Head(steps) = "pass" /\ todo' = IF Fresh THEN Waiting(cache, cmd.card) ELSE {}
      BY <1>5 DEF Pass, InStep
    <2>2. MovedOn /\ steps = <<"pass", "detach">> /\ Tail(steps) = <<"detach">>
      BY <1>2, <1>3, <2>1, NextInLine
    <2>3. cmd.kind \in Transitions /\ steps' \in AfterMove
      BY <1>1, <1>2, <2>2 DEF MovedOn, AfterMove, Single, SingleWrite
    <2>4. Fresh = FirstDone
      BY DEF Fresh, FirstDone
    <2>5. cmd.card \notin todo'
      BY <1>3, <2>1, <2>2 DEF Waiting, MovedOn, Asked, Fresh
    <2>. QED
      BY <1>1, <1>3, <1>4, <2>1, <2>2, <2>3, <2>4, <2>5 DEF MovedOn, Writing
  <1>6. CASE Detach
    <2>1. Head(steps) = "detach" /\ todo' = todo
      BY <1>6 DEF Detach, InStep
    <2>2. MovedOn /\ steps = <<"detach">> /\ Tail(steps) = << >>
      BY <1>2, <1>3, <2>1, NextInLine
    <2>3. steps # <<"pass", "detach">> /\ steps' \in AfterMove
      BY <1>1, <2>2 DEF AfterMove
    <2>. QED
      BY <1>1, <1>3, <1>4, <2>1, <2>2, <2>3 DEF MovedOn, Writing
  <1>7. CASE Line
    <2>1. Head(steps) = "line"
      BY <1>7 DEF Line, InStep
    <2>. QED
      BY <1>2, <1>3, <2>1, NextInLine
  <1>. QED
    BY <1>5, <1>6, <1>7

LEMMA TemporaryOneWrite ==
    ASSUME FilesInv, OneWrite, OpenTmp \/ FillTmp
    PROVE  OneWrite'
  <1>1. /\ at \in Writing /\ at' \in Writing
        /\ UNCHANGED <<disk, told, cache, cmd, steps, call, todo, outcome, ops>>
    BY DEF OpenTmp, FillTmp, Writing
  <1>2. SUFFICES ASSUME Single PROVE Moving' \/ MovedOn'
    BY <1>1, SamePhase
  <1>3. Asked' = Asked /\ AfterMove' = AfterMove /\ FirstDone' = FirstDone
    BY <1>1 DEF Asked, AfterMove, FirstDone
  <1>4. Moving \/ MovedOn
    BY <1>1, <1>2 DEF OneWrite, Untouched, Ended, Writing
  <1>5. CASE Moving
    BY <1>1, <1>3, <1>5 DEF Moving
  <1>6. CASE MovedOn
    <2>1. at' # "append"
      BY <1>1 DEF Writing
    <2>. QED
      BY <1>1, <1>3, <1>6, <2>1 DEF MovedOn
  <1>. QED
    BY <1>4, <1>5, <1>6

LEMMA RenameOneWrite ==
    ASSUME FilesInv, OneWrite, Rename
    PROVE  OneWrite'
  <1>1. /\ at = "rename" /\ at \in Writing
        /\ UNCHANGED <<told, cache, cmd, steps, todo, outcome, ops>>
        /\ call.op = "move" => at' = "append" /\ call' = call
    BY DEF Rename, Writing
  <1>2. SUFFICES ASSUME Single PROVE MovedOn'
    BY <1>1, SamePhase
  <1>3. Asked' = Asked /\ AfterMove' = AfterMove /\ FirstDone' = FirstDone
    BY <1>1 DEF Asked, AfterMove, FirstDone
  <1>4. /\ disk' = cache /\ call \in Call /\ cache[call.card] \in Stored
        /\ \A c \in Cards \ {call.card} : cache[c] = disk[c]
        /\ call.card \in todo => call.op = "move"
    BY <1>1, RenameKeeps DEF FilesInv, InCall
  <1>5. Moving \/ MovedOn
    BY <1>1, <1>2 DEF OneWrite, Untouched, Ended
  <1>6. CASE Moving
    <2>1. /\ steps = Tail(StepsOf(cmd.kind)) /\ todo = {} /\ at' = "append"
          /\ call.card = cmd.card /\ disk'[cmd.card] = Asked /\ outcome = "ok"
      BY <1>1, <1>4, <1>6 DEF Moving
    <2>2. cmd.kind \in SingleWrite /\ (cmd.kind = "requeue" => cmd.to # "done")
      BY <1>2 DEF OneWrite, Single
    <2>3. steps = IF cmd.kind = "requeue" THEN << >> ELSE <<"pass", "detach">>
      <3>1. Tail(<<"move">>) = << >> /\ Tail(<<"move", "pass", "detach">>) = <<"pass", "detach">>
        OBVIOUS
      <3>. QED
        BY <2>1, <2>2, <3>1, StepsOfSingle, Zenon
    <2>. QED
      BY <1>1, <1>3, <2>1, <2>2, <2>3 DEF MovedOn, AfterMove, FirstDone, Writing
  <1>7. CASE MovedOn
    <2>1. /\ call.card \in todo /\ cache[call.card].status = "ready" /\ cmd.card \notin todo
          /\ cmd.card \in Cards
      BY <1>1, <1>2, <1>7 DEF MovedOn, OneWrite, Command
    <2>2. disk'[cmd.card] = disk[cmd.card] /\ at' = "append" /\ call' = call
      BY <1>1, <1>4, <2>1
    <2>3. Waiting(disk', cmd.card) \subseteq Waiting(disk, cmd.card)
      <3>1. cache \in [Cards -> Stored \cup {NoCard}] /\ call.card \in Cards
        BY <1>4 DEF FilesInv, Shape, Call
      <3>2. Waiting(cache, cmd.card) \subseteq Waiting(disk, cmd.card) \ {call.card}
        BY <1>4, <2>1, <3>1, Constants, WaitingShrinks
      <3>. QED
        BY <1>4, <3>2
    <2>. QED
      BY <1>1, <1>3, <1>4, <1>7, <2>1, <2>2, <2>3 DEF MovedOn, Writing
  <1>. QED
    BY <1>5, <1>6, <1>7

LEMMA AppendOneWrite ==
    ASSUME FilesInv, OneWrite, AppendEvent
    PROVE  OneWrite'
  <1>1. /\ at = "append" /\ at' = "step" /\ todo' = todo \ {call.card}
        /\ UNCHANGED <<disk, tmp, cache, cmd, steps, outcome, ops>>
    BY DEF AppendEvent
  <1>2. SUFFICES ASSUME Single PROVE MovedOn'
    BY <1>1, SamePhase
  <1>3. Asked' = Asked /\ AfterMove' = AfterMove /\ FirstDone' = FirstDone
    BY <1>1 DEF Asked, AfterMove, FirstDone
  <1>4. MovedOn
    BY <1>1, <1>2 DEF OneWrite, Untouched, Moving, Ended, Writing
  <1>5. call.card \in todo => call.card \notin Waiting(disk, cmd.card)
    BY <1>1, <1>4 DEF MovedOn, Waiting
  <1>. QED
    BY <1>1, <1>3, <1>4, <1>5 DEF MovedOn, Writing

LEMMA FailuresOneWrite ==
    ASSUME FilesInv, OneWrite, WriteFails \/ AppendFails \/ DetachFails
    PROVE  OneWrite'
  <1>1. cmd' = cmd /\ disk' = disk
    BY DEF WriteFails, AppendFails, DetachFails, Raise, Exit
  <1>2. SUFFICES ASSUME Single PROVE MovedOn' \/ Ended'
    BY <1>1, SamePhase
  <1>3. Asked' = Asked /\ AfterMove' = AfterMove /\ FirstDone' = FirstDone
    BY <1>1 DEF Asked, AfterMove, FirstDone
  <1>4. ASSUME NEW how, NEW memory, Raise(how, memory), todo # {}, MovedOn
        PROVE  MovedOn'
    <2>1. cmd.kind \in Transitions
      BY <1>4 DEF MovedOn
    <2>2. at' = "step" /\ outcome' = "warned" /\ todo' = {} /\ steps' = steps
      BY <1>4, <2>1 DEF Raise
    <2>. QED
      BY <1>1, <1>3, <1>4, <2>2 DEF MovedOn, Writing
  <1>5. CASE WriteFails
    <2>1. at \in Writing /\ Raise("failed", RolledBack)
      BY <1>5 DEF WriteFails, Writing
    <2>2. Moving \/ MovedOn
      BY <1>2, <2>1 DEF OneWrite, Untouched, Ended, Writing
    <2>3. CASE Moving
      <3>1. Exit("failed") /\ disk[cmd.card] = cmd.found
        BY <2>1, <2>3 DEF Raise, Moving
      <3>. QED
        BY <1>1, <3>1 DEF Exit, Ended
    <2>4. CASE MovedOn
      <3>1. todo # {}
        BY <2>1, <2>4 DEF MovedOn
      <3>. QED
        BY <1>4, <2>1, <2>4, <3>1
    <2>. QED
      BY <2>2, <2>3, <2>4
  <1>6. CASE AppendFails
    <2>1. (at = "append" \/ InStep({"line"})) /\ Raise("failed late", cache)
      BY <1>6 DEF AppendFails
    <2>2. at = "append"
      BY <1>2, <2>1, NextInLine DEF InStep
    <2>3. MovedOn
      BY <1>2, <2>2 DEF OneWrite, Untouched, Moving, Ended, Writing
    <2>4. todo # {} \/ Exit("failed late")
      BY <2>1 DEF Raise
    <2>. QED
      BY <1>1, <1>2, <1>4, <2>1, <2>3, <2>4, ExitLate
  <1>7. CASE DetachFails
    <2>1. InStep({"detach"})
      BY <1>7 DEF DetachFails
    <2>2. MovedOn /\ steps = <<"detach">> /\ Tail(steps) = << >> /\ at = "step" /\ todo = {}
      BY <1>2, <2>1, NextInLine DEF InStep
    <2>3. CASE cmd.kind \in Transitions
      <3>1. steps' = << >> /\ outcome' = "warned" /\ at' = "step" /\ todo' = {}
        BY <1>7, <2>2, <2>3 DEF DetachFails
      <3>2. << >> \in AfterMove
        BY DEF AfterMove
      <3>. QED
        BY <1>1, <1>3, <2>2, <3>1, <3>2 DEF MovedOn, Writing
    <2>4. CASE cmd.kind \notin Transitions
      BY <1>1, <1>2, <1>7, <2>4, ExitLate DEF DetachFails
    <2>. QED
      BY <2>3, <2>4
  <1>. QED
    BY <1>5, <1>6, <1>7

LEMMA EndsOneWrite ==
    ASSUME FilesInv, OneWrite, Return \/ Kill
    PROVE  OneWrite'
  <1>1. cmd' = cmd /\ disk' = disk
    BY DEF Return, Kill, Exit
  <1>2. SUFFICES ASSUME Single PROVE Ended'
    BY <1>1, SamePhase
  <1>3. CASE Kill
    BY <1>1, <1>2, <1>3, ExitLate DEF Kill
  <1>4. CASE Return
    <2>1. at = "step" /\ steps = << >> /\ todo = {} /\ at' = "idle" /\ outcome' = outcome
      BY <1>4 DEF Return, Exit
    <2>2. StepsOf(cmd.kind) # << >>
      BY <1>2, StepsOfSingle DEF Single
    <2>3. MovedOn
      BY <1>2, <2>1, <2>2 DEF OneWrite, Untouched, Moving, Ended, Writing
    <2>4. Asked' = Asked /\ FirstDone' = FirstDone
      BY <1>1 DEF Asked, FirstDone
    <2>5. /\ disk[cmd.card] = Asked /\ outcome # "failed"
          /\ FirstDone /\ outcome = "ok" => Waiting(disk, cmd.card) = {}
      BY <2>1, <2>3 DEF MovedOn
    <2>. QED
      BY <1>1, <2>1, <2>4, <2>5 DEF Ended
  <1>. QED
    BY <1>3, <1>4

LEMMA PhasesFollow == FilesInv /\ OneWrite /\ [Next]_vars => OneWrite'
  <1>1. ASSUME FilesInv, OneWrite, Next PROVE OneWrite'
    BY <1>1, BeginsOneWrite, StoresOneWrite, OthersOneWrite, TemporaryOneWrite, RenameOneWrite,
       AppendOneWrite, FailuresOneWrite, EndsOneWrite DEF Next
  <1>2. ASSUME OneWrite, UNCHANGED vars PROVE OneWrite'
    <2>1. UNCHANGED <<disk, cache, cmd, steps, at, call, todo, outcome>>
      BY <1>2 DEF vars
    <2>2. Asked' = Asked /\ AfterMove' = AfterMove /\ FirstDone' = FirstDone
      BY <2>1 DEF Asked, AfterMove, FirstDone
    <2>3. (Untouched => Untouched') /\ (Moving => Moving')
      BY <2>1, <2>2 DEF Untouched, Moving
    <2>4. (MovedOn => MovedOn') /\ (Ended => Ended')
      BY <2>1, <2>2 DEF MovedOn, Ended
    <2>. QED
      BY <1>2, <2>1, <2>3, <2>4 DEF OneWrite, Single
  <1>. QED
    BY <1>1, <1>2

LEMMA OnePhase == Spec => []OneWrite
  <1>1. Init => OneWrite
    BY DEF Init, OneWrite, Single
  <1>. QED
    BY <1>1, PhasesFollow, Inductive, PTL DEF Spec

(* At every moment the card of a transition is as it was found or as it    *)
(* was asked to be, and after a failed write as it was found.              *)
THEOREM TransitionsAreAtomic == Spec => []AllOrNothing
  <1>1. OneWrite => AllOrNothing
    BY DEF OneWrite, Single, Untouched, Moving, MovedOn, Ended, AllOrNothing, Writing
  <1>. QED
    BY <1>1, OnePhase, PTL

(* A transition that returns has made its change, and one that returns     *)
(* without a warning has left no dependent behind.                         *)
THEOREM WarnedOrComplete == Spec => []ReportsTruthful
  <1>1. OneWrite => ReportsTruthful
    BY DEF OneWrite, Single, Untouched, Moving, MovedOn, Ended, ReportsTruthful, FirstDone, Writing
  <1>. QED
    BY <1>1, OnePhase, PTL

=============================================================================
