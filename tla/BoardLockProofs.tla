-------------------------- MODULE BoardLockProofs --------------------------
(***************************************************************************)
(* Theorems about BoardLock, for any number of daemons and any commands,   *)
(* whose starts and steps overlap as they like.                            *)
(***************************************************************************)
EXTENDS BoardLock, SequenceTheorems, FiniteSetTheorems, TLAPS

(* The steps that only follow from another, those of daemon stop and       *)
(* doctor, and those that rely on a look at the lock.                      *)
Removes == {"unlink", "exists", "signal", "poll"}
ControlSteps == {"status", "exists", "signal", "poll", "diagnose"}
Acts == {"claim", "write", "schedule"}

(* The kinds of commands that look at the claim.                           *)
Claiming == {"cli", "web", "mcp"}

(* In which order a command does its steps: it looks at the lock before it *)
(* acts, at the claim between that look and its write, and, unless it is   *)
(* one that loads first, loads the board between them too.                 *)
Ordered(kind, s) ==
    /\ \A i \in 2..Len(s) : s[i] \notin Removes
    /\ \A i \in 1..Len(s) :
        /\ s[i] \in ControlSteps => kind \in Control
        /\ s[i] \in Acts \cup {"check", "load"} => kind \notin Control
        /\ s[i] = "schedule" => kind = "run"
        /\ s[i] = "write" => kind # "run"
        /\ s[i] = "check" => /\ kind \in Claiming => \E j \in i..Len(s) : s[j] = "claim"
                             /\ kind \notin LoadsFirst => \E j \in i..Len(s) : s[j] = "load"
    /\ \A i \in 1..Len(s) : \A j \in i..Len(s) :
        /\ s[i] \in Acts => s[j] # "check"
        /\ s[i] = "write" => s[j] # "claim"
        /\ kind \notin LoadsFirst =>
               /\ s[i] = "load" => s[j] # "check"
               /\ s[i] \in {"write", "schedule"} => s[j] # "load"

OrderedCommand == cmd # Idle => Ordered(cmd.kind, cmd.todo)

-----------------------------------------------------------------------------
(* A command as it is issued.                                              *)
Issued(kind, s) ==
    /\ s \in Seq(StepNames) /\ s # << >> /\ s[1] \notin Removes
    /\ Ordered(kind, s)
    /\ kind \notin Control => \E i \in 1..Len(s) : s[i] = "check"

(* Every command of StepsOf is of that kind.                               *)
LEMMA IssuedSteps ==
    ASSUME NEW kind \in AllKinds, NEW s \in StepsOf[kind]
    PROVE  Issued(kind, s)
  <1>1. CASE kind \in {"cli", "web"} /\ s = <<"load", "clear", "check", "claim", "write">>
    <2>1. /\ s \in Seq(StepNames) /\ s # << >> /\ Len(s) = 5
          /\ s[1] = "load" /\ s[2] = "clear" /\ s[3] = "check" /\ s[4] = "claim" /\ s[5] = "write"
      BY <1>1 DEF StepNames
    <2>2. kind \notin Control => \E i \in 1..Len(s) : s[i] = "check"
      BY <1>1, <2>1
    <2>3. Ordered(kind, s)
      BY <1>1, <2>1 DEF Ordered, Removes, ControlSteps, Acts, Claiming, Control, LoadsFirst
    <2>. QED
      BY <2>1, <2>2, <2>3 DEF Issued, Removes
  <1>2. CASE kind \in {"cli", "web"} /\ s = <<"load", "clear", "check", "claim", "write", "write">>
    <2>1. /\ s \in Seq(StepNames) /\ s # << >> /\ Len(s) = 6
          /\ s[1] = "load" /\ s[2] = "clear" /\ s[3] = "check"
          /\ s[4] = "claim" /\ s[5] = "write" /\ s[6] = "write"
      BY <1>2 DEF StepNames
    <2>2. kind \notin Control => \E i \in 1..Len(s) : s[i] = "check"
      BY <1>2, <2>1
    <2>3. Ordered(kind, s)
      BY <1>2, <2>1 DEF Ordered, Removes, ControlSteps, Acts, Claiming, Control, LoadsFirst
    <2>. QED
      BY <2>1, <2>2, <2>3 DEF Issued, Removes
  <1>3. CASE kind \in {"cli", "web"} /\ s = <<"load", "check", "claim", "write">>
    <2>1. /\ s \in Seq(StepNames) /\ s # << >> /\ Len(s) = 4
          /\ s[1] = "load" /\ s[2] = "check" /\ s[3] = "claim" /\ s[4] = "write"
      BY <1>3 DEF StepNames
    <2>2. kind \notin Control => \E i \in 1..Len(s) : s[i] = "check"
      BY <1>3, <2>1
    <2>3. Ordered(kind, s)
      BY <1>3, <2>1 DEF Ordered, Removes, ControlSteps, Acts, Claiming, Control, LoadsFirst
    <2>. QED
      BY <2>1, <2>2, <2>3 DEF Issued, Removes
  <1>4. CASE kind \in {"mcp"} /\ s = <<"clear", "check", "claim", "load", "write">>
    <2>1. /\ s \in Seq(StepNames) /\ s # << >> /\ Len(s) = 5
          /\ s[1] = "clear" /\ s[2] = "check" /\ s[3] = "claim" /\ s[4] = "load" /\ s[5] = "write"
      BY <1>4 DEF StepNames
    <2>2. kind \notin Control => \E i \in 1..Len(s) : s[i] = "check"
      BY <1>4, <2>1
    <2>3. Ordered(kind, s)
      BY <1>4, <2>1 DEF Ordered, Removes, ControlSteps, Acts, Claiming, Control, LoadsFirst
    <2>. QED
      BY <2>1, <2>2, <2>3 DEF Issued, Removes
  <1>5. CASE kind \in {"prune"} /\ s = <<"clear", "check", "load", "write">>
    <2>1. /\ s \in Seq(StepNames) /\ s # << >> /\ Len(s) = 4
          /\ s[1] = "clear" /\ s[2] = "check" /\ s[3] = "load" /\ s[4] = "write"
      BY <1>5 DEF StepNames
    <2>2. kind \notin Control => \E i \in 1..Len(s) : s[i] = "check"
      BY <1>5, <2>1
    <2>3. Ordered(kind, s)
      BY <1>5, <2>1 DEF Ordered, Removes, ControlSteps, Acts, Claiming, Control, LoadsFirst
    <2>. QED
      BY <2>1, <2>2, <2>3 DEF Issued, Removes
  <1>6. CASE kind \in {"run"} /\ s = <<"clear", "check", "load", "schedule">>
    <2>1. /\ s \in Seq(StepNames) /\ s # << >> /\ Len(s) = 4
          /\ s[1] = "clear" /\ s[2] = "check" /\ s[3] = "load" /\ s[4] = "schedule"
      BY <1>6 DEF StepNames
    <2>2. kind \notin Control => \E i \in 1..Len(s) : s[i] = "check"
      BY <1>6, <2>1
    <2>3. Ordered(kind, s)
      BY <1>6, <2>1 DEF Ordered, Removes, ControlSteps, Acts, Claiming, Control, LoadsFirst
    <2>. QED
      BY <2>1, <2>2, <2>3 DEF Issued, Removes
  <1>7. CASE kind \in Control /\ s = <<"status">>
    <2>1. /\ s \in Seq(StepNames) /\ s # << >> /\ Len(s) = 1
          /\ s[1] = "status"
      BY <1>7 DEF StepNames
    <2>2. kind \notin Control => \E i \in 1..Len(s) : s[i] = "check"
      BY <1>7, <2>1
    <2>3. Ordered(kind, s)
      BY <1>7, <2>1 DEF Ordered, Removes, ControlSteps, Acts, Claiming, Control, LoadsFirst
    <2>. QED
      BY <2>1, <2>2, <2>3 DEF Issued, Removes
  <1>8. CASE kind \in Control /\ s = <<"diagnose">>
    <2>1. /\ s \in Seq(StepNames) /\ s # << >> /\ Len(s) = 1
          /\ s[1] = "diagnose"
      BY <1>8 DEF StepNames
    <2>2. kind \notin Control => \E i \in 1..Len(s) : s[i] = "check"
      BY <1>8, <2>1
    <2>3. Ordered(kind, s)
      BY <1>8, <2>1 DEF Ordered, Removes, ControlSteps, Acts, Claiming, Control, LoadsFirst
    <2>. QED
      BY <2>1, <2>2, <2>3 DEF Issued, Removes
  <1>. QED
    <2>1. /\ kind \in {"cli", "web"} =>
                 s \in {<<"load", "clear", "check", "claim", "write">>,
                       <<"load", "clear", "check", "claim", "write", "write">>,
                       <<"load", "check", "claim", "write">>}
          /\ kind = "mcp" => s = <<"clear", "check", "claim", "load", "write">>
          /\ kind = "prune" => s = <<"clear", "check", "load", "write">>
          /\ kind = "run" => s = <<"clear", "check", "load", "schedule">>
          /\ kind \in Control => s \in {<<"status">>, <<"diagnose">>}
      BY DEF AllKinds, Control, StepsOf, MoveSteps, RequeueSteps, EditSteps, ContextSteps,
         AcceptanceSteps, WebSteps, McpSteps, PruneSteps, RunSteps, RecoverSteps, DemoSteps,
         McpRunSteps
    <2>. QED
      BY <1>1, <1>2, <1>3, <1>4, <1>5, <1>6, <1>7, <1>8, <2>1 DEF AllKinds, Control

(* What is left of a command after a step, or with its first step          *)
(* replaced, is in order.                                                  *)
LEMMA TailOrdered ==
    ASSUME NEW kind, NEW s \in Seq(StepNames), NEW t \in Seq(StepNames), Ordered(kind, s),
           Len(t) = Len(s) - 1, \A i \in 1..Len(t) : t[i] = s[i + 1]
    PROVE  Ordered(kind, t) /\ \A i \in 1..Len(t) : t[i] \notin Removes
  <1>1. Len(s) \in Nat /\ Len(t) \in Nat
    OBVIOUS
  <1>2. \A i \in 1..Len(t) : i + 1 \in 2..Len(s) /\ i + 1 \in 1..Len(s)
    BY <1>1
  <1>3. \A i \in 1..Len(t) : t[i] \notin Removes
    BY <1>2 DEF Ordered
  <1>4. ASSUME NEW i \in 1..Len(t), NEW x, \E j \in (i + 1)..Len(s) : s[j] = x
        PROVE  \E j \in i..Len(t) : t[j] = x
    <2>1. PICK j \in (i + 1)..Len(s) : s[j] = x
      BY <1>4
    <2>2. j - 1 \in i..Len(t) /\ j - 1 \in 1..Len(t) /\ (j - 1) + 1 = j
      BY <1>1, <2>1
    <2>. QED
      BY <2>1, <2>2
  <1>5. ASSUME NEW i \in 1..Len(t)
        PROVE  /\ t[i] \in ControlSteps => kind \in Control
               /\ t[i] \in Acts \cup {"check", "load"} => kind \notin Control
               /\ t[i] = "schedule" => kind = "run"
               /\ t[i] = "write" => kind # "run"
               /\ t[i] = "check" =>
                      /\ kind \in Claiming => \E j \in i..Len(t) : t[j] = "claim"
                      /\ kind \notin LoadsFirst => \E j \in i..Len(t) : t[j] = "load"
    <2>1. i + 1 \in 1..Len(s) /\ t[i] = s[i + 1]
      BY <1>2
    <2>2. s[i + 1] = "check" =>
              /\ kind \in Claiming => \E j \in (i + 1)..Len(s) : s[j] = "claim"
              /\ kind \notin LoadsFirst => \E j \in (i + 1)..Len(s) : s[j] = "load"
      BY <2>1 DEF Ordered
    <2>3. t[i] = "check" =>
              /\ kind \in Claiming => \E j \in i..Len(t) : t[j] = "claim"
              /\ kind \notin LoadsFirst => \E j \in i..Len(t) : t[j] = "load"
      BY <1>4, <2>1, <2>2
    <2>. QED
      BY <2>1, <2>3 DEF Ordered
  <1>6. ASSUME NEW i \in 1..Len(t), NEW j \in i..Len(t)
        PROVE  /\ t[i] \in Acts => t[j] # "check"
               /\ t[i] = "write" => t[j] # "claim"
               /\ kind \notin LoadsFirst =>
                      /\ t[i] = "load" => t[j] # "check"
                      /\ t[i] \in {"write", "schedule"} => t[j] # "load"
    <2>1. i + 1 \in 1..Len(s) /\ j + 1 \in (i + 1)..Len(s) /\ j \in 1..Len(t)
      BY <1>1
    <2>2. t[i] = s[i + 1] /\ t[j] = s[j + 1]
      BY <2>1
    <2>. QED
      BY <2>1, <2>2 DEF Ordered
  <1>7. \A i \in 2..Len(t) : t[i] \notin Removes
    BY <1>3
  <1>. QED
    BY <1>3, <1>5, <1>6, <1>7 DEF Ordered

LEMMA StepOrdered ==
    ASSUME NEW kind, NEW s \in Seq(StepNames), NEW t \in Seq(StepNames), Ordered(kind, s),
           Len(t) = Len(s), \A i \in 2..Len(t) : t[i] = s[i],
           t[1] \notin Acts \cup {"check", "load"}, t[1] \in ControlSteps => kind \in Control
    PROVE  Ordered(kind, t)
  <1>1. Len(s) \in Nat
    OBVIOUS
  <1>2. ASSUME NEW i \in 1..Len(t), i # 1
        PROVE  i \in 1..Len(s) /\ i \in 2..Len(t) /\ \A j \in i..Len(s) : t[j] = s[j]
    BY <1>1, <1>2
  <1>3. t[1] \notin {"schedule", "write", "check", "load"}
    BY DEF Acts
  <1>4. ASSUME NEW i \in 1..Len(t)
        PROVE  /\ t[i] \in ControlSteps => kind \in Control
               /\ t[i] \in Acts \cup {"check", "load"} => kind \notin Control
               /\ t[i] = "schedule" => kind = "run"
               /\ t[i] = "write" => kind # "run"
               /\ t[i] = "check" =>
                      /\ kind \in Claiming => \E j \in i..Len(t) : t[j] = "claim"
                      /\ kind \notin LoadsFirst => \E j \in i..Len(t) : t[j] = "load"
    <2>1. CASE i = 1
      BY <1>3, <2>1
    <2>2. CASE i # 1
      BY <1>2, <2>2 DEF Ordered
    <2>. QED
      BY <2>1, <2>2
  <1>5. ASSUME NEW i \in 1..Len(t), NEW j \in i..Len(t)
        PROVE  /\ t[i] \in Acts => t[j] # "check"
               /\ t[i] = "write" => t[j] # "claim"
               /\ kind \notin LoadsFirst =>
                      /\ t[i] = "load" => t[j] # "check"
                      /\ t[i] \in {"write", "schedule"} => t[j] # "load"
    <2>1. CASE i = 1
      BY <1>3, <2>1
    <2>2. CASE i # 1
      BY <1>2, <2>2 DEF Ordered
    <2>. QED
      BY <2>1, <2>2
  <1>6. \A i \in 2..Len(t) : t[i] \notin Removes
    BY DEF Ordered
  <1>. QED
    BY <1>4, <1>5, <1>6 DEF Ordered

(* A step is done, and the rest of the command follows.                    *)
LEMMA ThenRest ==
    ASSUME TypeOK, cmd # Idle, Then(<< >>)
    PROVE  \/ cmd' = Idle
           \/ /\ cmd' = [cmd EXCEPT !.todo = Tail(cmd.todo)] /\ cmd' # Idle
              /\ Tail(cmd.todo) \in Seq(StepNames) /\ Tail(cmd.todo) # << >>
              /\ cmd'.todo = Tail(cmd.todo) /\ cmd'.pid = cmd.pid /\ cmd'.kind = cmd.kind
              /\ Len(cmd'.todo) = Len(cmd.todo) - 1 /\ Len(cmd.todo) \in Nat
              /\ \A i \in 1..Len(cmd'.todo) : cmd'.todo[i] = cmd.todo[i + 1]
  <1>1. /\ cmd \in [kind : AllKinds, todo : Seq(StepNames), pid : Pids \cup {Nobody}]
        /\ cmd.todo # << >>
    BY DEF TypeOK
  <1>2. Tail(cmd.todo) \in Seq(StepNames) /\ << >> \o Tail(cmd.todo) = Tail(cmd.todo)
    <2>1. Tail(cmd.todo) \in Seq(StepNames)
      BY <1>1
    <2>. QED
      BY <2>1, ConcatEmptySeq
  <1>3. cmd' = IF Tail(cmd.todo) = << >> THEN Idle ELSE [cmd EXCEPT !.todo = Tail(cmd.todo)]
    BY <1>2 DEF Then
  <1>4. CASE Tail(cmd.todo) # << >>
    <2>1. cmd' = [cmd EXCEPT !.todo = Tail(cmd.todo)]
      BY <1>3, <1>4
    <2>2. cmd'.todo = Tail(cmd.todo) /\ cmd'.pid = cmd.pid /\ cmd'.kind = cmd.kind
      BY <1>1, <2>1
    <2>3. cmd' # Idle
      <3>1. Idle.todo = << >>
        BY DEF Idle
      <3>. QED
        BY <1>4, <2>2, <3>1
    <2>. QED
      BY <1>1, <1>2, <1>4, <2>1, <2>2, <2>3
  <1>. QED
    BY <1>3, <1>4

(* A step is replaced by another.                                          *)
LEMMA ThenStep ==
    ASSUME TypeOK, cmd # Idle, NEW x \in StepNames, Then(<<x>>)
    PROVE  /\ cmd' # Idle /\ cmd'.todo # << >>
           /\ cmd' = [cmd EXCEPT !.todo = cmd'.todo]
           /\ cmd' \in [kind : AllKinds, todo : Seq(StepNames), pid : Pids \cup {Nobody}]
           /\ cmd'.pid = cmd.pid /\ cmd'.kind = cmd.kind
           /\ Len(cmd'.todo) = Len(cmd.todo) /\ cmd'.todo[1] = x /\ Head(cmd'.todo) = x
           /\ \A i \in 2..Len(cmd'.todo) : cmd'.todo[i] = cmd.todo[i]
  <1>1. /\ cmd \in [kind : AllKinds, todo : Seq(StepNames), pid : Pids \cup {Nobody}]
        /\ cmd.todo # << >>
    BY DEF TypeOK
  <1>. DEFINE first == <<x>>
  <1>. DEFINE rest == Tail(cmd.todo)
  <1>2. first \in Seq(StepNames) /\ Len(first) = 1 /\ first[1] = x
    OBVIOUS
  <1>3. /\ rest \in Seq(StepNames) /\ Len(rest) = Len(cmd.todo) - 1 /\ Len(cmd.todo) \in Nat \ {0}
        /\ \A i \in 1..Len(rest) : rest[i] = cmd.todo[i + 1]
    BY <1>1
  <1>4. cmd' = IF first \o rest = << >> THEN Idle ELSE [cmd EXCEPT !.todo = first \o rest]
    BY DEF Then
  <1>. HIDE DEF first, rest
  <1>5. /\ first \o rest \in Seq(StepNames)
        /\ Len(first \o rest) = Len(first) + Len(rest)
        /\ \A i \in 1..Len(first) + Len(rest) : (first \o rest)[i] =
               IF i <= Len(first) THEN first[i] ELSE rest[i - Len(first)]
    BY <1>2, <1>3, ConcatProperties, Zenon
  <1>. DEFINE new == first \o rest
  <1>6. /\ new \in Seq(StepNames) /\ Len(new) = Len(cmd.todo) /\ new # << >>
        /\ new[1] = x /\ Head(new) = x
        /\ \A i \in 2..Len(new) : new[i] = cmd.todo[i]
    <2>1. Len(new) = Len(cmd.todo) /\ new # << >>
      BY <1>2, <1>3, <1>5
    <2>2. new[1] = x
      BY <1>2, <1>3, <1>5
    <2>3. ASSUME NEW i \in 2..Len(new) PROVE new[i] = cmd.todo[i]
      <3>1. i - 1 \in 1..Len(rest) /\ ~(i <= Len(first)) /\ i \in 1..Len(first) + Len(rest)
        BY <1>2, <1>3, <1>5, <2>3
      <3>2. new[i] = rest[i - 1]
        BY <1>2, <1>5, <3>1
      <3>. QED
        BY <1>3, <3>1, <3>2
    <2>. QED
      BY <1>5, <2>1, <2>2, <2>3
  <1>. HIDE DEF new
  <1>7. cmd' = [cmd EXCEPT !.todo = new]
    BY <1>4, <1>6 DEF new
  <1>8. /\ cmd'.todo = new /\ cmd'.pid = cmd.pid /\ cmd'.kind = cmd.kind
        /\ cmd' \in [kind : AllKinds, todo : Seq(StepNames), pid : Pids \cup {Nobody}]
    BY <1>1, <1>6, <1>7
  <1>9. cmd' # Idle
    BY <1>6, <1>8 DEF Idle
  <1>. QED
    BY <1>6, <1>7, <1>8, <1>9

-----------------------------------------------------------------------------
(* The shape of the command, as TypeOK has it.                             *)
CommandOK ==
    \/ cmd = Idle
    \/ /\ cmd \in [kind : AllKinds, todo : Seq(StepNames), pid : Pids \cup {Nobody}]
       /\ cmd.todo # << >>
       /\ At("signal") => cmd.pid # Nobody

(* A step is done, or replaced by another.                                 *)
LEMMA ThenKeepsType ==
    ASSUME TypeOK, OrderedCommand, cmd # Idle,
           Then(<< >>) \/ \E x \in {"unlink", "clear", "exists", "poll"} :
                             Then(<<x>>) /\ (x \in ControlSteps => cmd.kind \in Control)
    PROVE  CommandOK' /\ OrderedCommand'
  <1>1. /\ cmd \in [kind : AllKinds, todo : Seq(StepNames), pid : Pids \cup {Nobody}]
        /\ cmd.todo \in Seq(StepNames)
    BY DEF TypeOK
  <1>2. CASE Then(<< >>)
    <2>1. CASE cmd' = Idle
      BY <2>1 DEF CommandOK, OrderedCommand
    <2>2. CASE cmd' # Idle
      <3>1. /\ cmd' = [cmd EXCEPT !.todo = Tail(cmd.todo)] /\ Tail(cmd.todo) \in Seq(StepNames)
            /\ cmd'.todo = Tail(cmd.todo) /\ cmd'.todo # << >> /\ cmd'.kind = cmd.kind
            /\ Len(cmd'.todo) = Len(cmd.todo) - 1
            /\ \A i \in 1..Len(cmd'.todo) : cmd'.todo[i] = cmd.todo[i + 1]
        BY <1>2, <2>2, ThenRest
      <3>2. cmd'.todo \in Seq(StepNames)
        BY <3>1
      <3>3. Ordered(cmd.kind, cmd'.todo) /\ \A i \in 1..Len(cmd'.todo) : cmd'.todo[i] \notin Removes
        BY <1>1, <3>1, <3>2, TailOrdered DEF OrderedCommand
      <3>4. Head(cmd'.todo) # "signal"
        <4>1. Head(cmd'.todo) = cmd'.todo[1] /\ 1 \in 1..Len(cmd'.todo)
          BY <3>1, <3>2
        <4>. QED
          BY <3>3, <4>1 DEF Removes
      <3>5. cmd' \in [kind : AllKinds, todo : Seq(StepNames), pid : Pids \cup {Nobody}]
        BY <1>1, <3>1
      <3>. QED
        BY <3>1, <3>3, <3>4, <3>5 DEF CommandOK, At, OrderedCommand
    <2>. QED
      BY <2>1, <2>2
  <1>3. ASSUME NEW x \in {"unlink", "clear", "exists", "poll"}, Then(<<x>>),
               x \in ControlSteps => cmd.kind \in Control
        PROVE  CommandOK' /\ OrderedCommand'
    <2>1. x \in StepNames
      BY DEF StepNames
    <2>2. /\ cmd' \in [kind : AllKinds, todo : Seq(StepNames), pid : Pids \cup {Nobody}]
          /\ cmd'.todo # << >> /\ Head(cmd'.todo) = x /\ Len(cmd'.todo) = Len(cmd.todo)
          /\ cmd'.todo[1] = x /\ cmd'.kind = cmd.kind
          /\ \A i \in 2..Len(cmd'.todo) : cmd'.todo[i] = cmd.todo[i]
      BY <1>3, <2>1, ThenStep
    <2>3. cmd'.todo \in Seq(StepNames)
      BY <2>2
    <2>4. x \notin Acts \cup {"check", "load"}
      BY DEF Acts
    <2>5. Ordered(cmd.kind, cmd'.todo)
      BY <1>1, <1>3, <2>2, <2>3, <2>4, StepOrdered DEF OrderedCommand
    <2>. QED
      BY <2>2, <2>5 DEF CommandOK, At, OrderedCommand
  <1>. QED
    BY <1>2, <1>3

(* A step of daemon stop or doctor is done by nothing else.                *)
LEMMA ControlStep ==
    ASSUME TypeOK, OrderedCommand, NEW x \in ControlSteps, At(x)
    PROVE  cmd.kind \in Control
  <1>1. cmd # Idle /\ cmd.todo \in Seq(StepNames) /\ cmd.todo # << >> /\ Head(cmd.todo) = x
    BY DEF At, TypeOK
  <1>2. 1 \in 1..Len(cmd.todo) /\ cmd.todo[1] = x
    BY <1>1
  <1>. QED
    BY <1>1, <1>2 DEF OrderedCommand, Ordered

LEMMA IdleIsOK ==
    ASSUME cmd' = Idle
    PROVE  CommandOK' /\ OrderedCommand'
  BY DEF CommandOK, OrderedCommand

(* The command stays well formed.                                          *)
LEMMA CommandKeepsType ==
    ASSUME TypeOK, OrderedCommand, Command
    PROVE  CommandOK' /\ OrderedCommand'
  <1>1. ASSUME NEW kind \in Kinds, Issue(kind) PROVE CommandOK' /\ OrderedCommand'
    <2>1. kind \in AllKinds
      BY BoardLockAssumption DEF BoardLockAssumption
    <2>2. PICK s \in StepsOf[kind] : cmd' = [kind |-> kind, todo |-> s, pid |-> Nobody]
      BY <1>1 DEF Issue
    <2>3. Issued(kind, s)
      BY <2>1, <2>2, IssuedSteps
    <2>4. /\ cmd'.todo = s /\ cmd'.kind = kind /\ s \in Seq(StepNames) /\ s # << >>
          /\ s[1] \notin Removes /\ Ordered(kind, s)
      BY <2>2, <2>3 DEF Issued
    <2>5. Head(s) # "signal"
      BY <2>4 DEF Removes
    <2>. QED
      BY <2>1, <2>2, <2>4, <2>5 DEF CommandOK, OrderedCommand, At
  <1>2. CASE Load \/ Clear \/ Unlink \/ Check \/ CheckClaim \/ Write
    <2>1. cmd # Idle /\ (cmd' = Idle \/ Then(<< >>) \/ Then(<<"unlink">>))
      BY <1>2 DEF Load, Clear, Unlink, Check, CheckClaim, Write, At
    <2>. QED
      BY <2>1, ThenKeepsType, IdleIsOK DEF ControlSteps
  <1>3. CASE Schedule
    <2>1. CASE cmd' = cmd
      BY <2>1 DEF TypeOK, CommandOK, OrderedCommand, At
    <2>2. CASE Then(<< >>)
      BY <1>3, <2>2, ThenKeepsType DEF Schedule, At
    <2>. QED
      BY <1>3, <2>1, <2>2 DEF Schedule
  <1>4. CASE Exists \/ Poll \/ Diagnose
    <2>1. cmd # Idle /\ (Then(<< >>) \/ Then(<<"unlink">>))
      BY <1>4 DEF Exists, Poll, Diagnose, At
    <2>. QED
      BY <2>1, ThenKeepsType DEF ControlSteps
  <1>5. CASE Status
    <2>1. cmd # Idle /\ cmd.kind \in Control
      BY <1>5, ControlStep DEF Status, ControlSteps, At
    <2>2. CASE Alive(Recorded) /\ cmd' = [cmd EXCEPT !.todo = <<"signal">>, !.pid = Recorded]
      <3>1. cmd \in [kind : AllKinds, todo : Seq(StepNames), pid : Pids \cup {Nobody}]
        BY <2>1 DEF TypeOK
      <3>2. Recorded \in Pids /\ Recorded # Nobody
        BY <2>2 DEF Alive, Recorded, TypeOK, LockFile
      <3>3. <<"signal">> \in Seq(StepNames) /\ Len(<<"signal">>) = 1 /\ <<"signal">> # << >>
        BY DEF StepNames
      <3>4. /\ cmd' \in [kind : AllKinds, todo : Seq(StepNames), pid : Pids \cup {Nobody}]
            /\ cmd'.todo = <<"signal">> /\ cmd'.pid # Nobody /\ cmd'.kind = cmd.kind
        BY <2>2, <3>1, <3>2, <3>3
      <3>5. Ordered(cmd.kind, <<"signal">>)
        BY <2>1 DEF Ordered, Acts
      <3>. QED
        BY <3>3, <3>4, <3>5 DEF CommandOK, OrderedCommand
    <2>3. CASE ~(Alive(Recorded) /\ cmd' = [cmd EXCEPT !.todo = <<"signal">>, !.pid = Recorded])
      <3>1. cmd' = Idle \/ Then(<<"exists">>) \/ Then(<<"clear">>)
        BY <1>5, <2>3 DEF Status
      <3>. QED
        BY <2>1, <3>1, ThenKeepsType, IdleIsOK
    <2>. QED
      BY <2>2, <2>3
  <1>6. CASE SendSignal
    <2>1. cmd # Idle /\ cmd.kind \in Control
      BY <1>6, ControlStep DEF SendSignal, ControlSteps, At
    <2>2. Then(<<"clear">>) \/ Then(<<"poll">>)
      BY <1>6 DEF SendSignal
    <2>. QED
      BY <2>1, <2>2, ThenKeepsType
  <1>. QED
    BY <1>1, <1>2, <1>3, <1>4, <1>5, <1>6 DEF Command

(* The other variables; W writes the card it has in memory.                *)
LEMMA WriteKeepsType ==
    ASSUME TypeOK, NEW w \in Pids \cup {Operator}, WriteCard(w)
    PROVE  rev' \in 0..MaxWrites /\ seen' \in [Pids \cup {Operator} -> 0..MaxWrites]
  <1>1. rev \in 0..MaxWrites /\ rev < MaxWrites /\ rev' = rev + 1
    BY DEF WriteCard, TypeOK
  <1>2. rev + 1 \in 0..MaxWrites
    BY <1>1, BoardLockAssumption DEF BoardLockAssumption
  <1>. QED
    BY <1>1, <1>2 DEF WriteCard, TypeOK

(* The other parts of TypeOK.                                              *)
Files ==
    /\ lock \in LockFile \cup {NoLock}
    /\ proc \in [Pids -> Phases]
    /\ stopping \in [Pids -> BOOLEAN]
    /\ disturbed \in BOOLEAN
    /\ later \subseteq Pids

Cards ==
    /\ rev \in 0..MaxWrites
    /\ seen \in [Pids \cup {Operator} -> 0..MaxWrites]
    /\ claimed \in BOOLEAN

LEMMA TypeParts == TypeOK = (Files /\ Cards /\ CommandOK)
  BY DEF TypeOK, Files, Cards, CommandOK

(* The phases a process may be in, by name.                                *)
LEMMA PhaseNames ==
    {"off", "unlinking", "creating", "created", "opening", "idle", "tick", "leaving",
     "exiting", "forced", "alien"} \subseteq Phases
  BY DEF Phases, Starting, Holding

(* Signals, daemons and commands leave a well-formed lock file.            *)
LEMMA SignalKeepsFiles ==
    ASSUME Files, NEW p \in Pids, Signalled(p), later' = later
    PROVE  Files'
  <1>1. CASE stopping' = [stopping EXCEPT ![p] = TRUE] /\ UNCHANGED <<lock, proc, disturbed>>
    BY <1>1 DEF Files
  <1>2. CASE Goto(p, "forced") /\ lock' = NoLock /\ disturbed' = TRUE /\ UNCHANGED stopping
    BY <1>2, PhaseNames DEF Files, Goto
  <1>3. CASE Goto(p, "off") /\ UNCHANGED <<lock, stopping, disturbed>>
    BY <1>3, PhaseNames DEF Files, Goto
  <1>. QED
    BY <1>1, <1>2, <1>3 DEF Signalled

LEMMA DaemonKeepsFiles ==
    ASSUME Files, NEW p \in Pids, Daemon(p) \/ Environment(p)
    PROVE  Files'
  <1>1. CASE Start(p)
    <2>1. /\ \E phase \in Phases : proc' = [proc EXCEPT ![p] = phase]
          /\ disturbed' \in BOOLEAN /\ UNCHANGED <<lock, stopping, later>>
      BY <1>1, PhaseNames DEF Start, Goto, DisturbedIf, Files
    <2>. QED
      BY <2>1 DEF Files
  <1>2. CASE Create(p)
    <2>1. [pid |-> p, written |-> FALSE] \in LockFile
      BY DEF LockFile
    <2>. QED
      BY <1>2, <2>1, PhaseNames DEF Create, Goto, Files, history
  <1>3. CASE WritePid(p)
    <2>1. lock' \in LockFile \cup {NoLock}
      BY <1>3 DEF WritePid, Files, LockFile
    <2>2. later' \subseteq Pids
      BY <1>3 DEF WritePid, Files
    <2>. QED
      BY <1>3, <2>1, <2>2, PhaseNames DEF WritePid, Goto, Files
  <1>4. CASE ClearStale(p) \/ Release(p) \/ Interrupt(p)
    BY <1>4, PhaseNames DEF ClearStale, Release, Interrupt, Goto, Gone, Files, history
  <1>5. CASE \/ OpenBoard(p) \/ BeginTick(p) \/ EndTick(p) \/ Return(p) \/ Exit(p)
             \/ Kill(p) \/ Reuse(p)
    <2>1. /\ \E phase \in Phases : proc' = [proc EXCEPT ![p] = phase]
          /\ stopping' \in {stopping, [stopping EXCEPT ![p] = FALSE]}
          /\ UNCHANGED <<lock, disturbed, later>>
      BY <1>5, PhaseNames
      DEF OpenBoard, BeginTick, EndTick, Return, Exit, Kill, Reuse, Goto, Gone, history
    <2>. QED
      BY <2>1 DEF Files
  <1>6. CASE Tick(p) \/ StopItself(p)
    BY <1>6 DEF Tick, StopItself, Files, history
  <1>7. CASE Signal(p)
    BY <1>7, SignalKeepsFiles DEF Signal
  <1>. QED
    BY <1>1, <1>2, <1>3, <1>4, <1>5, <1>6, <1>7 DEF Daemon, Environment

LEMMA CommandKeepsFiles ==
    ASSUME TypeOK, Command
    PROVE  Files'
  <1>1. Files
    BY TypeParts
  <1>2. CASE SendSignal
    <2>1. cmd.pid \in Pids /\ later' = later
      BY <1>2 DEF SendSignal, At, TypeOK
    <2>2. \/ Signalled(cmd.pid)
          \/ UNCHANGED <<lock, proc, stopping, disturbed>>
          \/ Gone(cmd.pid) /\ UNCHANGED <<lock, disturbed>>
      BY <1>2 DEF SendSignal
    <2>3. CASE UNCHANGED <<lock, proc, stopping, disturbed>>
      BY <1>1, <2>1, <2>3 DEF Files
    <2>4. CASE Gone(cmd.pid) /\ UNCHANGED <<lock, disturbed>>
      BY <1>1, <2>1, <2>4, PhaseNames DEF Files, Goto, Gone
    <2>. QED
      BY <1>1, <2>1, <2>2, <2>3, <2>4, SignalKeepsFiles
  <1>3. CASE ~SendSignal
    <2>1. /\ lock' \in {lock, NoLock} /\ UNCHANGED <<proc, stopping>>
          /\ disturbed' \in BOOLEAN /\ later' \in {later, {}}
      BY <1>1, <1>3 DEF Command, Issue, Load, Clear, Unlink, Check, CheckClaim, Write, Schedule,
         Status, Exists, Poll, Diagnose, DisturbedIf, history, Files
    <2>. QED
      BY <1>1, <2>1 DEF Files
  <1>. QED
    BY <1>2, <1>3

(* Every step leaves well-formed revisions.                                *)
LEMMA NextKeepsCards ==
    ASSUME TypeOK, Next
    PROVE  Cards'
  <1>1. /\ rev \in 0..MaxWrites /\ claimed \in BOOLEAN
        /\ seen \in [Pids \cup {Operator} -> 0..MaxWrites]
    BY DEF TypeOK
  <1>2. CASE Command
    <2>1. \/ UNCHANGED board
          \/ seen' = [seen EXCEPT ![Operator] = rev] /\ UNCHANGED <<rev, claimed>>
          \/ WriteCard(Operator) /\ UNCHANGED claimed
          \/ claimed' = ~claimed /\ UNCHANGED <<rev, seen>>
      BY <1>2 DEF Command, Issue, Load, Clear, Unlink, Check, CheckClaim, Write, Schedule, Status,
         Exists, SendSignal, Poll, Diagnose, board
    <2>. QED
      BY <1>1, <2>1, WriteKeepsType DEF Cards, board
  <1>3. ASSUME NEW p \in Pids, Daemon(p) \/ Environment(p) PROVE Cards'
    <2>1. \/ UNCHANGED board
          \/ seen' = [seen EXCEPT ![p] = rev] /\ UNCHANGED <<rev, claimed>>
          \/ WriteCard(p) /\ UNCHANGED claimed
          \/ claimed' = ~claimed /\ UNCHANGED <<rev, seen>>
      BY <1>3 DEF Daemon, Environment, Start, ClearStale, Create, WritePid, OpenBoard, BeginTick,
         Tick, EndTick, StopItself, Return, Release, Exit, Signal, Interrupt, Kill, Reuse, board
    <2>. QED
      BY <1>1, <2>1, WriteKeepsType DEF Cards, board
  <1>. QED
    BY <1>2, <1>3 DEF Next

(* The daemons do not touch the command.                                   *)
LEMMA DaemonsLeaveCommand ==
    ASSUME NEW p \in Pids, Daemon(p) \/ Environment(p)
    PROVE  cmd' = cmd
  BY DEF Daemon, Environment, Start, ClearStale, Create, WritePid, OpenBoard, BeginTick, Tick,
     EndTick, StopItself, Return, Release, Exit, Signal, Interrupt, Kill, Reuse

(* Types, inductively.                                                     *)
Typed == TypeOK /\ OrderedCommand

LEMMA TypedKeeps == Typed /\ [Next]_vars => Typed'
  <1>1. ASSUME Typed, Next PROVE Typed'
    <2>1. CASE Command
      <3>1. CommandOK' /\ OrderedCommand'
        BY <1>1, <2>1, CommandKeepsType DEF Typed
      <3>2. Files' /\ Cards'
        BY <1>1, <2>1, CommandKeepsFiles, NextKeepsCards DEF Typed
      <3>. QED
        BY <3>1, <3>2 DEF Typed, TypeOK, Files, Cards, CommandOK
    <2>2. ASSUME NEW p \in Pids, Daemon(p) \/ Environment(p) PROVE Typed'
      <3>1. Files' /\ Cards'
        BY <1>1, <2>2, TypeParts, DaemonKeepsFiles, NextKeepsCards DEF Typed
      <3>2. cmd' = cmd
        BY <2>2, DaemonsLeaveCommand
      <3>3. CommandOK' /\ OrderedCommand'
        BY <1>1, <3>2, TypeParts DEF Typed, CommandOK, OrderedCommand, At
      <3>. QED
        BY <3>1, <3>3 DEF Typed, TypeOK, Files, Cards, CommandOK
    <2>. QED
      BY <1>1, <2>1, <2>2 DEF Next
  <1>2. ASSUME Typed, UNCHANGED vars PROVE Typed'
    BY <1>2 DEF Typed, TypeOK, OrderedCommand, At, vars
  <1>. QED
    BY <1>1, <1>2

LEMMA AlwaysTyped == Spec => []Typed
  <1>1. Init => Typed
    <2>1. ASSUME Init PROVE Files /\ CommandOK /\ OrderedCommand
      BY <2>1, PhaseNames DEF Init, Files, CommandOK, OrderedCommand
    <2>2. ASSUME Init PROVE Cards
      <3>1. 0 \in 0..MaxWrites
        BY BoardLockAssumption DEF BoardLockAssumption
      <3>. QED
        BY <2>2, <3>1 DEF Init, Cards
    <2>. QED
      BY <2>1, <2>2, TypeParts DEF Typed
  <1>. QED
    BY <1>1, TypedKeeps, PTL DEF Spec

(* The lock file, the processes and the commands keep their shape.         *)
THEOREM TypeCorrect == Spec => []TypeOK
  <1>1. Typed => TypeOK
    BY DEF Typed
  <1>. QED
    BY <1>1, AlwaysTyped, PTL

-----------------------------------------------------------------------------
(* That the lock was disturbed is not forgotten.                           *)
LEMMA DisturbedStays == Next => (disturbed => disturbed')
  BY DEF Next, Daemon, Environment, Command, Start, ClearStale, Create, WritePid, OpenBoard,
     BeginTick, Tick, EndTick, StopItself, Return, Release, Exit, Signal, Signalled, Interrupt, Kill,
     Reuse, Issue, Load, Clear, Unlink, Check, CheckClaim, Write, Schedule, Status, Exists, SendSignal,
     Poll, Diagnose, DisturbedIf, history

(* No daemon has made the lock file that is there.                         *)
Vacant == \A p \in Pids : proc[p] \notin Holding \cup {"created"}

(* The lock file is that of the daemon that made it.                       *)
Owned ==
    \A p \in Pids :
        /\ proc[p] \in Holding => lock = [pid |-> p, written |-> TRUE]
        /\ proc[p] = "created" => lock = [pid |-> p, written |-> FALSE]

(* Who is about to remove a lock is alone with it: there is one, nobody    *)
(* has made it, and nobody else is about to remove it.                     *)
RemovesVacant ==
    /\ Cleaning => Vacant /\ lock # NoLock
    /\ \A p \in Pids : proc[p] = "unlinking" =>
           ~At("unlink") /\ \A q \in Pids : proc[q] = "unlinking" => q = p

(* daemon stop and doctor --fix run beside no start, and what stop is      *)
(* going to look for once more is nobody's.                                *)
ControlsAlone ==
    /\ cmd.kind \in Control => \A p \in Pids : proc[p] \notin Starting
    /\ At("exists") => Vacant

(* A command that has looked knows every daemon but the later ones.        *)
KnowsDaemons == Looked => \A p \in Pids : proc[p] \in Holding => p \in later

(* The inductive invariant, until the lock is disturbed.                   *)
LockInv == ~disturbed => Owned /\ RemovesVacant /\ ControlsAlone /\ KnowsDaemons

-----------------------------------------------------------------------------
LEMMA LockValues ==
    ASSUME NEW p \in Pids, NEW b \in BOOLEAN
    PROVE  /\ [pid |-> p, written |-> b] # NoLock
           /\ [pid |-> p, written |-> b].pid = p /\ [pid |-> p, written |-> b].written = b
  <1>1. [pid |-> p, written |-> b] \in LockFile
    BY DEF LockFile
  <1>. QED
    BY <1>1, NoLockAssumption DEF NoLockAssumption

(* There is one owner at most, and the lock file is there.                 *)
LEMMA OneOwner ==
    ASSUME Owned, NEW p \in Pids, proc[p] \in Holding \cup {"created"}
    PROVE  /\ lock # NoLock /\ lock.pid = p
           /\ \A q \in Pids : proc[q] \in Holding \cup {"created"} => q = p
  <1>1. ASSUME NEW q \in Pids, proc[q] \in Holding \cup {"created"}
        PROVE  lock # NoLock /\ lock.pid = q
    BY <1>1, LockValues DEF Owned
  <1>. QED
    BY <1>1

(* A lock that names no live process is that of no daemon at work, and of  *)
(* no daemon at all if it has been written or none is starting.            *)
LEMMA NoLiveLock ==
    ASSUME Owned, ~Alive(Recorded)
    PROVE  /\ \A p \in Pids : proc[p] \notin Holding
           /\ Recorded # Nobody => Vacant
           /\ (\A p \in Pids : proc[p] \notin Starting) => Vacant
  <1>1. ASSUME NEW p \in Pids, proc[p] \in Holding PROVE FALSE
    <2>1. lock = [pid |-> p, written |-> TRUE]
      BY <1>1 DEF Owned
    <2>2. Recorded = p
      BY <2>1, LockValues DEF Recorded
    <2>. QED
      BY <1>1, <2>2, BoardLockAssumption DEF Alive, Holding, BoardLockAssumption
  <1>2. ASSUME NEW p \in Pids, proc[p] = "created" PROVE Recorded = Nobody
    <2>1. lock = [pid |-> p, written |-> FALSE]
      BY <1>2 DEF Owned
    <2>. QED
      BY <2>1, LockValues DEF Recorded
  <1>. QED
    BY <1>1, <1>2 DEF Vacant, Starting

(* A daemon goes on, or leaves, with or without its lock.                  *)
LEMMA GoesOn ==
    ASSUME Owned, proc \in [Pids -> Phases], NEW p \in Pids, NEW phase,
           proc' = [proc EXCEPT ![p] = phase],
           phase \in Holding => proc[p] \in Holding, phase \notin Starting,
           lock' = lock \/ (lock' = NoLock /\ proc[p] \in Holding /\ phase \notin Holding)
    PROVE  /\ Owned'
           /\ Vacant => Vacant' /\ lock' = lock
           /\ \A q \in Pids : /\ proc'[q] \in Starting => proc'[q] = proc[q]
                              /\ proc'[q] \in Holding => proc[q] \in Holding
  <1>1. proc'[p] = phase /\ \A q \in Pids : q # p => proc'[q] = proc[q]
    OBVIOUS
  <1>2. \A q \in Pids : /\ proc'[q] \in Starting => proc'[q] = proc[q]
                        /\ proc'[q] \in Holding => proc[q] \in Holding
    BY <1>1
  <1>3. phase # "created"
    BY DEF Starting
  <1>4. Vacant => Vacant' /\ lock' = lock
    BY <1>1, <1>2, <1>3 DEF Vacant
  <1>5. CASE lock' = lock
    <2>1. Owned'
      BY <1>2, <1>1, <1>3, <1>5 DEF Owned
    <2>. QED
      BY <1>2, <1>4, <2>1
  <1>6. CASE lock' = NoLock /\ proc[p] \in Holding /\ phase \notin Holding
    <2>1. \A q \in Pids : proc[q] \in Holding \cup {"created"} => q = p
      BY <1>6, OneOwner
    <2>2. Vacant'
      BY <1>1, <1>3, <1>6, <2>1 DEF Vacant
    <2>. QED
      BY <1>2, <1>4, <2>2 DEF Owned, Vacant
  <1>. QED
    BY <1>2, <1>4, <1>5, <1>6

(* ... while the command waits.                                            *)
LEMMA CalmStep ==
    ASSUME Typed, LockInv, ~disturbed, NEW p \in Pids, NEW phase,
           proc' = [proc EXCEPT ![p] = phase],
           phase \in Holding => proc[p] \in Holding, phase \notin Starting,
           lock' = lock \/ (lock' = NoLock /\ proc[p] \in Holding /\ phase \notin Holding),
           cmd' = cmd, later' = later
    PROVE  LockInv'
  <1>1. /\ proc \in [Pids -> Phases] /\ Owned /\ RemovesVacant /\ ControlsAlone /\ KnowsDaemons
        /\ \A x : At(x)' = At(x)
    BY DEF Typed, TypeOK, LockInv, At
  <1>2. /\ Owned' /\ (Vacant => Vacant' /\ lock' = lock)
        /\ \A q \in Pids : /\ proc'[q] \in Starting => proc'[q] = proc[q]
                           /\ proc'[q] \in Holding => proc[q] \in Holding
    BY <1>1, GoesOn
  <1>3. RemovesVacant'
    <2>1. Cleaning' => Cleaning
      BY <1>1, <1>2 DEF Cleaning, Starting
    <2>. QED
      BY <1>1, <1>2, <2>1 DEF RemovesVacant, Starting
  <1>4. ControlsAlone'
    BY <1>1, <1>2 DEF ControlsAlone
  <1>5. KnowsDaemons'
    BY <1>1, <1>2 DEF KnowsDaemons, Looked
  <1>. QED
    BY <1>2, <1>3, <1>4, <1>5 DEF LockInv

(* The steps of daemons and of their environment keep the invariant.       *)
LEMMA DaemonKeepsLock ==
    ASSUME Typed, LockInv, ~disturbed, ~disturbed', NEW p \in Pids,
           Daemon(p) \/ Environment(p)
    PROVE  LockInv'
  <1>1. cmd' = cmd /\ (\A x : At(x)' = At(x)) /\ Looked' = Looked
    BY DaemonsLeaveCommand DEF At, Looked
  <1>2. proc \in [Pids -> Phases] /\ Owned /\ RemovesVacant /\ ControlsAlone /\ KnowsDaemons
    BY DEF Typed, TypeOK, LockInv
  <1>3. CASE Start(p)
    <2>1. PICK phase \in {"unlinking", "creating"} :
              /\ proc' = [proc EXCEPT ![p] = phase]
              /\ phase = "unlinking" => Stale
      BY <1>3 DEF Start, Goto
    <2>2. /\ lock' = lock /\ later' = later /\ proc[p] = "off"
          /\ cmd.kind \notin Control /\ ~(Stale /\ Cleaning)
      BY <1>3 DEF Start, DisturbedIf
    <2>3. proc'[p] = phase /\ \A q \in Pids : q # p => proc'[q] = proc[q]
      BY <1>2, <2>1
    <2>4. /\ \A q \in Pids : /\ proc'[q] \in Holding => proc[q] \in Holding
                             /\ proc'[q] = "created" => proc[q] = "created"
          /\ Vacant => Vacant'
      BY <2>1, <2>3 DEF Holding, Vacant
    <2>5. Owned'
      BY <1>2, <2>2, <2>4 DEF Owned
    <2>6. RemovesVacant'
      <3>1. CASE phase = "creating"
        <4>1. \A q \in Pids : proc'[q] = "unlinking" => proc[q] = "unlinking"
          BY <2>3, <3>1
        <4>. QED
          BY <1>1, <1>2, <2>2, <2>4, <4>1 DEF RemovesVacant, Cleaning
      <3>2. CASE phase = "unlinking"
        <4>1. Stale /\ ~Cleaning
          BY <2>1, <2>2, <3>2
        <4>2. Vacant /\ lock # NoLock
          BY <1>2, <4>1, NoLiveLock DEF Stale, Recorded
        <4>3. \A q \in Pids : proc'[q] = "unlinking" => q = p
          BY <2>3, <4>1 DEF Cleaning
        <4>. QED
          BY <1>1, <2>2, <2>4, <4>1, <4>2, <4>3 DEF RemovesVacant, Cleaning
      <3>. QED
        BY <3>1, <3>2
    <2>7. ControlsAlone'
      BY <1>1, <1>2, <2>2, <2>4 DEF ControlsAlone
    <2>8. KnowsDaemons'
      BY <1>1, <1>2, <2>2, <2>4 DEF KnowsDaemons
    <2>. QED
      BY <2>5, <2>6, <2>7, <2>8 DEF LockInv
  <1>4. CASE ClearStale(p)
    <2>1. /\ proc[p] = "unlinking" /\ lock' = NoLock /\ later' = later
          /\ proc' = [proc EXCEPT ![p] = "creating"]
      BY <1>4 DEF ClearStale, Goto, history
    <2>2. proc'[p] = "creating" /\ \A q \in Pids : q # p => proc'[q] = proc[q]
      BY <1>2, <2>1
    <2>3. /\ Vacant /\ ~At("unlink") /\ \A q \in Pids : proc[q] = "unlinking" => q = p
      BY <1>2, <2>1 DEF RemovesVacant, Cleaning
    <2>4. Vacant' /\ ~Cleaning'
      BY <1>1, <2>2, <2>3 DEF Vacant, Cleaning, Holding
    <2>5. Owned' /\ RemovesVacant' /\ KnowsDaemons'
      BY <2>4 DEF Owned, Vacant, RemovesVacant, KnowsDaemons, Cleaning
    <2>6. ControlsAlone'
      BY <1>1, <1>2, <2>1, <2>4 DEF ControlsAlone, Starting
    <2>. QED
      BY <2>5, <2>6 DEF LockInv
  <1>5. CASE Create(p) /\ lock = NoLock
    <2>1. /\ proc[p] = "creating" /\ lock' = [pid |-> p, written |-> FALSE] /\ later' = later
          /\ proc' = [proc EXCEPT ![p] = "created"]
      BY <1>5 DEF Create, Goto, history
    <2>2. proc'[p] = "created" /\ \A q \in Pids : q # p => proc'[q] = proc[q]
      BY <1>2, <2>1
    <2>3. Vacant
      BY <1>2, <1>5, OneOwner DEF Vacant
    <2>4. Owned' /\ KnowsDaemons'
      BY <2>1, <2>2, <2>3 DEF Vacant, Owned, KnowsDaemons, Holding
    <2>5. ~Cleaning
      BY <1>2, <1>5 DEF RemovesVacant
    <2>6. ~Cleaning'
      BY <1>1, <2>2, <2>5 DEF Cleaning
    <2>7. cmd.kind \notin Control
      BY <1>2, <2>1 DEF ControlsAlone, Starting
    <2>8. ~At("exists")
      BY <2>7, ControlStep DEF Typed, ControlSteps
    <2>9. RemovesVacant' /\ ControlsAlone'
      BY <1>1, <2>6, <2>7, <2>8 DEF RemovesVacant, ControlsAlone, Cleaning
    <2>. QED
      BY <2>4, <2>9 DEF LockInv
  <1>6. CASE WritePid(p)
    <2>1. /\ proc[p] = "created" /\ proc' = [proc EXCEPT ![p] = "opening"]
          /\ later' = IF Looked THEN later \cup {p} ELSE later \ {p}
      BY <1>6 DEF WritePid, Goto
    <2>2. proc'[p] = "opening" /\ \A q \in Pids : q # p => proc'[q] = proc[q]
      BY <1>2, <2>1
    <2>3. lock' = [pid |-> p, written |-> TRUE]
      <3>1. lock = [pid |-> p, written |-> FALSE] /\ lock # NoLock /\ lock.pid = p
        BY <1>2, <2>1, OneOwner DEF Owned
      <3>. QED
        BY <1>6, <3>1 DEF WritePid
    <2>4. \A q \in Pids : proc[q] \in Holding \cup {"created"} => q = p
      BY <1>2, <2>1, OneOwner
    <2>5. Owned'
      BY <2>2, <2>3, <2>4 DEF Owned
    <2>6. ~Vacant /\ ~Cleaning
      BY <1>2, <2>1 DEF Vacant, RemovesVacant
    <2>7. ~Cleaning'
      BY <1>1, <2>2, <2>6 DEF Cleaning
    <2>8. RemovesVacant' /\ ControlsAlone'
      <3>1. cmd.kind \notin Control /\ ~At("exists")
        BY <1>2, <2>1, <2>6 DEF ControlsAlone, Starting
      <3>. QED
        BY <1>1, <2>7, <3>1 DEF RemovesVacant, ControlsAlone, Cleaning
    <2>9. KnowsDaemons'
      BY <1>1, <1>2, <2>1, <2>2 DEF KnowsDaemons
    <2>. QED
      BY <2>5, <2>8, <2>9 DEF LockInv
  <1>7. ASSUME ~Start(p), ~ClearStale(p), ~(Create(p) /\ lock = NoLock), ~WritePid(p)
        PROVE  LockInv'
    <2>1. later' = later
      BY <1>7 DEF Daemon, Environment, Create, OpenBoard, BeginTick, Tick, EndTick, StopItself,
         Return, Release, Exit, Signal, Interrupt, Kill, Reuse, history
    <2>2. \/ proc' = proc /\ lock' = lock /\ proc[p] \notin Starting
          \/ (Goto(p, "off") \/ Goto(p, "alien")) /\ lock' = lock
          \/ proc[p] \in Holding /\ lock' = lock
             /\ \E phase \in {"idle", "tick", "leaving"} : Goto(p, phase)
          \/ proc[p] \in Holding /\ lock' = NoLock /\ (Goto(p, "off") \/ Goto(p, "exiting"))
      <3>1. CASE Create(p)
        BY <1>7, <3>1 DEF Create
      <3>2. CASE OpenBoard(p) \/ BeginTick(p) \/ EndTick(p) \/ Return(p) \/ Release(p)
        BY <3>2 DEF OpenBoard, BeginTick, EndTick, Return, Release, Holding
      <3>3. CASE Tick(p) \/ StopItself(p) \/ Exit(p) \/ Kill(p) \/ Reuse(p) \/ Interrupt(p)
        BY <3>3 DEF Tick, StopItself, Exit, Kill, Reuse, Interrupt, Gone, Starting, Holding
      <3>4. CASE Signal(p)
        BY <3>4 DEF Signal, Signalled, Holding, Handling, Starting
      <3>. QED
        BY <1>7, <3>1, <3>2, <3>3, <3>4 DEF Daemon, Environment
    <2>3. CASE proc' = proc /\ lock' = lock /\ proc[p] \notin Starting
      <3>1. proc' = [proc EXCEPT ![p] = proc[p]]
        BY <1>2, <2>3
      <3>. QED
        BY <1>1, <2>1, <2>3, <3>1, CalmStep
    <2>4. CASE (Goto(p, "off") \/ Goto(p, "alien")) /\ lock' = lock
      BY <1>1, <2>1, <2>4, CalmStep DEF Goto, Holding, Starting
    <2>5. CASE proc[p] \in Holding /\ lock' = lock
               /\ \E phase \in {"idle", "tick", "leaving"} : Goto(p, phase)
      <3>1. PICK phase \in {"idle", "tick", "leaving"} : Goto(p, phase)
        BY <2>5
      <3>. QED
        BY <1>1, <2>1, <2>5, <3>1, CalmStep DEF Goto, Starting
    <2>6. CASE proc[p] \in Holding /\ lock' = NoLock /\ (Goto(p, "off") \/ Goto(p, "exiting"))
      BY <1>1, <2>1, <2>6, CalmStep DEF Goto, Starting, Holding
    <2>. QED
      BY <2>2, <2>3, <2>4, <2>5, <2>6
  <1>. QED
    BY <1>3, <1>4, <1>5, <1>6, <1>7

-----------------------------------------------------------------------------
(* None of the steps that are left is x.                                   *)
Without(x) == \A i \in 1..Len(cmd.todo) : cmd.todo[i] # x

LEMMA LookedWithout == Looked = (cmd # Idle /\ cmd.kind \notin Control /\ Without("check"))
  BY DEF Looked, Without

(* A step that is gone was the first one, whatever took its place.         *)
LEMMA Shorter ==
    ASSUME Typed, cmd # Idle, cmd' # Idle, Then(<< >>) \/ \E x \in StepNames : Then(<<x>>)
    PROVE  /\ cmd'.kind = cmd.kind
           /\ \A y : Without(y)' => Head(cmd.todo) = y \/ Without(y)
  <1>1. TypeOK /\ cmd.todo \in Seq(StepNames) /\ cmd.todo # << >>
    BY DEF Typed, TypeOK
  <1>2. Head(cmd.todo) = cmd.todo[1] /\ Len(cmd.todo) \in Nat
    BY <1>1
  <1>3. CASE Then(<< >>)
    <2>1. /\ cmd'.kind = cmd.kind /\ Len(cmd'.todo) = Len(cmd.todo) - 1
          /\ \A i \in 1..Len(cmd'.todo) : cmd'.todo[i] = cmd.todo[i + 1]
      BY <1>1, <1>3, ThenRest
    <2>2. ASSUME NEW y, Without(y)', Head(cmd.todo) # y, NEW i \in 1..Len(cmd.todo)
          PROVE  cmd.todo[i] # y
      <3>1. CASE i = 1
        BY <1>2, <2>2, <3>1
      <3>2. CASE i # 1
        <4>1. i - 1 \in 1..Len(cmd'.todo) /\ (i - 1) + 1 = i
          BY <1>2, <2>1, <3>2
        <4>. QED
          BY <2>1, <2>2, <4>1 DEF Without
      <3>. QED
        BY <3>1, <3>2
    <2>. QED
      BY <2>1, <2>2 DEF Without
  <1>4. ASSUME NEW x \in StepNames, Then(<<x>>)
        PROVE  /\ cmd'.kind = cmd.kind
               /\ \A y : Without(y)' => Head(cmd.todo) = y \/ Without(y)
    <2>1. /\ cmd'.kind = cmd.kind /\ Len(cmd'.todo) = Len(cmd.todo)
          /\ \A i \in 2..Len(cmd'.todo) : cmd'.todo[i] = cmd.todo[i]
      BY <1>1, <1>4, ThenStep
    <2>2. ASSUME NEW y, Without(y)', Head(cmd.todo) # y, NEW i \in 1..Len(cmd.todo)
          PROVE  cmd.todo[i] # y
      <3>1. CASE i = 1
        BY <1>2, <2>2, <3>1
      <3>2. CASE i # 1
        <4>1. i \in 2..Len(cmd'.todo) /\ i \in 1..Len(cmd'.todo)
          BY <1>2, <2>1, <3>2
        <4>. QED
          BY <2>1, <2>2, <4>1 DEF Without
      <3>. QED
        BY <3>1, <3>2
    <2>. QED
      BY <2>1, <2>2 DEF Without
  <1>. QED
    BY <1>3, <1>4

(* What comes first then.                                                  *)
LEMMA FirstStep ==
    ASSUME Typed, cmd # Idle
    PROVE  /\ Then(<< >>) => \A r \in Removes : ~At(r)'
           /\ \A x \in StepNames : \A y : Then(<<x>>) /\ At(y)' => y = x
  <1>1. TypeOK /\ cmd.todo \in Seq(StepNames) /\ cmd.todo # << >> /\ Ordered(cmd.kind, cmd.todo)
    BY DEF Typed, TypeOK, OrderedCommand
  <1>2. ASSUME Then(<< >>), NEW r \in Removes, At(r)' PROVE FALSE
    <2>1. cmd' # Idle /\ Head(cmd'.todo) = r
      BY <1>2 DEF At
    <2>2. /\ cmd'.todo = Tail(cmd.todo) /\ Tail(cmd.todo) \in Seq(StepNames) /\ Tail(cmd.todo) # << >>
          /\ Len(cmd'.todo) = Len(cmd.todo) - 1
          /\ \A i \in 1..Len(cmd'.todo) : cmd'.todo[i] = cmd.todo[i + 1]
      BY <1>1, <1>2, <2>1, ThenRest
    <2>3. cmd'.todo \in Seq(StepNames) /\ 1 \in 1..Len(cmd'.todo) /\ Head(cmd'.todo) = cmd'.todo[1]
      BY <2>2
    <2>4. cmd'.todo[1] \notin Removes
      BY <1>1, <2>2, <2>3, TailOrdered
    <2>. QED
      BY <1>2, <2>1, <2>3, <2>4
  <1>3. ASSUME NEW x \in StepNames, NEW y, Then(<<x>>), At(y)' PROVE y = x
    BY <1>1, <1>3, ThenStep DEF At
  <1>. QED
    BY <1>2, <1>3

(* A command under way goes on with the same purpose; what it removes or   *)
(* looks for again it has just judged; what it has done it goes without.   *)
LEMMA CommandGoesOn ==
    ASSUME Typed, Command, ~\E kind \in Kinds : Issue(kind)
    PROVE  /\ cmd # Idle
           /\ cmd' # Idle => cmd'.kind = cmd.kind
           /\ At("unlink")' => \/ Clear /\ Stale
                               \/ Exists /\ lock # NoLock
                               \/ Poll /\ Stale
                               \/ Diagnose /\ lock # NoLock /\ ~Alive(Recorded)
           /\ At("exists")' => Status /\ Recorded = Nobody
           /\ \A y : cmd' # Idle /\ cmd.kind \notin Control /\ Without(y)' => At(y) \/ Without(y)
  <1>1. cmd # Idle
    BY DEF Command, Load, Clear, Unlink, Check, CheckClaim, Write, Schedule, Status, Exists,
       SendSignal, Poll, Diagnose, At
  <1>2. /\ {"unlink", "clear", "exists", "poll"} \subseteq StepNames
        /\ {"unlink", "exists"} \subseteq Removes
    BY DEF StepNames, Removes
  <1>3. CASE cmd' = cmd /\ Schedule
    BY <1>1, <1>3 DEF Schedule, At, Without
  <1>4. CASE cmd' = Idle
    BY <1>1, <1>4 DEF At
  <1>5. CASE Then(<< >>)
    BY <1>1, <1>2, <1>5, Shorter, FirstStep DEF At
  <1>6. CASE Then(<<"unlink">>) /\ (Clear \/ Exists \/ Poll \/ Diagnose)
    <2>1. \/ Clear /\ (Stale \/ Then(<< >>))
          \/ Exists /\ (lock # NoLock \/ Then(<< >>))
          \/ Poll /\ (Stale \/ Then(<< >>))
          \/ Diagnose /\ ((lock # NoLock /\ ~Alive(Recorded)) \/ Then(<< >>))
      BY <1>6 DEF Clear, Exists, Poll, Diagnose
    <2>2. ~Then(<< >>) => \/ Clear /\ Stale
                          \/ Exists /\ lock # NoLock
                          \/ Poll /\ Stale
                          \/ Diagnose /\ lock # NoLock /\ ~Alive(Recorded)
      BY <2>1
    <2>3. ~At("exists")'
      BY <1>1, <1>2, <1>6, FirstStep
    <2>4. cmd' # Idle => /\ cmd'.kind = cmd.kind
                         /\ \A y : Without(y)' => At(y) \/ Without(y)
      BY <1>1, <1>2, <1>6, Shorter DEF At
    <2>. QED
      BY <1>1, <1>5, <2>2, <2>3, <2>4
  <1>7. CASE Then(<<"clear">>) \/ Then(<<"poll">>)
    <2>1. ~At("exists")' /\ ~At("unlink")'
      BY <1>1, <1>2, <1>7, FirstStep
    <2>. QED
      BY <1>1, <1>2, <1>7, <2>1, Shorter DEF At
  <1>8. CASE Then(<<"exists">>) /\ Status /\ Recorded = Nobody
    <2>1. ~At("unlink")'
      BY <1>1, <1>2, <1>8, FirstStep
    <2>. QED
      BY <1>1, <1>2, <1>8, <2>1, Shorter DEF At
  <1>9. CASE cmd' = [cmd EXCEPT !.todo = <<"signal">>, !.pid = Recorded] /\ Status
    <2>1. cmd \in [kind : AllKinds, todo : Seq(StepNames), pid : Pids \cup {Nobody}]
      BY <1>1 DEF Typed, TypeOK
    <2>2. cmd'.kind = cmd.kind /\ cmd'.todo = <<"signal">>
      BY <1>9, <2>1
    <2>3. ~At("unlink")' /\ ~At("exists")'
      BY <2>2 DEF At
    <2>4. cmd.kind \in Control
      BY <1>9, ControlStep DEF Typed, Status, ControlSteps
    <2>. QED
      BY <1>1, <2>2, <2>3, <2>4
  <1>10. \/ cmd' = cmd /\ Schedule
         \/ cmd' = Idle
         \/ Then(<< >>)
         \/ Then(<<"unlink">>) /\ (Clear \/ Exists \/ Poll \/ Diagnose)
         \/ Then(<<"clear">>) \/ Then(<<"poll">>)
         \/ Then(<<"exists">>) /\ Status /\ Recorded = Nobody
         \/ cmd' = [cmd EXCEPT !.todo = <<"signal">>, !.pid = Recorded] /\ Status
    BY DEF Command, Load, Clear, Unlink, Check, CheckClaim, Write, Schedule, Status, Exists,
       SendSignal, Poll, Diagnose
  <1>. QED
    BY <1>3, <1>4, <1>5, <1>6, <1>7, <1>8, <1>9, <1>10

(* A command that has looked either had looked before, or found no live    *)
(* process in the lock just now.                                           *)
LEMMA LookedNow ==
    ASSUME Typed, Command, Looked'
    PROVE  /\ ~\E kind \in Kinds : Issue(kind)
           /\ cmd # Idle /\ cmd'.kind = cmd.kind /\ cmd.kind \notin Control
           /\ \/ Looked /\ ~At("check") /\ later' = later
              \/ Check /\ ~Alive(Recorded) /\ later' = {} /\ UNCHANGED <<lock, proc, board>>
  <1>1. cmd' # Idle /\ cmd'.kind \notin Control /\ Without("check")'
    BY LookedWithout DEF Looked, Without
  <1>2. ASSUME NEW kind \in Kinds, Issue(kind) PROVE FALSE
    <2>1. PICK s \in StepsOf[kind] : cmd' = [kind |-> kind, todo |-> s, pid |-> Nobody]
      BY <1>2 DEF Issue
    <2>2. Issued(kind, s) /\ cmd'.todo = s /\ cmd'.kind = kind
      BY <2>1, IssuedSteps, BoardLockAssumption DEF BoardLockAssumption
    <2>. QED
      BY <1>1, <2>2 DEF Issued, Without
  <1>3. /\ cmd # Idle /\ cmd'.kind = cmd.kind
        /\ At("check") \/ Without("check")
    BY <1>1, <1>2, CommandGoesOn
  <1>4. CASE At("check")
    <2>1. Check
      BY <1>2, <1>4 DEF Command, Load, Clear, Unlink, CheckClaim, Write, Schedule, Status, Exists,
         SendSignal, Poll, Diagnose, At
    <2>. QED
      BY <1>1, <1>2, <1>3, <2>1 DEF Check
  <1>5. CASE ~At("check")
    <2>1. later' = later
      BY <1>2, <1>5 DEF Command, Load, Clear, Unlink, Check, CheckClaim, Write, Schedule, Status,
         Exists, SendSignal, Poll, Diagnose, history
    <2>2. Looked
      BY <1>1, <1>3, <1>5, LookedWithout
    <2>. QED
      BY <1>1, <1>2, <1>3, <1>5, <2>1, <2>2
  <1>. QED
    BY <1>4, <1>5

(* Who the command of daemon stop signals leaves, or sets its stop event.  *)
LEMMA SignalGoesOn ==
    ASSUME Typed, ~disturbed', Owned, SendSignal
    PROVE  /\ Owned'
           /\ Vacant => Vacant' /\ lock' = lock
           /\ \A q \in Pids : /\ proc'[q] \in Starting => proc'[q] = proc[q]
                              /\ proc'[q] \in Holding => proc[q] \in Holding
  <1>1. cmd.pid \in Pids /\ proc \in [Pids -> Phases]
    BY DEF SendSignal, At, Typed, TypeOK
  <1>2. \/ proc' = proc /\ lock' = lock
        \/ Goto(cmd.pid, "off") /\ lock' = lock
    BY DEF SendSignal, Signalled, Gone, Holding
  <1>3. CASE proc' = proc /\ lock' = lock
    BY <1>3 DEF Owned, Vacant
  <1>4. CASE Goto(cmd.pid, "off")
    BY <1>1, <1>2, <1>3, <1>4, GoesOn DEF Goto, Holding, Starting
  <1>. QED
    BY <1>2, <1>3, <1>4

(* So do the steps of commands.                                            *)
LEMMA CommandKeepsLock ==
    ASSUME Typed, LockInv, ~disturbed, ~disturbed', Command
    PROVE  LockInv'
  <1>1. Owned /\ RemovesVacant /\ ControlsAlone /\ KnowsDaemons
    BY DEF LockInv
  <1>2. /\ Owned'
        /\ Vacant /\ ~Unlink => Vacant' /\ lock' = lock
        /\ Unlink => Vacant' /\ proc' = proc
        /\ \A q \in Pids : /\ proc'[q] \in Starting => proc'[q] = proc[q]
                           /\ proc'[q] \in Holding => proc[q] \in Holding
    <2>1. CASE SendSignal
      <3>1. ~Unlink
        BY <2>1 DEF SendSignal, Unlink, At
      <3>. QED
        BY <1>1, <2>1, <3>1, SignalGoesOn
    <2>2. CASE Unlink
      <3>1. Vacant /\ proc' = proc
        BY <1>1, <2>2 DEF Unlink, RemovesVacant, Cleaning
      <3>. QED
        BY <2>2, <3>1 DEF Vacant, Owned
    <2>3. ASSUME ~SendSignal, ~Unlink
          PROVE  proc' = proc /\ lock' = lock
      BY <2>3 DEF Command, Issue, Load, Clear, Check, CheckClaim, Write, Schedule, Status, Exists,
         Poll, Diagnose
    <2>4. CASE ~SendSignal /\ ~Unlink
      BY <1>1, <2>3, <2>4 DEF Owned, Vacant
    <2>. QED
      BY <2>1, <2>2, <2>4
  <1>3. KnowsDaemons'
    <2>1. SUFFICES ASSUME Looked', NEW p \in Pids, proc'[p] \in Holding PROVE p \in later'
      BY DEF KnowsDaemons
    <2>2. CASE Looked /\ later' = later
      BY <1>1, <1>2, <2>1, <2>2 DEF KnowsDaemons
    <2>3. CASE Check /\ ~Alive(Recorded)
      BY <1>1, <1>2, <2>1, <2>3, NoLiveLock
    <2>. QED
      BY <2>1, <2>2, <2>3, LookedNow
  <1>4. CASE \E kind \in Kinds : Issue(kind)
    <2>1. PICK kind \in Kinds : Issue(kind)
      BY <1>4
    <2>2. PICK s \in StepsOf[kind] : cmd' = [kind |-> kind, todo |-> s, pid |-> Nobody]
      BY <2>1 DEF Issue
    <2>3. Issued(kind, s) /\ cmd'.todo = s /\ cmd'.kind = kind
      BY <2>2, IssuedSteps, BoardLockAssumption DEF BoardLockAssumption
    <2>4. Head(s) \notin Removes
      BY <2>3 DEF Issued
    <2>5. ~At("unlink")' /\ ~At("exists")'
      BY <2>3, <2>4 DEF At, Removes
    <2>6. kind \in Control => \A p \in Pids : proc[p] \notin Starting
      BY <2>1 DEF Issue, DisturbedIf
    <2>7. proc' = proc /\ lock' = lock /\ Vacant' = Vacant
      BY <2>1 DEF Issue, Vacant
    <2>8. RemovesVacant' /\ ControlsAlone'
      BY <1>1, <2>3, <2>5, <2>6, <2>7 DEF RemovesVacant, ControlsAlone, Cleaning
    <2>. QED
      BY <1>2, <1>3, <2>8 DEF LockInv
  <1>5. CASE ~\E kind \in Kinds : Issue(kind)
    <2>1. /\ cmd # Idle
          /\ cmd' # Idle => cmd'.kind = cmd.kind
          /\ At("unlink")' => \/ Clear /\ Stale
                              \/ Exists /\ lock # NoLock
                              \/ Poll /\ Stale
                              \/ Diagnose /\ lock # NoLock /\ ~Alive(Recorded)
          /\ At("exists")' => Status /\ Recorded = Nobody
      BY <1>5, CommandGoesOn
    <2>2. ASSUME At("unlink")' PROVE Vacant /\ lock # NoLock /\ \A q \in Pids : proc[q] # "unlinking"
      <3>1. CASE Clear /\ Stale
        <4>1. ~Cleaning
          BY <3>1 DEF Clear, DisturbedIf
        <4>. QED
          BY <1>1, <3>1, <4>1, NoLiveLock DEF Stale, Recorded, Cleaning
      <3>2. CASE Exists \/ Poll \/ Diagnose
        <4>1. cmd.kind \in Control
          BY <3>2, ControlStep DEF Typed, Exists, Poll, Diagnose, ControlSteps
        <4>2. \A q \in Pids : proc[q] \notin Starting
          BY <1>1, <4>1 DEF ControlsAlone
        <4>3. Exists => Vacant
          BY <1>1 DEF ControlsAlone, Exists
        <4>4. ~Exists => ~Alive(Recorded)
          BY <2>1, <2>2 DEF Stale, Clear, Poll, Diagnose, Exists, At
        <4>5. lock # NoLock
          BY <2>1, <2>2 DEF Stale, Recorded
        <4>. QED
          BY <1>1, <4>2, <4>3, <4>4, <4>5, NoLiveLock DEF Starting
      <3>. QED
        BY <2>1, <2>2, <3>1, <3>2
    <2>3. ASSUME At("exists")' PROVE Vacant
      <3>1. Status /\ ~Alive(Recorded) /\ cmd.kind \in Control
        BY <2>1, <2>3, ControlStep DEF Typed, Status, ControlSteps, Alive
      <3>. QED
        BY <1>1, <3>1, NoLiveLock DEF ControlsAlone
    <2>4. At("unlink")' \/ At("exists")' => ~Unlink
      BY <2>1 DEF Clear, Exists, Poll, Diagnose, Status, Unlink, At
    <2>5. RemovesVacant'
      <3>1. CASE At("unlink")'
        <4>1. /\ Vacant' /\ lock' # NoLock /\ \A q \in Pids : proc'[q] # "unlinking"
          BY <1>2, <2>2, <2>4, <3>1 DEF Starting
        <4>. QED
          BY <4>1 DEF RemovesVacant
      <3>2. CASE ~At("unlink")'
        <4>1. \A q \in Pids : proc'[q] = "unlinking" => proc[q] = "unlinking"
          BY <1>2 DEF Starting
        <4>2. ASSUME NEW q \in Pids, proc'[q] = "unlinking"
              PROVE  Vacant' /\ lock' # NoLock /\ \A r \in Pids : proc'[r] = "unlinking" => r = q
          <5>1. /\ Vacant /\ lock # NoLock /\ ~At("unlink")
                /\ \A r \in Pids : proc[r] = "unlinking" => r = q
            BY <1>1, <4>1, <4>2 DEF RemovesVacant, Cleaning
          <5>2. ~Unlink
            BY <5>1 DEF Unlink
          <5>. QED
            BY <1>2, <4>1, <5>1, <5>2
        <4>. QED
          BY <3>2, <4>2 DEF RemovesVacant, Cleaning
      <3>. QED
        BY <3>1, <3>2
    <2>6. ControlsAlone'
      <3>1. cmd'.kind \in Control => cmd.kind \in Control
        BY <2>1 DEF Idle, Control
      <3>2. cmd'.kind \in Control => \A p \in Pids : proc'[p] \notin Starting
        BY <1>1, <1>2, <3>1 DEF ControlsAlone
      <3>3. At("exists")' => Vacant'
        BY <1>2, <2>3, <2>4
      <3>. QED
        BY <3>2, <3>3 DEF ControlsAlone
    <2>. QED
      BY <1>2, <1>3, <2>5, <2>6 DEF LockInv
  <1>. QED
    BY <1>4, <1>5

LEMMA LockKeeps == Typed /\ LockInv /\ [Next]_vars => LockInv'
  <1>1. ASSUME Typed, LockInv, Next PROVE LockInv'
    <2>1. CASE disturbed'
      BY <2>1 DEF LockInv
    <2>2. CASE ~disturbed'
      <3>1. ~disturbed
        BY <1>1, <2>2, DisturbedStays
      <3>. QED
        BY <1>1, <2>2, <3>1, DaemonKeepsLock, CommandKeepsLock DEF Next
    <2>. QED
      BY <2>1, <2>2
  <1>2. ASSUME LockInv, UNCHANGED vars PROVE LockInv'
    BY <1>2 DEF LockInv, Owned, RemovesVacant, ControlsAlone, KnowsDaemons, Vacant, Cleaning, At,
       Looked, vars
  <1>. QED
    BY <1>1, <1>2

LEMMA AlwaysLock == Spec => [](Typed /\ LockInv)
  <1>1. Init => LockInv
    BY DEF Init, LockInv, Owned, RemovesVacant, ControlsAlone, KnowsDaemons, Vacant, Cleaning, At,
       Looked, Idle, Control, Holding, Starting
  <1>. QED
    BY <1>1, LockKeeps, AlwaysTyped, PTL DEF Spec

(* However starts interleave with each other and with commands, and        *)
(* whatever stale locks, kills, signals and reused pids there are, every   *)
(* daemon at work has its lock on disk, until a second signal forces a     *)
(* daemon out, two clean-ups of a stale lock cross, or a daemon starts     *)
(* beside daemon stop or doctor --fix.                                     *)
THEOREM LockIsHeld == Spec => []LockHeld
  <1>1. LockInv => LockHeld
    BY DEF LockInv, Owned, LockHeld
  <1>. QED
    BY <1>1, AlwaysLock, PTL

(* A set without two elements.                                             *)
LEMMA AtMostOne ==
    ASSUME NEW S, \A x, y \in S : x = y
    PROVE  Cardinality(S) <= 1
  <1>1. CASE S = {}
    BY <1>1, FS_EmptySet
  <1>2. CASE S # {}
    <2>1. PICK x \in S : S = {x}
      BY <1>2
    <2>. QED
      BY <2>1, FS_Singleton
  <1>. QED
    BY <1>1, <1>2

(* A command that acts has looked, and knows the daemons at work.          *)
LEMMA ActsKnow ==
    ASSUME Typed, LockInv, ~disturbed, NEW x \in Acts, At(x)
    PROVE  Looked /\ Working \subseteq later
  <1>1. cmd # Idle /\ cmd.todo \in Seq(StepNames) /\ cmd.todo # << >> /\ Head(cmd.todo) = x
    BY DEF At, Typed, TypeOK
  <1>2. 1 \in 1..Len(cmd.todo) /\ cmd.todo[1] = x
    BY <1>1
  <1>3. Looked
    BY <1>1, <1>2 DEF Typed, OrderedCommand, Ordered, Looked
  <1>. QED
    BY <1>3 DEF LockInv, KnowsDaemons, Working, Holding

(* ... and two daemons never schedule, nor kanban run beside a daemon but  *)
(* one that took the lock after the command had looked.                    *)
THEOREM SingleScheduler == Spec => []OneScheduler
  <1>1. ASSUME Typed, LockInv PROVE OneScheduler
    <2>1. SUFFICES ASSUME ~disturbed
                   PROVE  Cardinality(Working) <= 1 /\ (At("schedule") => Working \subseteq later)
      BY DEF OneScheduler
    <2>2. \A p, q \in Working : p = q
      BY <1>1, <2>1, OneOwner DEF LockInv, Working, Holding
    <2>3. At("schedule") => Working \subseteq later
      BY <1>1, <2>1, ActsKnow DEF Acts
    <2>. QED
      BY <2>2, <2>3, AtMostOne
  <1>. QED
    BY <1>1, AlwaysLock, PTL

-----------------------------------------------------------------------------
(* The command has looked at the lock, and done step x since.              *)
Past(x) == Looked /\ Without(x)

(* What the command found holds, or a later daemon has changed it: the     *)
(* card has no claim, and the command has the card as it is.               *)
ClaimKnown == Past("claim") /\ cmd.kind \in Claiming => ~claimed \/ later # {}
CardKnown == Past("load") /\ cmd.kind \notin LoadsFirst => seen[Operator] = rev \/ later # {}

(* A daemon in a tick has the card as it is, or a command that looked      *)
(* before the daemon took the lock has written it since.                   *)
TicksCurrent == \A p \in Pids : proc[p] = "tick" => seen[p] = rev \/ p \in later

(* A daemon is forced out only by a second signal.                         *)
ForcedOut == \A p \in Pids : proc[p] = "forced" => disturbed

(* The inductive invariant of the action properties, on top of LockInv.    *)
BoardInv == ForcedOut /\ (~disturbed => ClaimKnown /\ CardKnown /\ TicksCurrent)

(* Only a second signal forces a daemon out.                               *)
LEMMA ForcedKeeps ==
    ASSUME Typed, ForcedOut, Next
    PROVE  ForcedOut'
  <1>1. proc \in [Pids -> Phases]
    BY DEF Typed, TypeOK
  <1>2. \/ disturbed'
        \/ proc' = proc
        \/ \E p \in Pids, phase \in Phases \ {"forced"} : Goto(p, phase)
    <2>1. ASSUME NEW p \in Pids, Signalled(p)
          PROVE  disturbed' \/ proc' = proc \/ Goto(p, "off")
      BY <2>1 DEF Signalled
    <2>2. CASE Command
      <3>1. SendSignal => cmd.pid \in Pids
        BY DEF SendSignal, At, Typed, TypeOK
      <3>2. CASE SendSignal
        BY <2>1, <3>1, <3>2, PhaseNames DEF SendSignal, Gone
      <3>3. CASE ~SendSignal
        BY <2>2, <3>3 DEF Command, Issue, Load, Clear, Unlink, Check, CheckClaim, Write, Schedule,
           Status, Exists, Poll, Diagnose
      <3>. QED
        BY <3>2, <3>3
    <2>3. ASSUME NEW p \in Pids, Daemon(p)
          PROVE  proc' = proc \/ \E phase \in Phases \ {"forced"} : Goto(p, phase)
      BY <2>3, PhaseNames DEF Daemon, Start, ClearStale, Create, WritePid, OpenBoard, BeginTick,
         Tick, EndTick, StopItself, Return, Release, Exit, Gone
    <2>4. ASSUME NEW p \in Pids, Environment(p)
          PROVE  disturbed' \/ proc' = proc \/ \E phase \in Phases \ {"forced"} : Goto(p, phase)
      BY <2>1, <2>4, PhaseNames DEF Environment, Signal, Interrupt, Kill, Reuse, Gone
    <2>. QED
      BY <2>2, <2>3, <2>4 DEF Next
  <1>. QED
    BY <1>1, <1>2, DisturbedStays DEF ForcedOut, Goto

(* What a daemon changes, a command that has looked knows of or a later    *)
(* daemon has done.                                                        *)
LEMMA DaemonKeepsBoard ==
    ASSUME Typed, LockInv, BoardInv, ~disturbed, ~disturbed', NEW p \in Pids,
           Daemon(p) \/ Environment(p)
    PROVE  ClaimKnown' /\ CardKnown' /\ TicksCurrent'
  <1>1. /\ proc \in [Pids -> Phases] /\ seen \in [Pids \cup {Operator} -> 0..MaxWrites]
        /\ Operator \notin Pids /\ Owned /\ KnowsDaemons
        /\ ClaimKnown /\ CardKnown /\ TicksCurrent /\ \A q \in Pids : proc[q] # "forced"
    BY BoardLockAssumption DEF Typed, TypeOK, BoardLockAssumption, LockInv, BoardInv, ForcedOut
  <1>2. cmd' = cmd /\ Looked' = Looked /\ \A x : Without(x)' = Without(x)
    BY DaemonsLeaveCommand DEF Looked, Without
  <1>3. CASE Tick(p)
    <2>1. /\ proc[p] = "tick" /\ proc' = proc /\ later' = later
          /\ \/ WriteCard(p) /\ claimed' = claimed
             \/ UNCHANGED <<rev, seen>>
      BY <1>1, <1>3 DEF Tick, history
    <2>2. Looked => later # {}
      BY <1>1, <2>1 DEF KnowsDaemons, Holding
    <2>3. ClaimKnown' /\ CardKnown'
      BY <1>2, <2>1, <2>2 DEF ClaimKnown, CardKnown, Past
    <2>4. \A q \in Pids : proc[q] = "tick" => q = p
      BY <1>1, <2>1, OneOwner DEF Holding
    <2>5. TicksCurrent'
      BY <1>1, <2>1, <2>4 DEF TicksCurrent, WriteCard
    <2>. QED
      BY <2>3, <2>5
  <1>4. CASE ~Tick(p)
    <2>1. /\ UNCHANGED <<rev, claimed>>
          /\ \/ UNCHANGED <<seen, later>>
                /\ (proc' = proc \/ \E phase \in Phases \ {"tick"} : Goto(p, phase))
             \/ BeginTick(p) /\ seen' = [seen EXCEPT ![p] = rev] /\ Goto(p, "tick") /\ later' = later
             \/ OpenBoard(p) /\ seen' = [seen EXCEPT ![p] = rev] /\ Goto(p, "idle") /\ later' = later
             \/ /\ seen' = seen /\ Goto(p, "opening")
                /\ later' = IF Looked THEN later \cup {p} ELSE later \ {p}
      <3>1. CASE Environment(p)
        BY <3>1, PhaseNames
        DEF Environment, Signal, Signalled, Interrupt, Kill, Reuse, Gone, board, history
      <3>2. CASE Start(p) \/ ClearStale(p) \/ Create(p) \/ EndTick(p) \/ StopItself(p)
                 \/ Return(p) \/ Release(p) \/ Exit(p)
        BY <3>2, PhaseNames DEF Start, ClearStale, Create, EndTick, StopItself, Return, Release,
           Exit, Gone, board, history
      <3>3. CASE BeginTick(p) \/ OpenBoard(p) \/ WritePid(p)
        BY <3>3 DEF BeginTick, OpenBoard, WritePid, board, history
      <3>. QED
        BY <1>4, <3>1, <3>2, <3>3 DEF Daemon
    <2>2. seen'[Operator] = seen[Operator] /\ (Looked /\ later # {} => later' # {})
      BY <1>1, <2>1
    <2>3. ClaimKnown' /\ CardKnown'
      BY <1>1, <1>2, <2>1, <2>2 DEF ClaimKnown, CardKnown, Past
    <2>4. TicksCurrent'
      BY <1>1, <2>1 DEF TicksCurrent, Goto
    <2>. QED
      BY <2>3, <2>4
  <1>. QED
    BY <1>3, <1>4

(* The step a command has come to.                                         *)
LEMMA FirstInOrder ==
    ASSUME Typed, NEW x, At(x)
    PROVE  /\ x \in Acts => cmd.kind \notin Control /\ Without("check")
           /\ x = "schedule" => cmd.kind = "run"
           /\ x = "write" => cmd.kind # "run" /\ Without("claim")
           /\ x \in {"write", "schedule"} /\ cmd.kind \notin LoadsFirst => Without("load")
           /\ x = "check" /\ cmd.kind \in Claiming => ~Without("claim")
           /\ x = "check" /\ cmd.kind \notin LoadsFirst => ~Without("load")
  <1>1. /\ cmd # Idle /\ cmd.todo \in Seq(StepNames) /\ cmd.todo # << >> /\ Head(cmd.todo) = x
        /\ Ordered(cmd.kind, cmd.todo)
    BY DEF At, Typed, TypeOK, OrderedCommand
  <1>2. 1 \in 1..Len(cmd.todo) /\ cmd.todo[1] = x
    BY <1>1
  <1>. QED
    BY <1>1, <1>2 DEF Ordered, Without, Acts

(* The steps of the command: nobody but later daemons works on the board.  *)
LEMMA CommandKeepsBoard ==
    ASSUME Typed, LockInv, BoardInv, ~disturbed, ~disturbed', Command
    PROVE  ClaimKnown' /\ CardKnown' /\ TicksCurrent'
  <1>1. /\ proc \in [Pids -> Phases] /\ seen \in [Pids \cup {Operator} -> 0..MaxWrites]
        /\ Operator \notin Pids /\ Owned /\ KnowsDaemons
        /\ ClaimKnown /\ CardKnown /\ TicksCurrent
    BY BoardLockAssumption DEF Typed, TypeOK, BoardLockAssumption, LockInv, BoardInv
  <1>2. \A p \in Pids : proc'[p] = "tick" => proc[p] = "tick"
    <2>1. CASE SendSignal
      BY <1>1, <2>1, SignalGoesOn DEF SendSignal, Signalled, Gone, Goto, At, Typed, TypeOK
    <2>2. CASE ~SendSignal
      BY <2>2 DEF Command, Issue, Load, Clear, Unlink, Check, CheckClaim, Write, Schedule, Status,
         Exists, Poll, Diagnose
    <2>. QED
      BY <2>1, <2>2
  <1>3. \/ UNCHANGED board
        \/ Load /\ seen' = [seen EXCEPT ![Operator] = rev] /\ UNCHANGED <<rev, claimed>>
        \/ (Write \/ Schedule) /\ WriteCard(Operator) /\ claimed' = claimed
        \/ Schedule /\ UNCHANGED <<rev, seen>>
    BY DEF Command, Issue, Load, Clear, Unlink, Check, CheckClaim, Write, Schedule, Status, Exists,
       SendSignal, Poll, Diagnose, board
  <1>4. TicksCurrent'
    <2>1. later' = later \/ (Check /\ ~Alive(Recorded) /\ UNCHANGED proc)
      BY DEF Command, Issue, Load, Clear, Unlink, Check, CheckClaim, Write, Schedule, Status,
         Exists, SendSignal, Poll, Diagnose, history
    <2>2. CASE Check /\ ~Alive(Recorded) /\ UNCHANGED proc
      <3>1. \A p \in Pids : proc[p] # "tick"
        BY <1>1, <2>2, NoLiveLock DEF Holding
      <3>. QED
        BY <1>2, <3>1 DEF TicksCurrent
    <2>3. CASE later' = later /\ (Write \/ Schedule)
      <3>1. Working \subseteq later
        BY <2>3, ActsKnow DEF Write, Schedule, Acts
      <3>. QED
        BY <1>2, <2>3, <3>1 DEF TicksCurrent, Working
    <2>4. CASE later' = later /\ ~(Write \/ Schedule)
      BY <1>1, <1>2, <1>3, <2>4 DEF TicksCurrent, board
    <2>. QED
      BY <2>1, <2>2, <2>3, <2>4
  <1>5. ClaimKnown'
    <2>1. SUFFICES ASSUME Looked', Without("claim")', cmd'.kind \in Claiming
                   PROVE  ~claimed' \/ later' # {}
      BY DEF ClaimKnown, Past
    <2>2. /\ ~\E kind \in Kinds : Issue(kind)
          /\ cmd # Idle /\ cmd' # Idle /\ cmd'.kind = cmd.kind /\ cmd.kind \notin Control
          /\ \/ Looked /\ ~At("check") /\ later' = later
             \/ Check
      BY <2>1, LookedNow DEF Looked
    <2>3. At("claim") \/ Without("claim")
      BY <2>1, <2>2, CommandGoesOn
    <2>4. ~Check
      BY <2>1, <2>2, <2>3, FirstInOrder DEF Check, At
    <2>5. ~Schedule
      BY <2>1, <2>2, FirstInOrder DEF Schedule, Claiming
    <2>6. claimed' = claimed
      BY <1>3, <2>5 DEF board
    <2>7. CASE At("claim")
      <3>1. CheckClaim
        BY <2>2, <2>7 DEF Command, Load, Clear, Unlink, Check, Write, Schedule, Status, Exists,
           SendSignal, Poll, Diagnose, At
      <3>. QED
        BY <2>2, <2>6, <3>1 DEF CheckClaim
    <2>8. CASE Without("claim")
      BY <1>1, <2>1, <2>2, <2>4, <2>6, <2>8 DEF ClaimKnown, Past
    <2>. QED
      BY <2>3, <2>7, <2>8
  <1>6. CardKnown'
    <2>1. SUFFICES ASSUME Looked', Without("load")', cmd'.kind \notin LoadsFirst
                   PROVE  seen'[Operator] = rev' \/ later' # {}
      BY DEF CardKnown, Past
    <2>2. /\ ~\E kind \in Kinds : Issue(kind)
          /\ cmd # Idle /\ cmd' # Idle /\ cmd'.kind = cmd.kind /\ cmd.kind \notin Control
          /\ \/ Looked /\ ~At("check") /\ later' = later
             \/ Check
      BY <2>1, LookedNow DEF Looked
    <2>3. At("load") \/ Without("load")
      BY <2>1, <2>2, CommandGoesOn
    <2>4. ~Check
      BY <2>1, <2>2, <2>3, FirstInOrder DEF Check, At
    <2>5. CASE Load \/ WriteCard(Operator)
      BY <1>1, <2>5 DEF Load, WriteCard
    <2>6. CASE ~Load /\ ~WriteCard(Operator)
      <3>1. ~At("load")
        BY <2>2, <2>6 DEF Command, Clear, Unlink, Check, CheckClaim, Write, Schedule, Status,
           Exists, SendSignal, Poll, Diagnose, At
      <3>2. UNCHANGED <<rev, seen>>
        BY <1>3, <2>6 DEF board
      <3>. QED
        BY <1>1, <2>1, <2>2, <2>3, <2>4, <3>1, <3>2 DEF CardKnown, Past
    <2>. QED
      BY <2>5, <2>6
  <1>. QED
    BY <1>4, <1>5, <1>6

LEMMA AlwaysBoard == Spec => [](Typed /\ LockInv /\ BoardInv)
  <1>1. Init => BoardInv
    BY DEF Init, BoardInv, ForcedOut, ClaimKnown, CardKnown, TicksCurrent, Past, Looked
  <1>2. Typed /\ LockInv /\ BoardInv /\ [Next]_vars => BoardInv'
    <2>1. ASSUME Typed, LockInv, BoardInv, Next PROVE BoardInv'
      <3>1. ForcedOut'
        BY <2>1, ForcedKeeps DEF BoardInv
      <3>2. ASSUME ~disturbed' PROVE ClaimKnown' /\ CardKnown' /\ TicksCurrent'
        BY <2>1, <3>2, DisturbedStays, DaemonKeepsBoard, CommandKeepsBoard DEF Next
      <3>. QED
        BY <3>1, <3>2 DEF BoardInv
    <2>2. ASSUME BoardInv, UNCHANGED vars PROVE BoardInv'
      BY <2>2 DEF BoardInv, ForcedOut, ClaimKnown, CardKnown, TicksCurrent, Past, Looked, Without,
         vars
    <2>. QED
      BY <2>1, <2>2
  <1>. QED
    BY <1>1, <1>2, AlwaysLock, PTL DEF Spec

(* An operator's change goes to a board a daemon works on, or (but for     *)
(* prune) to a claimed card, only if a daemon took the lock after the      *)
(* command had looked at it, although the command looks at the lock and at *)
(* the claim some steps before it writes.                                  *)
THEOREM WritesAreGuarded == Spec => GuardedWrites
  <1>1. ASSUME Typed, LockInv, BoardInv, At("write"), ~disturbed
        PROVE  Working \subseteq later /\ (claimed => (cmd.kind = "prune" \/ later # {}))
    <2>1. Looked /\ Working \subseteq later
      BY <1>1, ActsKnow DEF Acts
    <2>2. cmd.kind # "run" /\ Without("claim") /\ cmd.kind \notin Control /\ cmd # Idle
      BY <1>1, FirstInOrder DEF Acts, At
    <2>3. cmd.kind \in Claiming \cup {"prune"}
      BY <1>1, <2>2 DEF Typed, TypeOK, AllKinds, Claiming, Control
    <2>. QED
      BY <1>1, <2>1, <2>2, <2>3 DEF BoardInv, ClaimKnown, Past
  <1>2. Typed /\ LockInv /\ BoardInv /\ [Next]_vars =>
            [ At("write") /\ rev' # rev /\ ~disturbed =>
                  /\ Working \subseteq later
                  /\ claimed => (cmd.kind = "prune" \/ later # {}) ]_vars
    BY <1>1
  <1>. QED
    BY <1>2, AlwaysBoard, PTL DEF Spec, GuardedWrites

(* A daemon writes the revision it has read, but for one that took the     *)
(* lock behind a command's look; so does a command that looks at the lock  *)
(* before it loads the board (mcp, prune, run), unless a daemon took the   *)
(* lock behind its look.  The CLI and the web server load first.           *)
THEOREM WritesAreFresh == Spec => FreshWrites
  <1>1. ASSUME Typed, LockInv, BoardInv, Next, rev' # rev, ~disturbed
        PROVE  /\ \A p \in Pids \ later : seen'[p] # seen[p] => seen[p] = rev
               /\ (seen'[Operator] # seen[Operator] /\ cmd.kind \notin LoadsFirst /\ later = {})
                     => seen[Operator] = rev
    <2>1. /\ seen \in [Pids \cup {Operator} -> 0..MaxWrites] /\ Operator \notin Pids
          /\ TicksCurrent /\ CardKnown /\ \A p \in Pids : proc[p] # "forced"
      BY <1>1, BoardLockAssumption DEF Typed, TypeOK, BoardLockAssumption, BoardInv, ForcedOut
    <2>2. \/ \E p \in Pids : Tick(p) /\ WriteCard(p)
          \/ (Write \/ Schedule) /\ WriteCard(Operator)
      BY <1>1 DEF Next, Daemon, Environment, Command, Start, ClearStale, Create, WritePid,
         OpenBoard, BeginTick, Tick, EndTick, StopItself, Return, Release, Exit, Signal, Interrupt, Kill,
         Reuse, Issue, Load, Clear, Unlink, Check, CheckClaim, Write, Schedule, Status, Exists,
         SendSignal, Poll, Diagnose, board
    <2>3. CASE \E p \in Pids : Tick(p) /\ WriteCard(p)
      <3>1. PICK p \in Pids : Tick(p) /\ WriteCard(p)
        BY <2>3
      <3>2. proc[p] = "tick" /\ \A w \in Pids \cup {Operator} : w # p => seen'[w] = seen[w]
        BY <2>1, <3>1 DEF Tick, WriteCard
      <3>. QED
        BY <2>1, <3>2 DEF TicksCurrent
    <2>4. CASE (Write \/ Schedule) /\ WriteCard(Operator)
      <3>1. \A p \in Pids : seen'[p] = seen[p]
        BY <2>1, <2>4 DEF WriteCard
      <3>2. Looked
        BY <1>1, <2>4, ActsKnow DEF Write, Schedule, Acts
      <3>3. cmd.kind \notin LoadsFirst => Without("load")
        BY <1>1, <2>4, FirstInOrder DEF Write, Schedule
      <3>. QED
        BY <2>1, <3>1, <3>2, <3>3 DEF CardKnown, Past
    <2>. QED
      BY <2>2, <2>3, <2>4
  <1>2. Typed /\ LockInv /\ BoardInv /\ [Next]_vars =>
            [ rev' # rev /\ ~disturbed =>
                  /\ \A p \in Pids \ later : seen'[p] # seen[p] => seen[p] = rev
                  /\ (seen'[Operator] # seen[Operator] /\ cmd.kind \notin LoadsFirst /\ later = {})
                        => seen[Operator] = rev ]_vars
    BY <1>1
  <1>. QED
    BY <1>2, AlwaysBoard, PTL DEF Spec, FreshWrites
=============================================================================
