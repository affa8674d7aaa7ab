------------------------------ MODULE Dispatch ------------------------------
(***************************************************************************)
(* The split-topology runtime: one scheduler process (SchedulerDaemon),    *)
(* any number of worker processes (WorkerDaemon) and an operator, sharing  *)
(* a board directory of card files, claim files, result envelopes and      *)
(* acquisition sentinels.  A step of the scheduler is one durable write,   *)
(* so a crash may fall between any two of them; an operation on one claim  *)
(* file is atomic here (ClaimFiles takes it apart).  Worktree isolation is *)
(* off (worktree_mgr = None) and card files are not deleted under the      *)
(* daemons.                                                                *)
(***************************************************************************)
EXTENDS Naturals, FiniteSets

CONSTANTS
    Cards,          \* card ids
    Workers,        \* worker ids
    DependsOn,      \* Card.depends_on, as a function Cards -> SUBSET Cards
    Rank,           \* injective Cards -> Nat: order of list_by_status
    MaxClaims,      \* DaemonConfig.max_claims
    WipLimit,       \* WipPolicy.doing_limit
    InfraBudget,    \* RetryPolicy.infrastructure
    LeaseBudget,    \* RetryPolicy.lease_expiry
    ReworkBudget,   \* RetryPolicy.rework
    Backlog,        \* columns the cards start in
    MoveTargets,    \* columns the operator moves cards to
    MaxOps,         \* bound on operator moves and on scheduler stops and crashes
    NoClaim,        \* "no claim file"
    NoWorker,       \* "unassigned" (worker_id is None)
    NoJob           \* the scheduler is not in the middle of a transition

ASSUME DispatchAssumption ==
    /\ IsFiniteSet(Cards)
    /\ DependsOn \in [Cards -> SUBSET Cards]
    /\ Rank \in [Cards -> Nat]
    /\ \A c, d \in Cards : Rank[c] = Rank[d] => c = d
    /\ {MaxClaims, WipLimit, InfraBudget, LeaseBudget, ReworkBudget, MaxOps} \subseteq Nat
    /\ Backlog \subseteq {"inbox", "ready"}
    /\ MoveTargets \subseteq {"inbox", "ready", "doing", "review", "done", "blocked"}
    /\ NoWorker \notin Workers

-----------------------------------------------------------------------------
Statuses == {"inbox", "ready", "doing", "review", "done", "blocked"}

(* The roles _role_for dispatches: no column leads to the verifier.        *)
Roles == {"planner", "worker", "reviewer"}
Categories == {"infrastructure", "lease_expiry"}

(* An executor either fails, asks for a rework, or names the next column.  *)
Outcomes == {"failed", "rework", "ready", "review", "done", "blocked"}

OutcomesOf(role) ==
    {"failed", "blocked"} \cup CASE role = "planner"  -> {"ready"}
                                 [] role = "worker"   -> {"review"}
                                 [] role = "reviewer" -> {"done", "rework"}

Budget(category) == IF category = "infrastructure" THEN InfraBudget ELSE LeaseBudget

(* retry_count survives from claim to claim; attempt is retries + 1.       *)
Claim == [id : Nat, role : Roles, owner : Workers \cup {NoWorker},
          retries : Nat, expired : BOOLEAN]
Envelope == [card : Cards, id : Nat, worker : Workers, outcome : Outcomes]
Phases == {"idle", "acquiring", "releasing", "running", "overdue"}

ASSUME NoClaimAssumption == NoClaim \notin Claim

VARIABLES
    status,      \* status[c]: column of the card file
    iteration,   \* iteration[c]: rework_iteration of the card file
    claims,      \* claims[c]: runtime/claims/<c>.json, or NoClaim
    issued,      \* issued[c]: claims ever created for c; ids are their numbers
    results,     \* envelopes in runtime/results
    sentinel,    \* cards with a runtime/claims/<c>.acquiring file
    worker,      \* worker[w]: phase of run_once, and the claim it works on
    pc,          \* where the scheduler process is
    todo,        \* envelopes commit_pending_results has read and not handled
    stale,       \* claims list_stale_claims has returned and not handled
    job,         \* the claim whose outcome the scheduler is writing down
    slots,       \* claims select_and_claim may still create in this tick
    ops,         \* operator moves, stops and crashes so far
    asked        \* history: asked[c] rework requests submitted for card c

cardVars == <<status, iteration>>
schedVars == <<pc, todo, stale, job, slots>>
vars == <<status, iteration, claims, issued, results, sentinel, worker,
          pc, todo, stale, job, slots, ops, asked>>

Idle == [phase |-> "idle"]
Busy == [phase : Phases \ {"idle"}, card : Cards, id : Nat, role : Roles]

(* job.from says which loop the transition belongs to, and so where the    *)
(* scheduler continues.                                                    *)
Job == [card : Cards, claim : Claim, from : {"commit", "recover", "select"}]

ASSUME NoJobAssumption == NoJob \notin Job

(* down: no scheduler.  idle, commit, recover, select: between two writes  *)
(* of run_once.  advance, rewind, recreate, clear, delete, start: in the   *)
(* middle of a transition, before the write of that name.                  *)
Controls == {"down", "idle", "commit", "recover", "select",
             "advance", "rewind", "recreate", "clear", "delete", "start"}

Settled == [c \in Cards |-> IF pc = "rewind" /\ job.card = c
                            THEN iteration[c] - 1 ELSE iteration[c]]
WF == INSTANCE Workflow WITH iteration <- Settled

-----------------------------------------------------------------------------
Live == {c \in Cards : claims[c] # NoClaim}
MyClaim(w) == claims[worker[w].card]
Owns(w) == MyClaim(w) # NoClaim /\ MyClaim(w).id = worker[w].id

Init ==
    /\ status \in [Cards -> Backlog]
    /\ iteration = [c \in Cards |-> 0]
    /\ claims = [c \in Cards |-> NoClaim]
    /\ issued = [c \in Cards |-> 0]
    /\ results = {}
    /\ sentinel = {}
    /\ worker = [w \in Workers |-> Idle]
    /\ pc = "idle"
    /\ todo = {}
    /\ stale = {}
    /\ job = NoJob
    /\ slots = 0
    /\ ops = 0
    /\ asked = [c \in Cards |-> 0]

-----------------------------------------------------------------------------
(* Workers.                                                                *)

(* try_acquire_claim, first half: win the O_EXCL sentinel.                 *)
Acquire(w, c) ==
    /\ worker[w].phase = "idle"
    /\ c \in Live
    /\ claims[c].owner = NoWorker
    /\ c \notin sentinel
    /\ sentinel' = sentinel \cup {c}
    /\ worker' = [worker EXCEPT ![w] = [phase |-> "acquiring", card |-> c,
                                        id |-> claims[c].id, role |-> claims[c].role]]
    /\ UNCHANGED <<cardVars, claims, issued, results, schedVars, ops, asked>>

(* Second half: re-read the claim; take it if it is still unassigned,      *)
(* which also renews its lease, and give up otherwise.                     *)
TakeClaim(w) ==
    LET c == worker[w].card
    IN  /\ worker[w].phase = "acquiring"
        /\ IF c \in Live /\ claims[c].owner = NoWorker
           THEN /\ claims' = [claims EXCEPT ![c].owner = w, ![c].expired = FALSE]
                /\ worker' = [worker EXCEPT ![w] = [phase |-> "releasing", card |-> c,
                                                    id |-> claims[c].id,
                                                    role |-> claims[c].role]]
                /\ UNCHANGED sentinel
           ELSE /\ worker' = [worker EXCEPT ![w] = Idle]
                /\ sentinel' = sentinel \ {c}
                /\ UNCHANGED claims
        /\ UNCHANGED <<cardVars, issued, results, schedVars, ops, asked>>

(* The finally clause of try_acquire_claim; the executor then starts.      *)
ReleaseSentinel(w) ==
    /\ worker[w].phase = "releasing"
    /\ sentinel' = sentinel \ {worker[w].card}
    /\ worker' = [worker EXCEPT ![w].phase = "running"]
    /\ UNCHANGED <<cardVars, claims, issued, results, schedVars, ops, asked>>

(* The heartbeat thread renews the lease of the claim it still owns.       *)
Heartbeat(w) ==
    /\ worker[w].phase = "running"
    /\ Owns(w)
    /\ claims' = [claims EXCEPT ![worker[w].card].owner = w,
                                ![worker[w].card].expired = FALSE]
    /\ UNCHANGED <<cardVars, issued, results, sentinel, worker, schedVars, ops, asked>>

(* The heartbeat thread ends: timeout_s has passed, or renew_claim raised  *)
(* because the claim is gone.  The executor goes on.                       *)
HeartbeatStops(w) ==
    /\ worker[w].phase = "running"
    /\ worker' = [worker EXCEPT ![w].phase = "overdue"]
    /\ UNCHANGED <<cardVars, claims, issued, results, sentinel, schedVars, ops, asked>>

(* The executor returns or raises, and submit_result writes the envelope   *)
(* in full; one that is torn is no envelope to anybody (WorkerLost).       *)
Finish(w, outcome) ==
    LET me == worker[w]
    IN  /\ me.phase \in {"running", "overdue"}
        /\ outcome \in OutcomesOf(me.role)
        /\ results' = results \cup {[card |-> me.card, id |-> me.id,
                                     worker |-> w, outcome |-> outcome]}
        /\ worker' = [worker EXCEPT ![w] = Idle]
        /\ asked' = [asked EXCEPT ![me.card] = IF outcome = "rework" THEN @ + 1 ELSE @]
        /\ UNCHANGED <<cardVars, claims, issued, sentinel, schedVars, ops>>

(* The worker dies and is started again, or its envelope cannot be written *)
(* or only in part (_submit_safe swallows the error, read_results skips    *)
(* the file for ever): the claim stays, and so does a sentinel it held.    *)
WorkerLost(w) ==
    /\ worker[w].phase # "idle"
    /\ worker' = [worker EXCEPT ![w] = Idle]
    /\ UNCHANGED <<cardVars, claims, issued, results, sentinel, schedVars, ops, asked>>

(* Time passes: lease_expires_at is now in the past.                       *)
Expire(c) ==
    /\ c \in Live
    /\ ~claims[c].expired
    /\ claims' = [claims EXCEPT ![c].expired = TRUE]
    /\ UNCHANGED <<cardVars, issued, results, sentinel, worker, schedVars, ops, asked>>

-----------------------------------------------------------------------------
(* The scheduler: SchedulerDaemon.run_once.                                *)

(* commit_pending_results reads every envelope before handling the first.  *)
BeginTick ==
    /\ pc = "idle"
    /\ pc' = "commit"
    /\ todo' = results
    /\ UNCHANGED <<cardVars, claims, issued, results, sentinel, worker, stale, job, slots,
                   ops, asked>>

(* Mutants: the committer also wants an unexpired lease; it compares the   *)
(* owner only.                                                             *)
AcceptedInLease(e) ==
    /\ e.card \in Live
    /\ claims[e.card].id = e.id /\ claims[e.card].owner = e.worker
    /\ ~claims[e.card].expired
AcceptedFromOwner(e) == e.card \in Live /\ claims[e.card].owner = e.worker

(* The ownership checks of commit_pending_results.                         *)
Accepted(e) ==
    /\ e.card \in Live
    /\ claims[e.card].id = e.id
    /\ claims[e.card].owner = e.worker

JobOf(e) == [card |-> e.card, claim |-> claims[e.card], from |-> "commit"]

(* Mutant: the orphan is reported but its file is left in place.           *)
QuarantineInPlace(e) ==
    /\ pc = "commit" /\ e \in todo
    /\ ~Accepted(e)
    /\ todo' = todo \ {e}
    /\ UNCHANGED <<cardVars, claims, issued, results, sentinel, worker, pc, stale, job, slots,
                   ops, asked>>

(* An envelope without a matching owned claim goes to results/orphans.     *)
Quarantine(e) ==
    /\ pc = "commit" /\ e \in todo
    /\ ~Accepted(e)
    /\ results' = results \ {e}
    /\ todo' = todo \ {e}
    /\ UNCHANGED <<cardVars, claims, issued, sentinel, worker, pc, stale, job, slots, ops, asked>>

(* _apply_normal_result: move the card to the column the result names.     *)
ApplyResult(e) ==
    /\ pc = "commit" /\ e \in todo
    /\ Accepted(e)
    /\ e.outcome \in {"ready", "review", "done", "blocked"}
    /\ status' = [status EXCEPT ![e.card] = e.outcome]
    /\ pc' = IF e.outcome = "done" /\ status[e.card] # "done" THEN "advance" ELSE "clear"
    /\ job' = JobOf(e)
    /\ todo' = todo \ {e}
    /\ UNCHANGED <<iteration, claims, issued, results, sentinel, worker, stale, slots, ops, asked>>

(* advance_inbox_dependents: one released card at a time.                  *)
Advance ==
    /\ pc = "advance"
    /\ LET released == WF!Released(job.card)
       IN  \/ \E c \in released : status' = [status EXCEPT ![c] = "ready"] /\ UNCHANGED pc
           \/ released = {} /\ pc' = "clear" /\ UNCHANGED status
    /\ UNCHANGED <<iteration, claims, issued, results, sentinel, worker, todo, stale, job,
                   slots, ops, asked>>

(* Mutant: the budget is compared with the counter before it is bumped.    *)
AcceptReworkLate(e) ==
    /\ pc = "commit" /\ e \in todo
    /\ Accepted(e)
    /\ e.outcome = "rework"
    /\ iteration[e.card] <= ReworkBudget
    /\ iteration' = [iteration EXCEPT ![e.card] = @ + 1]
    /\ pc' = "rewind"
    /\ job' = JobOf(e)
    /\ todo' = todo \ {e}
    /\ UNCHANGED <<status, claims, issued, results, sentinel, worker, stale, slots, ops, asked>>

(* _apply_rework within the budget: the first write bumps the counter ...  *)
AcceptRework(e) ==
    /\ pc = "commit" /\ e \in todo
    /\ Accepted(e)
    /\ e.outcome = "rework"
    /\ iteration[e.card] + 1 <= ReworkBudget
    /\ iteration' = [iteration EXCEPT ![e.card] = @ + 1]
    /\ pc' = "rewind"
    /\ job' = JobOf(e)
    /\ todo' = todo \ {e}
    /\ UNCHANGED <<status, claims, issued, results, sentinel, worker, stale, slots, ops, asked>>

(* ... and the second sends the card back to READY.                        *)
Rewind ==
    /\ pc = "rewind"
    /\ status' = [status EXCEPT ![job.card] = "ready"]
    /\ pc' = "clear"
    /\ UNCHANGED <<iteration, claims, issued, results, sentinel, worker, todo, stale, job,
                   slots, ops, asked>>

(* _apply_rework past the budget synthesizes a BLOCKED result.             *)
RefuseRework(e) ==
    /\ pc = "commit" /\ e \in todo
    /\ Accepted(e)
    /\ e.outcome = "rework"
    /\ iteration[e.card] + 1 > ReworkBudget
    /\ status' = [status EXCEPT ![e.card] = "blocked"]
    /\ pc' = "clear"
    /\ job' = JobOf(e)
    /\ todo' = todo \ {e}
    /\ UNCHANGED <<iteration, claims, issued, results, sentinel, worker, stale, slots, ops, asked>>

(* Mutant: an exhausted claim is cleared before its card is blocked.       *)
RetryOrClear(c, failed, category) ==
    /\ claims' = [claims EXCEPT ![c] = NoClaim]
    /\ pc' = IF failed.retries < Budget(category) THEN "recreate" ELSE "clear"
    /\ UNCHANGED status

(* retry_or_block: within the budget retry_claim first clears the failed   *)
(* claim; past it block_card first moves the card to BLOCKED.              *)
RetryOrBlock(c, failed, category) ==
    IF failed.retries < Budget(category)
    THEN /\ claims' = [claims EXCEPT ![c] = NoClaim]
         /\ pc' = "recreate"
         /\ UNCHANGED status
    ELSE /\ status' = [status EXCEPT ![c] = "blocked"]
         /\ pc' = "clear"
         /\ UNCHANGED claims

HandleFailure(e) ==
    /\ pc = "commit" /\ e \in todo
    /\ Accepted(e)
    /\ e.outcome = "failed"
    /\ RetryOrBlock(e.card, claims[e.card], "infrastructure")
    /\ job' = JobOf(e)
    /\ todo' = todo \ {e}
    /\ UNCHANGED <<iteration, issued, results, sentinel, worker, stale, slots, ops, asked>>

(* retry_claim, second write: the linked replacement, unassigned.          *)
Recreate ==
    LET c == job.card
    IN  /\ pc = "recreate"
        /\ claims' = [claims EXCEPT ![c] =
                        [id |-> issued[c] + 1, role |-> job.claim.role, owner |-> NoWorker,
                         retries |-> job.claim.retries + 1, expired |-> FALSE]]
        /\ issued' = [issued EXCEPT ![c] = @ + 1]
        /\ pc' = IF job.from = "commit" THEN "delete" ELSE "recover"
        /\ job' = IF job.from = "commit" THEN job ELSE NoJob
        /\ UNCHANGED <<cardVars, results, sentinel, worker, todo, stale, slots, ops, asked>>

(* Mutant: the claim file survives.                                        *)
KeepClaim ==
    /\ pc = "clear"
    /\ pc' = IF job.from = "commit" THEN "delete" ELSE "recover"
    /\ job' = IF job.from = "commit" THEN job ELSE NoJob
    /\ UNCHANGED <<cardVars, claims, issued, results, sentinel, worker, todo, stale, slots, ops,
                   asked>>

(* The claim of a handled result, or of a card just blocked, is removed.   *)
ClearClaim ==
    /\ pc = "clear"
    /\ claims' = [claims EXCEPT ![job.card] = NoClaim]
    /\ pc' = IF job.from = "commit" THEN "delete" ELSE "recover"
    /\ job' = IF job.from = "commit" THEN job ELSE NoJob
    /\ UNCHANGED <<cardVars, issued, results, sentinel, worker, todo, stale, slots, ops, asked>>

DeleteResult ==
    /\ pc = "delete"
    /\ results' = {e \in results : ~(e.card = job.card /\ e.id = job.claim.id)}
    /\ pc' = "commit"
    /\ job' = NoJob
    /\ UNCHANGED <<cardVars, claims, issued, sentinel, worker, todo, stale, slots, ops, asked>>

(* Mutant: a claim nobody has acquired is not considered stale.            *)
BeginOwnedRecovery ==
    /\ pc = "commit" /\ todo = {}
    /\ pc' = "recover"
    /\ stale' = {[card |-> c, claim |-> claims[c], from |-> "recover"] :
                    c \in {d \in Live : claims[d].expired /\ claims[d].owner # NoWorker}}
    /\ UNCHANGED <<cardVars, claims, issued, results, sentinel, worker, todo, job, slots,
                   ops, asked>>

(* recover_stale_claims reads every expired claim before handling one.     *)
BeginRecovery ==
    /\ pc = "commit" /\ todo = {}
    /\ pc' = "recover"
    /\ stale' = {[card |-> c, claim |-> claims[c], from |-> "recover"] :
                    c \in {d \in Live : claims[d].expired}}
    /\ UNCHANGED <<cardVars, claims, issued, results, sentinel, worker, todo, job, slots,
                   ops, asked>>

Recover(s) ==
    /\ pc = "recover" /\ s \in stale
    /\ RetryOrBlock(s.card, s.claim, "lease_expiry")
    /\ job' = s
    /\ stale' = stale \ {s}
    /\ UNCHANGED <<iteration, issued, results, sentinel, worker, todo, slots, ops, asked>>

(* Mutant: every tick may create max_claims claims.                        *)
BeginUnboundedSelection ==
    /\ pc = "recover" /\ stale = {}
    /\ pc' = "select" /\ slots' = MaxClaims
    /\ UNCHANGED <<cardVars, claims, issued, results, sentinel, worker, todo, stale, job,
                   ops, asked>>

(* max_claims is a budget on live claims over the whole board.             *)
BeginSelection ==
    /\ pc = "recover" /\ stale = {}
    /\ LET live == Cardinality(Live)
       IN  IF live >= MaxClaims
           THEN pc' = "idle" /\ slots' = 0
           ELSE pc' = "select" /\ slots' = MaxClaims - live
    /\ UNCHANGED <<cardVars, claims, issued, results, sentinel, worker, todo, stale, job,
                   ops, asked>>

(* Mutant: reviews are dispatched to the verifier role.                    *)
RoleForVerify(s) == CASE s = "inbox"  -> "planner"
                      [] s = "ready"  -> "worker"
                      [] s = "review" -> "verifier"

(* _role_for.                                                              *)
RoleFor(s) == CASE s = "inbox"  -> "planner"
                [] s = "ready"  -> "worker"
                [] s = "review" -> "reviewer"

(* Mutants: the WIP test is off by one; dependencies are not looked at.    *)
ActionableOverWip(s) ==
    {c \in WF!InColumns({s}) \ Live :
        WF!DepsSatisfied(c) /\ (s = "ready" => WF!WipCount <= WipLimit)}
ActionableWithoutDeps(s) ==
    {c \in WF!InColumns({s}) \ Live : s = "ready" => WF!WipCount < WipLimit}

(* _iter_actionable_cards, minus the cards that already have a claim.      *)
Actionable(s) ==
    {c \in WF!InColumns({s}) \ Live :
        WF!DepsSatisfied(c) /\ (s = "ready" => WF!WipCount < WipLimit)}

(* REVIEW before READY before INBOX, and by rank within a column.          *)
Candidate(c, s) ==
    /\ c \in Actionable(s)
    /\ \A d \in Actionable(s) : Rank[c] <= Rank[d]
    /\ s # "review" => Actionable("review") = {}
    /\ s = "inbox" => Actionable("ready") = {}

NewClaim(c, s) == [id |-> issued[c] + 1, role |-> RoleFor(s), owner |-> NoWorker,
                   retries |-> 0, expired |-> FALSE]

(* select_and_claim: the claim is written first, and a READY card is moved *)
(* to DOING after it.                                                      *)
Select(c, s) ==
    /\ pc = "select" /\ slots > 0
    /\ Candidate(c, s)
    /\ claims' = [claims EXCEPT ![c] = NewClaim(c, s)]
    /\ issued' = [issued EXCEPT ![c] = @ + 1]
    /\ slots' = slots - 1
    /\ pc' = IF s = "ready" THEN "start" ELSE "select"
    /\ job' = IF s = "ready" THEN [card |-> c, claim |-> NewClaim(c, s), from |-> "select"]
                             ELSE NoJob
    /\ UNCHANGED <<cardVars, results, sentinel, worker, todo, stale, ops, asked>>

StartCard ==
    /\ pc = "start"
    /\ status' = [status EXCEPT ![job.card] = "doing"]
    /\ pc' = "select"
    /\ job' = NoJob
    /\ UNCHANGED <<iteration, claims, issued, results, sentinel, worker, todo, stale, slots,
                   ops, asked>>

EndTick ==
    /\ pc = "select"
    /\ slots = 0 \/ \A s \in {"review", "ready", "inbox"} : Actionable(s) = {}
    /\ pc' = "idle"
    /\ slots' = 0
    /\ UNCHANGED <<cardVars, claims, issued, results, sentinel, worker, todo, stale, job,
                   ops, asked>>

-----------------------------------------------------------------------------
(* Stopping, starting, crashing, and the operator.                         *)

GoDown ==
    /\ ops < MaxOps
    /\ ops' = ops + 1
    /\ pc' = "down"
    /\ todo' = {} /\ stale' = {} /\ job' = NoJob /\ slots' = 0
    /\ UNCHANGED <<cardVars, claims, issued, results, sentinel, worker, asked>>

(* A stop request is honoured between two ticks.                           *)
Stop == pc = "idle" /\ GoDown

(* A kill or a power loss is not.                                          *)
Crash == pc \notin {"idle", "down"} /\ GoDown

Restart ==
    /\ pc = "down"
    /\ pc' = "idle"
    /\ UNCHANGED <<cardVars, claims, issued, results, sentinel, worker, todo, stale, job,
                   slots, ops, asked>>

(* Mutant: the operator does not look at the card's claim.                 *)
OperateClaimed(c, s) ==
    /\ pc = "down"
    /\ s \in MoveTargets
    /\ ops < MaxOps
    /\ ops' = ops + 1
    /\ status' = [d \in Cards |-> IF d = c THEN s
                                  ELSE IF s = "done" /\ d \in WF!Released(c) THEN "ready"
                                  ELSE status[d]]
    /\ UNCHANGED <<iteration, claims, issued, results, sentinel, worker, schedVars, asked>>

(* kanban move, block, unblock and requeue: refused while a scheduler      *)
(* holds the board lock or the card has a claim.  A first move to DONE     *)
(* releases the card's dependents.                                         *)
Operate(c, s) ==
    LET released == IF s = "done" /\ status[c] # "done" THEN WF!Released(c) \ {c} ELSE {}
    IN  /\ pc = "down"
        /\ c \notin Live
        /\ s \in MoveTargets
        /\ ops < MaxOps
        /\ ops' = ops + 1
        /\ status' = [d \in Cards |-> IF d = c THEN s
                                      ELSE IF d \in released THEN "ready"
                                      ELSE status[d]]
        /\ UNCHANGED <<iteration, claims, issued, results, sentinel, worker, schedVars, asked>>

-----------------------------------------------------------------------------
Commit ==
    \E e \in todo : \/ Quarantine(e) \/ ApplyResult(e) \/ AcceptRework(e)
                    \/ RefuseRework(e) \/ HandleFailure(e)

Scheduler ==
    \/ BeginTick \/ Commit \/ Advance \/ Rewind \/ Recreate \/ ClearClaim \/ DeleteResult
    \/ BeginRecovery \/ (\E s \in stale : Recover(s)) \/ BeginSelection
    \/ (\E c \in Cards, s \in {"review", "ready", "inbox"} : Select(c, s))
    \/ StartCard \/ EndTick

WorkerStep(w) ==
    \/ \E c \in Cards : Acquire(w, c)
    \/ TakeClaim(w) \/ ReleaseSentinel(w)
    \/ Heartbeat(w) \/ HeartbeatStops(w)
    \/ \E outcome \in Outcomes : Finish(w, outcome)
    \/ WorkerLost(w)

Environment ==
    \/ \E c \in Cards : Expire(c)
    \/ Stop \/ Restart
    \/ \E c \in Cards, s \in MoveTargets : Operate(c, s)

Next == Scheduler \/ Environment \/ \E w \in Workers : WorkerStep(w)

(* The runtime whose scheduler is only ever stopped between two ticks ...  *)
Spec == Init /\ [][Next]_vars

(* ... and the one whose scheduler may be killed at any point.             *)
CrashNext == Next \/ Crash
CrashSpec == Init /\ [][CrashNext]_vars

(* The scheduler loop keeps running and is restarted when it is down; a    *)
(* lease that nobody renews runs out; a heartbeat ends with its timeout.   *)
(* Nothing is assumed of executors or of workers.                          *)
Fairness ==
    /\ WF_vars(Scheduler)
    /\ WF_vars(Restart)
    /\ \A c \in Cards : WF_vars(Expire(c))
    /\ \A w \in Workers : WF_vars(HeartbeatStops(w))

FairSpec == Spec /\ Fairness
FairCrashSpec == CrashSpec /\ Fairness
=============================================================================
