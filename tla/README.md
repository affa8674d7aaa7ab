# Verification of the kanban runtime

`kanban` runs a board of cards through agents. A card is a file whose column
(INBOX, READY, DOING, REVIEW, DONE, BLOCKED) says where its work is. One
scheduler process selects cards and writes *claims*; any number of worker
processes take claims, run an agent and write *result envelopes*; the scheduler
commits the envelopes, recovers claims whose lease has run out and bounds the
work in progress. Each card may have a git worktree in which its agents work,
and a router may choose the agent. All processes share one board directory; the
only lock is a file that a scheduler holds. An operator (CLI, MCP, web) changes
cards when no scheduler runs.

This directory holds TLA+ models of that runtime, the TLC configurations that
check them, and proofs checked by TLAPS. Paths below are relative to
`src/kanban/`.

## The system

| component | state | operations | what makes it correct |
|---|---|---|---|
| selection (`orchestrator/scheduling.py`, `claims.py`, `helpers.py`) | none of its own; reads columns and claims | `select_and_claim`, `advance_inbox_dependents` | WIP limit over DOING and REVIEW, dependencies done, no second claim of a card, a DOING card has a claim |
| commit (`orchestrator/results.py`, `transitions.py`, `terminal.py`) | envelopes read, not handled | `commit_pending_results`, `apply_result`, `_apply_rework` | only the owner of the newest claim changes a card; replay after a crash is harmless; rework is bounded |
| recovery (`orchestrator/retry.py`) | claims read, not handled | `recover_stale_claims`, `retry_claim`, `retry_or_block` | bounded retries; a claim is dropped only for a successor or a BLOCKED card |
| scheduler (`daemon/scheduler.py`, `role_base.py`) | position in its tick | `run_once`: commit, recover, select; prune when idle | at most `max_claims` claims; progress |
| worker (`daemon/worker.py`) | its claim, heartbeat thread | `_acquire_any_claim`, `_heartbeat_claim`, `run_once`, `_submit_safe` | one worker per claim; a lost worker strands nothing |
| runtime store (`store_markdown/runtime_store.py`, `runtime.py`) | claims, results, sentinels, presence files | `create/renew/clear/try_acquire_claim`, `write/read/delete/quarantine_result` | compare-and-swap of the owner, write-once results |
| card store (`store_markdown/card_store.py`, `cards.py`, `toml_dump.py`) | card files, a cache in each process | `add_card`, `move_card`, `update_card`, `refresh` | readers see whole cards, cache and file agree, a failed write changes neither |
| event store (`store_markdown/event_store.py`) | append-only log | `append_*_event` | never ahead of the cards |
| in-memory store (`store.py`) | the same in one process | the same | what the markdown store has to look like |
| daemon lock (`daemon/lock.py`) | `.daemon.lock` | `daemon_lock`, `clear_stale_lock`, `assert_no_daemon`, `daemon_status` | one scheduler per board |
| combined and serial daemon (`daemon/combined.py`, `daemon/__init__.py`) | threads, stop event | `run`, `run_once`, shutdown | holds the lock as long as a thread may write |
| operator transitions (`operations.py`) | none | move, block, unblock, requeue | one write each; side effects are reported, not rolled back |
| front ends (`cli/`, `mcp/`, `web.py`) | a board loaded into memory | every command | never beside a scheduler or over a claim, never an old card over a new one |
| worktrees (`worktree/`, `orchestrator/worktree_flow.py`) | git branches and directories, metadata on the card | create, recheckout, detach, prune | no work is lost, a claim runs in its own worktree, nothing is left behind |
| executors (`executors/`) | router cache, last outcome, client, ACP inbox | resolve, route, invoke, fall back, parse | an execution follows a decision about the card it sees and hears nothing from before its prompt |
| agent profiles (`agents.py`, `agent_profiles.py`) | a file | `load_config` | roles fit |
| doctor, init, demo, result views | files | sequential reads and writes | - |

Components meet in the board directory: the scheduler writes cards and claims,
workers write ownership and leases into claims, and results; the scheduler
reads and removes both. Commands write cards through the same store, in another
process. The hard behaviours are the interleavings of these files' reads and
writes, leases that run out under working agents, answers that arrive late,
processes that die between two writes, copies of a card that have become old,
and the limits (WIP, claims, retries, reworks) that only some steps check.

## Modules

- `Workflow` - abstract: columns and rework counters of cards, and which step may
  change them. No claims, workers or files.
- `Dispatch` - the split topology: scheduler, workers, clock and operator over
  card files, claims, envelopes and sentinels. `WF == INSTANCE Workflow` is the
  refinement mapping; a rework half written (`rewind`) is mapped to a rework not
  yet counted, because it is two writes of one abstract step. `DispatchProps` has
  its properties, `DispatchProofs`, `DispatchClaimsProofs` and `DispatchFlowProofs` its
  theorems.
- `ClaimFiles` - the claim file of one card; the read of each operation, the filling of
  the temporary file and its move into place apart. `ClaimFilesProofs` - its theorems.
- `BoardLock` - the lock file, the processes that take it and the commands that
  look at it. `BoardLockProofs` - its theorems.
- `BoardStore` - abstract: the in-memory store's cards. `CardFiles` - the card files,
  the cache of a command, events, and the commands that write cards;
  `Board == INSTANCE BoardStore WITH cards <- disk`. `CardFilesProofs` - its theorems.
- `Worktree` - branch, directory, work and metadata of one card. `WorktreeProofs` - its
  theorems.
- `Routing` - one executor: which profile, which backend, which answer.
  `RoutingProofs` - its theorems.
- `MC...` - the instances TLC checks.

The modules divide the system by granularity. `Dispatch` has the whole board with
claims and cards as atomic files; `ClaimFiles` opens the claim, `CardFiles` the
card. Both rest on what `BoardLock` shows: one process writes cards at a time.
`Worktree` and `Routing` follow one card, since cards share neither branches nor
cache entries, through an abridged `Dispatch`: their claims, retries and reworks are
its transitions with fewer columns.

### Dispatch and the code

One step of the scheduler is one durable write, so a crash may fall between any
two writes; reads that feed one write are part of it. `pc` is the position in
`SchedulerDaemon.run_once`, `todo` and `stale` are the two snapshots it takes
(all envelopes; all expired claims), `job` is the claim whose transition is half
written.

| code | actions |
|---|---|
| `commit_pending_results` | `BeginTick`, `Quarantine`, `ApplyResult`, `Advance`, `AcceptRework`, `Rewind`, `RefuseRework`, `HandleFailure`, `ClearClaim`, `DeleteResult` |
| `recover_stale_claims`, `retry_or_block`, `retry_claim` | `BeginRecovery`, `Recover`, `Recreate`, `ClearClaim` |
| `select_and_claim` | `BeginSelection`, `Select`, `StartCard`, `EndTick` |
| `try_acquire_claim` | `Acquire`, `TakeClaim`, `ReleaseSentinel` |
| heartbeat thread | `Heartbeat`, `HeartbeatStops` |
| executor and `submit_result` | `Finish` |
| loss of a worker, an unwritable envelope, a card that has vanished | `WorkerLost` |
| passing of time | `Expire` |
| stop between ticks, kill, start | `Stop`, `Crash`, `Restart` |
| move, block, unblock, requeue | `Operate` |

Abstractions, and why they keep what the properties speak of:

- Times are one bit per claim (`expired`). A lease may run out at any moment,
  also while its worker beats; this includes all real timings.
- Claim ids are the number of claims created for the card. Ids are fresh in the
  code too (random).
- The list of revision requests, `blocked_reason`, `owner_role`, events and
  history are left out: nothing reads them to decide a transition.
- A result is the column it asks for, `rework` or `failed`, within what its
  role can answer.
- `list_claims` and the creation of the sentinel are one step; the claim is read
  again under the sentinel, and that read (`TakeClaim`) gives up when the listing
  was stale.
- Worktree isolation is off and card files are not deleted under the daemons.
- An operator acts only when no scheduler runs and the card has no claim, one
  whole command at a time, as the two guards demand (`BoardLock`); `--force` is not
  modelled. `MoveTargets` says which columns the operator uses.
- A claim operation is atomic. `ClaimFiles` drops this, and `late_heartbeat` shows what an
  atomic `renew_claim` hides.
- `Finish` writes an envelope in full. `write_result` creates the file and then writes it
  (`store_markdown/runtime_store.py:173`); an envelope torn in between is skipped by
  `read_results` for ever, and to everybody else it is a worker that never answered
  (`WorkerLost`). `EnvelopesConsumed` therefore speaks of envelopes submitted in full.

### ClaimFiles and the code

`Open`, `ReadToAcquire`, `WriteAcquired` and `ReplaceAcquired` are `try_acquire_claim`;
`BeatRead`, `BeatWrite` and `BeatReplace` are `renew_claim`; `ClearRead` and `Unlink` are
`clear_claim`; `CreateCheck`, `CreateWrite` and `CreateReplace` are `create_claim`. Each
write is the two steps of `_atomic_write_json`: it fills `<card>.json.tmp` (`tmp`), one file
for all writers, and moves it into place. So one writer may move what another has
filled (`Replaced`), and find nothing to move (`NothingToReplace`): the heartbeat thread
ends, the acquiring worker starts again, the scheduler dies. Filling is one step; that
the file is truncated first, and that a torn one may be moved meanwhile, is left out. A heartbeat in flight
outlives its worker's execution, since `_heartbeat_claim` waits for the thread
two seconds at most. Where the code raises out of `run_once` (a claim mismatch,
a claim in the way) the scheduler dies and is restarted. The card is reduced to
open, done or blocked; the scheduler is not killed here, workers do not die.

### BoardLock and the code

A step is one call: a read, an unlink, an exclusive creation, a write. `proc[p]` is
where daemon `p` is in `cmd_daemon`: `unlinking`, `creating`, `created` are
`clear_stale_lock` and `daemon_lock`; `opening`, `idle`, `tick` the loop; `leaving`
and `exiting` the way out; `forced` the time between `request_stop`'s clean-up and
the end of its threads; `alien` an unrelated process with a daemon's old pid. The
threads of a combined daemon are one process: it is in a tick while any of them is.

| code | actions |
|---|---|
| `daemon_lock` | `Start`, `ClearStale`, `Create`, `WritePid`, `Release`, `Interrupt` |
| `run`, `run_once` of the four daemons | `OpenBoard`, `BeginTick`, `Tick`, `EndTick`, `Return`, `StopItself`, `Exit` |
| `request_stop`, SIGKILL, reuse of pids | `Signal`, `Kill`, `Reuse` |
| `_make_store`, `assert_no_daemon`, `_require_card_writable`, a write | `Load`, `Clear`, `Unlink`, `Check`, `CheckClaim`, `Write` |
| run, tick, recover, demo | `Schedule` |
| `daemon stop`, `stop --force`, `doctor --fix` | `Status`, `Exists`, `SendSignal`, `Poll`, `Diagnose` |

A command is its list of calls (`MoveSteps`, `EditSteps`, `WebSteps`, `McpSteps`,
`PruneSteps`, `RunSteps`); the lists differ in where the board is loaded. A card is
its revision, and `seen[w]` the revision process `w` would write over.

Nothing in the code keeps starts and commands apart, and nothing in the model does: a
daemon may start beside another's start and between any two calls of a command. Two
history variables record what then goes wrong, for the properties to name. `disturbed`:
a second signal forced a daemon out and removed a lock; two clean-ups crossed, of which
each had judged the lock stale; or a daemon started beside `daemon stop` or
`doctor --fix`, which take its file for malformed before the pid is in it. `later`: the daemons
that took the lock after the command had looked at it.

### CardFiles and the code

A command is its list of store calls (`StepsOf`), and each call the sequence of
file operations of `_write_card` and `append_event`: `OpenTmp`, `FillTmp`, `Rename`,
`AppendEvent`. `WriteFails`, `AppendFails` and `DetachFails` are the exceptions, which
`Raise` either passes out of the command or, in `_run_side_effect`, turns into a
warning; `Kill` is the end of the process anywhere. `Pass` and `Advance` are
`advance_inbox_dependents`. A card is reduced to its column and three bits:
`blocked_at` is set, there is a `blocked_reason`, there is an `owner_role`. Titles,
outputs, context and acceptance criteria are left out: `card context` and `acceptance` write as
`card edit` does, fields, history line, flush.

One command runs at a time and nothing but the files outlives it, so every behaviour
is a sequence of single commands from boards that earlier ones left. The run
therefore takes one command from every board of `Left`. A second process with the
same temporary file is excluded here and listed as a hazard.

### Worktree and the code

`ctl` is the write the process that holds the board is at, and who it is; it
follows `WorktreeClaimPreparer.setup_for_claim` and `retry_claim` (`Select`,
`RetryOrBlock`, `Prepare`, `Recheckout`, `Create`, `RecordBranch`, `PersistClaim`,
`MoveToDoing`, `ReplaceClaim`, `Block`), `detach_worktree_on_terminal` (`Detach`,
`AutoCommit`, `Remove`), and `prune_stale` (`Prune`, `ForgetBranch`). The directory
is `linked` (git lists it), `gone` (git lists it, somebody deleted it) or `stray`
(it exists, git does not list it). Work is numbered: `dirty` is in the directory,
`branch.has` committed, `base` merged, `dropped` given up by retention or by hand.
What git refuses (a branch that exists, a branch checked out elsewhere, a removal
disturbed by a writer) was tried with git itself. A failing `git status` counts as a clean
tree (`worktree/__init__.py:363`): `AutoCommit` may then go on to the removal, and `overlooked`
records the work that is lost by it.

### Routing and the code

`Start` patches the directories (`_patch_executor_cwd`), `UsePin`, `SkipRouter`,
`Recall`, `LoadClient` and `Route` are `resolve_profile` with `RouterPolicy.__call__`,
`InvokeSubagent`, `InvokeAcp`, `PromptReturns` and `PromptFails` are
`_invoke_with_fallback` with the two backends, and the `Reply` actions read the answer.
`End` is what the executor returns or raises; it names profile, version and fallback.
`Submit` is what `run_once` makes of it, an envelope, in which none of these is kept
(`Submission`), and it restores the directories. `Chunks` says whose a chunk in the inbox
is: `Collect` lets those of its own session through, and those no tag tells apart. `Commit` is the scheduler's side, with
`invalidate_card`; `Elsewhere` another worker that executes the same card, `Edit` the
operator, `Stream` the ACP servers, which are outside the repository. The cache key
is a digest of the rendered request; the model takes the record of what is rendered.

## Runs

`C` is the number of cards, `W` of workers; retries are the infrastructure and
lease-expiry budgets, then the rework budget.

| run | bounds | shows |
|---|---|---|
| `dispatch_zombies` | C 2, W 2, retries 0/1/0, two claims, WIP limit 1 | no claim lives in a foreign column; late results are orphaned only when superseded; DOING and REVIEW share the WIP limit |
| `dispatch_flow` | C 2 (chain), W 1, retries 1/0/1, two moves to DONE or stops, fair | refinement of `Workflow`, a claim on every DOING card, rework bound, envelopes consumed, cards settle |
| `dispatch_crash` | C 2, W 1, retries 1/0/1, one claim, two kills, stops or moves to READY or DONE | claim limit, ownership of results, DONE is final |
| `claim_files` | W 2, 1 retry, 2 heartbeats | one worker per claim, owner fixed, under every interleaving of reads, writes of the shared temporary file and renames |
| `board_lock` | 2 pids, every command, 2 writes | with starts and commands that overlap: the lock is held by whoever works, one scheduler, no operator's write under a daemon or over a claim, no old card over a new one, but for what `disturbed` and `later` record |
| `card_files` | C 3 (b waits for a, c for both), one command from every board left | refinement of `BoardStore`, transitions are all or nothing and tell the truth, memory equals files, events follow facts |
| `worktree` | 1 retry, 2 pieces of work, 3 claims, 2 operator steps, 1 kill, fair | no work lost but what a failing `git status` hid, isolation, detach of finished cards, branches reclaimed |
| `routing` | 1 card, 5 profiles, 6 configurations (4 refused), 2 criteria, 1 retry, 1 rework, 1 edit | fresh and attributed decisions, no stale answers, harmless router, justified fallback, contract kept |
| `retry_crash` | violation | a kill inside `retry_claim` strands a DOING card |
| `lost_sentinel` | violation, fair | a worker lost while acquiring leaves a sentinel for ever |
| `late_heartbeat` | violation | a stalled heartbeat brings back the claim of a finished card, which is then blocked |
| `stray_detach` | violation | a detach replayed in a directory git has forgotten commits the project's own checkout |

The bounds. `MaxOps`, `MaxBeats`, `MaxWrites`, `MaxWork`, `MaxClaims`, `MaxMoves`, `MaxKills`
and `MaxEdits` are guards that end a behaviour's disturbances; nothing else is cut
off: claims, reworks and envelopes of `Dispatch` are bounded by the code's own
budgets. Two cards show the dependency, the order of selection and the competition
for one WIP slot; three show a dependents pass that fails after its first card. Two
workers show the race for a sentinel and the late answer beside the new owner's; two
pids a dead holder and its successor, with the operator as third process. One retry
makes a superseded claim and its successor, one more adds the same again. Three claims
of a worktree are work, review and a rework or a retry. One card suffices for `Routing`
because cache and last outcome are keyed by card; what an execution inherits from
another card's is the client's directory and the inbox, and these a second execution of the same card inherits too. The
WIP limit is checked without kills: after one between `create_claim` and `move_card`, a
READY card with a claim escapes the count (a listed hazard). The refinement and
`Settles` are checked without kills too, and for operators who only complete cards: a
killed start lets a READY card go to REVIEW, and a reopened dependency of a card in
REVIEW blocks the board (both listed).

The properties of `board_lock` except what `disturbed` and `later` record, because there
the code fails: without the exception each is violated within a few steps, in the ways
the hazards of `daemon/lock.py`, `role_base.py` and `cli/commands/runtime.py` describe (two
crossing clean-ups leave two schedulers; a daemon that starts behind `kanban run`'s look
is a second one). What is left is every other interleaving of starts, commands, ticks,
signals, kills and reused pids. The two pids with the operator make every pair of
clean-ups, and `BoardLockProofs` has any number.

Fairness. `WF_vars(Scheduler)` in `Dispatch`: the loop of `role_base.run` takes a tick
whenever the process runs. `WF_vars(Restart)`: a stopped scheduler is started
again. `WF_vars(Expire(c))`: time passes; the heartbeat disables it and enables
it again, so it binds only once nobody renews. `WF_vars(HeartbeatStops(w))`: the
thread ends at the latest after `timeout_s`. Nothing is assumed of executors and
workers: a card settles also if they never answer. `WF_vars(Scheduler)` in `Worktree`
is the same loop, its restart included; the idle tick that prunes comes round as long
as there is nothing to commit. The other modules state safety only.

## Disagreements with the documentation

Shown by runs:

1. `retry_claim` clears a claim before it writes its successor, and rolls back
   only in the same process. `retry.py:165` promises that a card in an execution
   column always has a claim. Run `retry_crash`.
2. `docs/v0.1.2-concurrency-plan.md:49` promises that a crashed worker never
   leaves a card un-runnable. Its `.acquiring` file does. Run `lost_sentinel`.
3. `worker.py:86` calls a premature recovery the worst case of a heartbeat gone
   wrong. A late one revives the claim of a committed card. Run `late_heartbeat`.
4. `worktree/__init__.py:3` promises isolated branches. A removal disturbed by a
   late agent, then replayed, commits the project's checkout. Run `stray_detach`.

Met while modelling, with no run of their own:

- `kanban run`, `tick` and their relatives schedule without holding the lock, against
  the single-writer rule of `docs/v0.1.2-concurrency-plan.md:466`.
- An event line that cannot be appended fails a transition whose card is written,
  against `docs/kanban-web-write-actions-safety-plan.md:123`. In `CardFiles` it is the
  outcome `failed late`.
- A router specification that cannot be parsed fails the execution, which is retried
  and, when the retries are spent, blocks the card, where `docs/agent-router-design.md:252`
  has it fall through. In `Routing`: `LoadClient`, the second exception of `RouterHarmless`.
- An envelope drops what the executor says of its routing (`store_markdown/runtime.py:100`:
  profile, backend, reason, router version, fallback, session), so the events of a
  worker's card cannot have them, as `docs/agent-profile-acp-design.md:680`,
  `docs/agent-profile-acp-adr.md:246` and `docs/agent-router-design.md:365` ask. `kanban run` and
  `tick`, which commit what the executor returns, record them.
- A chunk of an earlier ACP session that carries no session id, or that arrives in a
  turn without one, is read as part of the answer (`executors/backends/acp_backend.py:123`), where
  the docstring at line 104 says late chunks are not misattributed.
- A failing `git status` counts as a clean tree, where the docstring of `_auto_commit`
  (`worktree/__init__.py:359`) promises True only without uncommitted changes; they are then
  removed with the directory. In `Worktree`: `overlooked`.
- The fallback comes before the retries, where `docs/agent-profile-acp-design.md:648`
  has it after them.
- A kill between BLOCKED and the detach leaves the directory, where
  `docs/worktree-isolation-design.md` has the next prune remove it.

## Proofs

The constants have the types their modules assume; nothing else is assumed, but for
what a theorem names. Each theorem rests on an inductive invariant, which TLC
checked before it was proved.

`DispatchProofs`, for every board, dependency relation, number of workers and budgets;
card ranks differ, and the sentinels for "no claim", "no worker" and "no job" are no
claim, worker or job.

- `TypeCorrect`: `CrashSpec => []TypeOK`. Inductive with `JobInside`: `job` is a job
  exactly inside a transition, otherwise `status[job.card]` means nothing.
- `NeverStranded`: `Spec => OnlyByHand`, for every operator: only a move to DOING by hand,
  which `kanban move` accepts, leaves a DOING card without a claim. Hence
  `[]DoingClaimed` of operators who do not use it. Not inductive: a state about to clear
  a claim of a DOING card, or to move to DOING a card with no claim, satisfies it.
  `OrderInv` adds the order of the two writes: BLOCKED before the claim is cleared, the
  claim before DOING. `CrashSpec` does not satisfy it (`retry_crash` shows why).
- `OwnersResultOnly`: `CrashSpec => OnlyOwnersResult`. The inductive part is `Newest`: a
  live claim is the last issued for its card. The steps of workers and clock are
  handled together (`WorkersAreQuiet`).

`DispatchClaimsProofs`, under the same assumptions.

- `NeverOverClaims`: `CrashSpec => []ClaimsBounded`. A tick with budget left on a full
  board, and a `retry_claim` about to create on one, satisfy the bound and break it.
  `BudgetInv` adds that live claims and remaining budget together fit (`ClaimBudget`)
  and, since a retry makes room only if it removed a claim, that what recovery has read
  and not handled is alive and one per card (`StaleAlive`).
- `LiveResultsStay`: `CrashSpec => OrphansAreSuperseded`. `ResultInv` adds that claims
  are numbered before anybody knows of them, that who executes or has answered a live
  claim owns it, and that the claim of a result about to be deleted is spent. Only
  `Acquire` to `Finish` touch the second; all other steps are handled by what they do to
  claims (`FreshKeepsOwners`).

`DispatchFlowProofs`, under the same assumptions.

- `DispatchImplementsWorkflow`: `Spec => WF!WfSpec`, whose columns and counters are the
  abstract ones. A card in REVIEW whose claim is a worker's, or a second answer to an
  attempt already committed, would move it as no workflow does. `AnswerInv` adds to
  `ResultInv` that an attempt is answered once, by the role that was asked, and not
  while it still executes; `FlowInv`, that claims and what recovery has read fit their
  columns, and so does the card of every transition under way. Each action of the
  scheduler then maps to a step of the workflow or a stutter (`WorkflowStep`).
- `ClaimsFit`: `Spec => []ClaimFitsColumn`, a part of `FlowInv`.
- `NeverOverWip`: `Spec => []WipRespected`, if the operator moves no card to DOING or REVIEW
  by hand, for which the code has no gate. It follows from the step of the workflow
  and three facts about cardinalities (`WorkCount`), without looking at `Dispatch` again.
- `ReworksAreAsked`: `Spec => []ReworkCounted`. `Uncounted`: there is room in the counter
  for each answer that asks for a rework and is not yet accepted.
- `FinishedStaysFinished`: `CrashSpec => DoneIsFinal`. `ApprovalInv`: the claim of a card that
  is DONE is spent, unless its own approval is on file or just read, as after a kill
  between the move and the clearing of the claim.

`ClaimFilesProofs`, any number of workers, retries and heartbeats.

- `TypeCorrect`, part of `ClaimInv`.
- `ClaimHasOneWorker`. Two workers that have read the same unassigned file satisfy
  `OneWorkerPerClaim` and violate it two steps later, so `ClaimInv` adds what the
  sentinel excludes (`SentinelExcludes`), that claims were issued (`Issued`), and that a
  claim's holder is unique (`HolderIsUnique`). A holder is also who is named in the
  temporary file, which anybody may move; a claim with a holder is unassigned nowhere
  but in the file its holder is about to replace.
- `OwnerNeverChanges`, an action property, from `ClaimInv`.

The last two hold while sentinels are removed only by the worker that created them;
`lost_sentinel` shows what a worker killed in between leaves.

`BoardLockProofs`, any number of daemons and any commands, whose starts and calls overlap
as they like.

- `TypeCorrect`, with the order of a command's calls (`OrderedCommand`), which the lists of
  `StepsOf` have and every step keeps: the lock is looked at before a write, the claim
  between the two, and the board is loaded there unless the command loads first.
- `LockIsHeld`, `SingleScheduler`. Who is about to remove a file it judged stale while a
  daemon has just taken the lock satisfies `LockHeld` for one more step. As long as
  nothing was disturbed, `LockInv` says that the file is that of every daemon from its
  creation to its release (`Owned`), that who removes a stale file does so with no daemon
  at work and no other clean-up beside it (`RemovesVacant`), that no start runs beside a
  command that may judge a file malformed (`ControlsAlone`), and that a command that has
  looked knows the daemons since (`KnowsDaemons`).
- `WritesAreGuarded`, `WritesAreFresh`. `BoardInv` adds that a claim not seen at the look was
  made by a later daemon (`ClaimKnown`), that a card loaded behind the look is current
  unless a later daemon wrote (`CardKnown`), that a daemon in a tick has the card as it is
  (`TicksCurrent`), and that only a disturbed board has a daemon forced out (`ForcedOut`).
  `kanban` and the web server, which load before they look, are the exception
  `FreshWrites` itself makes (a listed hazard).

`CardFilesProofs`, any cards, dependencies, failures and kills.

- `FilesImplementBoard`: `Spec => Board!StoreSpec`. Only `Rename` changes the board, and
  `FilesInv` says what is renamed: until then the call has the old content and the
  memory the new one, in the shape its operation gives it.
- `DecidesOnFiles`, `EventsAfterFacts`, `TypeCorrect`, from `FilesInv` as well.
- `TransitionsAreAtomic`, `WarnedOrComplete`. `OneWrite` divides a transition into four
  phases: untouched, being written, followed by its dependents, ended. In the third
  every dependent that waits is in `todo`, unless a warning was given
  (`WaitingShrinks`: a dependent that moves makes nobody else wait).

`WorktreeProofs`, any budgets.

- `NoWorkLost`: `Spec => []WorkKept`. `WorkInv` adds that commits are on a branch, that
  an agent has a live claim and a directory, that nobody works from the decision to
  give a claim up to its removal, and that what is removed was committed or hidden by a
  failing `git status` (`RemovesClean`).
- `FinishedIsDetached`. `DetachInv`: the card knows of its directory, and a finished
  card that has one is inside a detach or keeps the result that will start one.
- `ClaimsAreIsolated`: `Spec => Isolated`. `PlaceInv`: whoever hands a claim out has linked the
  directory just before; a claim with no recorded branch is of a finished card, on
  which nobody has worked.

`RoutingProofs`, any profiles, configurations, criteria and directories. `Nothing`, the
absence of a decision, an execution or an answer, is none of those (`NothingAssumption`),
and the two states of a client without a session are no directories.

- `RoutingTypes`, `OnlyTheRole`, `DecisionsAreFresh`, `VersionsAreAttributed`, `AnswersAreHeardOnce`,
  `RouterWorksInPlace`, `RouterBlocksNothing`, `OneFallback`: each of the invariants of the
  run. `RoutingInv` says what each phase of an execution has established so far
  (`Underway`), what it returns (`Returning`) and what an envelope keeps of that
  (`Submitted`), that nothing from before a prompt is in the inbox during it (`Drained`),
  and that an entry of the cache was decided for the request that is its key (`Keeps`),
  whoever stored it.
- `CriteriaAreKept`: `Spec => ContractKept`, an action property, from `RoutingInv`.

Every safety and action property of a passing run is thus a theorem. Checked by TLC
only, for good, being out of the prover's reach: the liveness properties `Settles`,
`EnvelopesConsumed` and `Reclaimed`.

## Plan

Done: `Workflow`, `Dispatch`, `ClaimFiles`; `BoardLock` with the shutdown of the combined
daemon; `Worktree`; `Routing`; `CardFiles` with `BoardStore` and the operator's transitions.

Left:

1. Two processes on one temporary file in `CardFiles`, for `--force`.
2. Two executions in one process in `Routing`, when the code allows it.
3. An abstract claim that both `Dispatch` and, without late heartbeats, `ClaimFiles` implement.

## Not modelled

Worker presence files, the codecs of claims, cards and profiles, transcripts and
traces, web assets, init and demo output, views: sequential I/O or presentation on
which no transition depends. `_gc_orphaned_runtime` and the branches for missing
cards act only on deleted cards. The in-memory store's claims and lists live in one
process. Snapshots of ignored files before a detach and diffs change nothing else.
The session metadata and costs an execution reports are data. `--force` is the
operator's own decision to drop the guards.
