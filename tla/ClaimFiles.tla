----------------------------- MODULE ClaimFiles -----------------------------
(***************************************************************************)
(* The claim file of one card, at the granularity of single file reads and *)
(* writes.  Dispatch takes every operation of RuntimeStore as one step;    *)
(* here create_claim, renew_claim, clear_claim and try_acquire_claim are   *)
(* the read followed by the write that they are, so the scheduler, the     *)
(* workers and their heartbeat threads overwrite and remove each other's   *)
(* file.  A write fills <card>.json.tmp, which all writers share, and then *)
(* moves it into place, so that one of them may move what another filled,  *)
(* and find nothing to move.  Filling the file is one step here: that it   *)
(* is first emptied is left out.  The card is reduced to whether its work  *)
(* is open, done or blocked; nobody crashes, but the scheduler and an      *)
(* acquiring worker end with an exception.                                 *)
(***************************************************************************)
EXTENDS Naturals

CONSTANTS
    Workers,        \* worker ids
    RetryBudget,    \* RetryPolicy.budget_for, the same for every category
    MaxBeats,       \* bound on the heartbeats of the whole behaviour
    NoClaim,        \* "no claim file"
    NoWorker        \* "unassigned" (worker_id is None)

ASSUME ClaimFilesAssumption ==
    /\ RetryBudget \in Nat
    /\ MaxBeats \in Nat
    /\ NoWorker \notin Workers

Claim == [id : Nat, owner : Workers \cup {NoWorker}, retries : Nat, expired : BOOLEAN]
Envelope == [id : Nat, worker : Workers, ok : BOOLEAN]

(* What the scheduler is in the middle of: the claim to be cleared, if it  *)
(* is to be replaced, and the loop it came from.                           *)
Job == [id : Nat, retries : Nat, replace : BOOLEAN, from : {"commit", "recover", "select"}]

(* A worker of run_once, and the claim it has read.                        *)
WorkerState == [phase : {"idle", "reading"}, claim : {NoClaim}]
               \cup [phase : {"writing", "replacing", "running"}, claim : Claim]
Beat == [worker : Workers, claim : Claim, filled : BOOLEAN]

ASSUME NoClaimFileAssumption == NoClaim \notin Claim

VARIABLES
    column,      \* the card: "open", "done" or "blocked"
    file,        \* runtime/claims/<card>.json, or NoClaim
    tmp,         \* runtime/claims/<card>.json.tmp, or NoClaim
    issued,      \* claims created so far; ids are their numbers
    results,     \* envelopes in runtime/results
    sentinel,    \* is there a runtime/claims/<card>.acquiring file?
    worker,      \* worker[w]: phase of run_once, and the claim it has read
    beats,       \* heartbeats that have read the claim and not yet replaced it
    pc,          \* the scheduler's next step
    todo,        \* envelopes read by commit_pending_results, not handled
    stale,       \* claims returned by list_stale_claims, not handled
    job,         \* the claim being cleared, replaced or created
    beaten       \* heartbeats so far

schedVars == <<pc, todo, stale, job>>
disk == <<file, tmp>>
vars == <<column, disk, issued, results, sentinel, worker, beats,
          pc, todo, stale, job, beaten>>

Columns == {"open", "done", "blocked"}
Controls == {"down", "idle", "commit", "recover", "select",
             "clear", "unlink", "create", "write", "replace", "delete"}
Idle == [phase |-> "idle", claim |-> NoClaim]
NoJob == [id |-> 0, retries |-> 0, replace |-> FALSE, from |-> "select"]

Init ==
    /\ column = "open"
    /\ file = NoClaim /\ tmp = NoClaim
    /\ issued = 0
    /\ results = {}
    /\ sentinel = FALSE
    /\ worker = [w \in Workers |-> Idle]
    /\ beats = {}
    /\ pc = "idle"
    /\ todo = {}
    /\ stale = {}
    /\ job = NoJob
    /\ beaten = 0

-----------------------------------------------------------------------------
(* Workers.                                                                *)

Unassigned == file # NoClaim /\ file.owner = NoWorker
Renewed(claim, w) == [claim EXCEPT !.owner = w, !.expired = FALSE]

(* os.replace: what is moved is what was written last, whoever wrote it.   *)
Replaced == tmp # NoClaim /\ file' = tmp /\ tmp' = NoClaim
NothingToReplace == tmp = NoClaim /\ UNCHANGED disk

(* Mutant: the sentinel does not exclude other workers.                    *)
OpenShared(w) ==
    /\ worker[w].phase = "idle"
    /\ Unassigned
    /\ sentinel' = TRUE
    /\ worker' = [worker EXCEPT ![w].phase = "reading"]
    /\ UNCHANGED <<column, disk, issued, results, beats, schedVars, beaten>>

(* try_acquire_claim: O_EXCL creation of the sentinel ...                  *)
Open(w) ==
    /\ worker[w].phase = "idle"
    /\ Unassigned
    /\ ~sentinel
    /\ sentinel' = TRUE
    /\ worker' = [worker EXCEPT ![w].phase = "reading"]
    /\ UNCHANGED <<column, disk, issued, results, beats, schedVars, beaten>>

(* Mutant: only another owner makes the worker give up, not a claim file   *)
(* that is gone.                                                           *)
ReadMissing(w) ==
    /\ worker[w].phase = "reading"
    /\ IF file = NoClaim \/ Unassigned
       THEN /\ worker' = [worker EXCEPT ![w] = [phase |-> "writing", claim |-> file]]
            /\ UNCHANGED sentinel
       ELSE /\ worker' = [worker EXCEPT ![w] = Idle]
            /\ sentinel' = FALSE
    /\ UNCHANGED <<column, disk, issued, results, beats, schedVars, beaten>>

(* ... the claim is read; the worker gives up unless it is unassigned ...  *)
ReadToAcquire(w) ==
    /\ worker[w].phase = "reading"
    /\ IF Unassigned
       THEN /\ worker' = [worker EXCEPT ![w] = [phase |-> "writing", claim |-> file]]
            /\ UNCHANGED sentinel
       ELSE /\ worker' = [worker EXCEPT ![w] = Idle]
            /\ sentinel' = FALSE
    /\ UNCHANGED <<column, disk, issued, results, beats, schedVars, beaten>>

(* ... what was read is written with an owner ...                          *)
WriteAcquired(w) ==
    /\ worker[w].phase = "writing"
    /\ tmp' = Renewed(worker[w].claim, w)
    /\ worker' = [worker EXCEPT ![w].phase = "replacing"]
    /\ UNCHANGED <<column, file, issued, results, sentinel, beats, schedVars, beaten>>

(* ... and moved into place, and the sentinel is removed.  Without a file  *)
(* to move the acquisition raises, and the worker starts again.            *)
ReplaceAcquired(w) ==
    /\ worker[w].phase = "replacing"
    /\ sentinel' = FALSE
    /\ \/ Replaced /\ worker' = [worker EXCEPT ![w].phase = "running"]
       \/ NothingToReplace /\ worker' = [worker EXCEPT ![w] = Idle]
    /\ UNCHANGED <<column, issued, results, beats, schedVars, beaten>>

(* renew_claim, read: it raises, and the heartbeat thread ends, unless the *)
(* claim is still the worker's.  (Here a thread may begin again.)          *)
BeatRead(w) ==
    /\ worker[w].phase = "running"
    /\ file # NoClaim
    /\ file.id = worker[w].claim.id
    /\ \A b \in beats : ~(b.worker = w /\ b.claim.id = file.id)
    /\ beaten < MaxBeats
    /\ beaten' = beaten + 1
    /\ beats' = beats \cup {[worker |-> w, claim |-> file, filled |-> FALSE]}
    /\ UNCHANGED <<column, disk, issued, results, sentinel, worker, schedVars>>

Filled(b) == (beats \ {b}) \cup {[b EXCEPT !.filled = TRUE]}

(* Mutant: the heartbeat does not say which worker it beats for.           *)
BeatWriteUnowned(b) ==
    /\ ~b.filled
    /\ tmp' = [b.claim EXCEPT !.owner = NoWorker, !.expired = FALSE]
    /\ beats' = Filled(b)
    /\ UNCHANGED <<column, file, issued, results, sentinel, worker, schedVars, beaten>>

(* renew_claim, write: whatever is there now is replaced by what was read, *)
(* with a new lease.  The thread may be later than its worker, which waits *)
(* for it two seconds at most.                                             *)
BeatWrite(b) ==
    /\ ~b.filled
    /\ tmp' = Renewed(b.claim, b.worker)
    /\ beats' = Filled(b)
    /\ UNCHANGED <<column, file, issued, results, sentinel, worker, schedVars, beaten>>

BeatReplace(b) ==
    /\ b.filled
    /\ Replaced \/ NothingToReplace
    /\ beats' = beats \ {b}
    /\ UNCHANGED <<column, issued, results, sentinel, worker, schedVars, beaten>>

(* The executor returns or raises, and the envelope is written.            *)
Finish(w, ok) ==
    /\ worker[w].phase = "running"
    /\ results' = results \cup {[id |-> worker[w].claim.id, worker |-> w, ok |-> ok]}
    /\ worker' = [worker EXCEPT ![w] = Idle]
    /\ UNCHANGED <<column, disk, issued, sentinel, beats, schedVars, beaten>>

Expire ==
    /\ file # NoClaim
    /\ ~file.expired
    /\ file' = [file EXCEPT !.expired = TRUE]
    /\ UNCHANGED <<column, tmp, issued, results, sentinel, worker, beats, schedVars, beaten>>

-----------------------------------------------------------------------------
(* The scheduler: run_once.                                                *)

BeginTick ==
    /\ pc = "idle"
    /\ pc' = "commit"
    /\ todo' = results
    /\ UNCHANGED <<column, disk, issued, results, sentinel, worker, beats, stale, job, beaten>>

(* The ownership checks of commit_pending_results.                         *)
Accepted(e) ==
    /\ file # NoClaim
    /\ file.id = e.id
    /\ file.owner = e.worker

Quarantine(e) ==
    /\ pc = "commit" /\ e \in todo
    /\ ~Accepted(e)
    /\ results' = results \ {e}
    /\ todo' = todo \ {e}
    /\ UNCHANGED <<column, disk, issued, sentinel, worker, beats, pc, stale, job, beaten>>

(* A successful result ends the card's work; its claim is then cleared.    *)
Apply(e) ==
    /\ pc = "commit" /\ e \in todo
    /\ Accepted(e)
    /\ e.ok
    /\ column' = "done"
    /\ job' = [id |-> e.id, retries |-> 0, replace |-> FALSE, from |-> "commit"]
    /\ pc' = "clear"
    /\ todo' = todo \ {e}
    /\ UNCHANGED <<disk, issued, results, sentinel, worker, beats, stale, beaten>>

(* retry_or_block: the claim will be replaced, or the card is blocked and  *)
(* the claim will be cleared.                                              *)
RetryOrBlock(claim) ==
    LET retry == claim.retries < RetryBudget
    IN  /\ column' = IF retry THEN column ELSE "blocked"
        /\ job' = [id |-> claim.id, retries |-> claim.retries + 1,
                   replace |-> retry, from |-> pc]
        /\ pc' = "clear"

HandleFailure(e) ==
    /\ pc = "commit" /\ e \in todo
    /\ Accepted(e)
    /\ ~e.ok
    /\ RetryOrBlock(file)
    /\ todo' = todo \ {e}
    /\ UNCHANGED <<disk, issued, results, sentinel, worker, beats, stale, beaten>>

BeginRecovery ==
    /\ pc = "commit" /\ todo = {}
    /\ pc' = "recover"
    /\ stale' = {c \in {file} : c # NoClaim /\ c.expired}
    /\ UNCHANGED <<column, disk, issued, results, sentinel, worker, beats, todo, job, beaten>>

(* What list_stale_claims returned is handled without another look.        *)
Recover(claim) ==
    /\ pc = "recover" /\ claim \in stale
    /\ RetryOrBlock(claim)
    /\ stale' = stale \ {claim}
    /\ UNCHANGED <<disk, issued, results, sentinel, worker, beats, todo, beaten>>

BeginSelection ==
    /\ pc = "recover" /\ stale = {}
    /\ pc' = "select"
    /\ UNCHANGED <<column, disk, issued, results, sentinel, worker, beats, todo, stale, job,
                   beaten>>

(* select_and_claim.                                                       *)
Select ==
    /\ pc = "select"
    /\ IF column = "open" /\ file = NoClaim
       THEN job' = [id |-> 0, retries |-> 0, replace |-> TRUE, from |-> "select"] /\ pc' = "create"
       ELSE pc' = "idle" /\ UNCHANGED job
    /\ UNCHANGED <<column, disk, issued, results, sentinel, worker, beats, todo, stale, beaten>>

-----------------------------------------------------------------------------
(* RuntimeStore.                                                           *)

Die == pc' = "down" /\ todo' = {} /\ stale' = {} /\ job' = NoJob
Finished == IF job.from = "commit" THEN "delete"
            ELSE IF job.from = "recover" THEN "recover" ELSE "idle"
Cleared == IF job.replace THEN "create" ELSE Finished

(* clear_claim, read: without a claim there is nothing to clear, and the   *)
(* ClaimMismatchError of another claim ends the daemon.                    *)
ClearRead ==
    /\ pc = "clear"
    /\ \/ file = NoClaim /\ pc' = Cleared /\ UNCHANGED <<todo, stale, job>>
       \/ file # NoClaim /\ file.id = job.id /\ pc' = "unlink" /\ UNCHANGED <<todo, stale, job>>
       \/ file # NoClaim /\ file.id # job.id /\ Die
    /\ UNCHANGED <<column, disk, issued, results, sentinel, worker, beats, beaten>>

(* clear_claim, unlink of whatever is there by now.                        *)
Unlink ==
    /\ pc = "unlink"
    /\ file' = NoClaim
    /\ pc' = Cleared
    /\ UNCHANGED <<column, tmp, issued, results, sentinel, worker, beats, todo, stale, job, beaten>>

(* create_claim: a claim file in the way raises ClaimConflictError, which  *)
(* the rollback of retry_claim meets again.                                *)
CreateCheck ==
    /\ pc = "create"
    /\ \/ file = NoClaim /\ pc' = "write" /\ UNCHANGED <<todo, stale, job>>
       \/ file # NoClaim /\ Die
    /\ UNCHANGED <<column, disk, issued, results, sentinel, worker, beats, beaten>>

CreateWrite ==
    /\ pc = "write"
    /\ tmp' = [id |-> issued + 1, owner |-> NoWorker, retries |-> job.retries,
               expired |-> FALSE]
    /\ issued' = issued + 1
    /\ pc' = "replace"
    /\ UNCHANGED <<column, file, results, sentinel, worker, beats, todo, stale, job, beaten>>

(* Who moved the new claim has put a claim file in the way of a rollback.  *)
CreateReplace ==
    /\ pc = "replace"
    /\ \/ Replaced /\ pc' = Finished /\ UNCHANGED <<todo, stale, job>>
       \/ NothingToReplace /\ Die
    /\ UNCHANGED <<column, issued, results, sentinel, worker, beats, beaten>>

DeleteResult ==
    /\ pc = "delete"
    /\ results' = {e \in results : e.id # job.id}
    /\ pc' = "commit"
    /\ UNCHANGED <<column, disk, issued, sentinel, worker, beats, todo, stale, job, beaten>>

Restart ==
    /\ pc = "down"
    /\ pc' = "idle"
    /\ UNCHANGED <<column, disk, issued, results, sentinel, worker, beats, todo, stale, job,
                   beaten>>

-----------------------------------------------------------------------------
WorkerStep(w) ==
    \/ Open(w) \/ ReadToAcquire(w) \/ WriteAcquired(w) \/ ReplaceAcquired(w) \/ BeatRead(w)
    \/ \E ok \in BOOLEAN : Finish(w, ok)

Scheduler ==
    \/ BeginTick
    \/ \E e \in todo : Quarantine(e) \/ Apply(e) \/ HandleFailure(e)
    \/ BeginRecovery \/ (\E claim \in stale : Recover(claim)) \/ BeginSelection \/ Select
    \/ ClearRead \/ Unlink \/ CreateCheck \/ CreateWrite \/ CreateReplace \/ DeleteResult
    \/ Restart

Next ==
    \/ Scheduler \/ Expire
    \/ \E w \in Workers : WorkerStep(w)
    \/ \E b \in beats : BeatWrite(b) \/ BeatReplace(b)

Spec == Init /\ [][Next]_vars

-----------------------------------------------------------------------------
(* Shape of every variable.                                                *)
TypeOK ==
    /\ column \in Columns
    /\ file \in Claim \cup {NoClaim} /\ tmp \in Claim \cup {NoClaim}
    /\ issued \in Nat
    /\ results \subseteq Envelope
    /\ sentinel \in BOOLEAN
    /\ worker \in [Workers -> WorkerState]
    /\ beats \subseteq Beat
    /\ pc \in Controls
    /\ todo \subseteq Envelope
    /\ stale \subseteq Claim
    /\ job \in Job
    /\ beaten \in Nat

(* Two workers never execute the same claim, however their reads and       *)
(* writes of the claim file interleave (try_acquire_claim).                *)
OneWorkerPerClaim ==
    \A v, w \in Workers :
        /\ worker[v].phase = "running" /\ worker[w].phase = "running"
        /\ worker[v].claim.id = worker[w].claim.id
        => v = w

(* A claim changes hands once, from nobody to a worker: no read-modify-    *)
(* write of the scheduler, a heartbeat or another worker takes it away.    *)
OwnerIsFixed ==
    [][file # NoClaim /\ file.owner # NoWorker /\ file' # NoClaim /\ file'.id = file.id
            => file'.owner = file.owner]_vars

(* Promised by the repository and not kept by the code: the worst case of  *)
(* a heartbeat gone wrong is a premature stale recovery, which the runtime *)
(* handles (worker.py:87), so work that is committed stays committed.      *)
DoneStaysDone == [][column = "done" => column' = "done"]_vars
=============================================================================
