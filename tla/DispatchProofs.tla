--------------------------- MODULE DispatchProofs ---------------------------
(***************************************************************************)
(* Theorems about Dispatch, for every board, number of workers and budget. *)
(***************************************************************************)
EXTENDS DispatchProps, FiniteSetTheorems, TLAPS

(* The scheduler knows its job exactly while it is inside a transition.    *)
Inside == {"advance", "rewind", "recreate", "clear", "delete", "start"}
JobInside == job # NoJob <=> pc \in Inside

(* When retry_or_block or apply_result come to clear a claim, its card has *)
(* already left DOING; when select_and_claim moves a card to DOING, its    *)
(* claim is already there.                                                 *)
Ordered ==
    /\ pc \in {"advance", "clear"} => status[job.card] # "doing"
    /\ pc = "start" => job.card \in Live

(* A live claim is the newest one issued for its card.                     *)
Newest == \A c \in Live : claims[c].id = issued[c]

TInv == TypeOK /\ JobInside
OrderInv == TInv /\ Ordered
OwnerInv == TInv /\ Newest
-----------------------------------------------------------------------------
(* The cards with a live claim can be counted against max_claims.          *)
LEMMA LiveIsFinite == Cardinality(Live) \in Nat
  <1>1. IsFiniteSet(Live)
    BY DispatchAssumption, FS_Subset DEF DispatchAssumption, Live
  <1> QED
    BY <1>1, FS_CardinalityType

(* The budgets are numbers, and the two sentinels are no records.          *)
LEMMA Bounds ==
    /\ {MaxClaims, WipLimit, InfraBudget, LeaseBudget, ReworkBudget, MaxOps} \subseteq Nat
    /\ MoveTargets \subseteq Statuses
    /\ NoClaim \notin Claim
    /\ NoJob \notin Job
  BY DispatchAssumption, NoClaimAssumption, NoJobAssumption DEF DispatchAssumption, Statuses

(* A fresh board is well formed.                                           *)
LEMMA TypeInit == Init => TypeOK
  <1> SUFFICES ASSUME Init PROVE TypeOK
    OBVIOUS
  <1>1. status \in [Cards -> Statuses]
    BY DispatchAssumption DEF Init, DispatchAssumption, Statuses
  <1>2. worker \in [Workers -> {Idle} \cup Busy]
    BY DEF Init
  <1> QED
    BY <1>1, <1>2 DEF Init, TypeOK, Controls

(* A live claim is a claim of a card of the board.                         *)
LEMMA LiveClaim == TypeOK => \A c \in Live : c \in Cards /\ claims[c] \in Claim
  BY DEF TypeOK, Live

(* An accepted envelope names a card of the board and the job to be done.  *)
LEMMA JobOfType ==
    ASSUME TypeOK, NEW e \in todo, Accepted(e)
    PROVE  /\ e.card \in Cards
           /\ claims[e.card] \in Claim
           /\ JobOf(e) \in Job
           /\ JobOf(e) # NoJob
  <1>1. e.card \in Cards
    BY DEF TypeOK, Envelope
  <1>2. claims[e.card] \in Claim
    BY LiveClaim DEF Accepted
  <1>3. JobOf(e) \in Job
    BY <1>1, <1>2 DEF JobOf, Job
  <1> QED
    BY <1>1, <1>2, <1>3, Bounds

(* A new owner with a new lease, or a lease run out, leaves a claim the     *)
(* claim it was.                                                           *)
SameClaim(new, old) ==
    /\ new = NoClaim <=> old = NoClaim
    /\ old # NoClaim => new.id = old.id /\ new.role = old.role

(* try_acquire_claim and renew_claim write back the claim they read with   *)
(* an owner and a new lease: the claims stay well formed.                  *)
LEMMA ClaimUpdate ==
    ASSUME TypeOK, NEW c \in Live, NEW w \in Workers, NEW new,
           new = [claims EXCEPT ![c].owner = w, ![c].expired = FALSE]
    PROVE  /\ new \in [Cards -> Claim \cup {NoClaim}]
           /\ \A d \in Cards : SameClaim(new[d], claims[d])
  <1>1. c \in Cards /\ claims[c] \in Claim
    BY LiveClaim
  <1> DEFINE written == [claims[c] EXCEPT !.owner = w, !.expired = FALSE]
  <1>2. written \in Claim /\ written.id = claims[c].id /\ written.role = claims[c].role
    BY <1>1 DEF Claim
  <1>3. new = [claims EXCEPT ![c] = written]
    BY <1>1 DEF TypeOK
  <1> HIDE DEF written
  <1> QED
    BY <1>1, <1>2, <1>3, Bounds DEF TypeOK, SameClaim

(* So does letting a lease run out.                                        *)
LEMMA ClaimExpiry ==
    ASSUME TypeOK, NEW c \in Live, NEW new, new = [claims EXCEPT ![c].expired = TRUE]
    PROVE  /\ new \in [Cards -> Claim \cup {NoClaim}]
           /\ \A d \in Cards : SameClaim(new[d], claims[d])
  <1>1. c \in Cards /\ claims[c] \in Claim
    BY LiveClaim
  <1> DEFINE written == [claims[c] EXCEPT !.expired = TRUE]
  <1>2. written \in Claim /\ written.id = claims[c].id /\ written.role = claims[c].role
    BY <1>1 DEF Claim
  <1>3. new = [claims EXCEPT ![c] = written]
    BY <1>1 DEF TypeOK
  <1> HIDE DEF written
  <1> QED
    BY <1>1, <1>2, <1>3, Bounds DEF TypeOK, SameClaim

(* retry_or_block touches one card: it either removes the claim and leaves  *)
(* the column, or blocks the card and leaves the claim.                    *)
LEMMA RetryOrBlockWrites ==
    ASSUME TypeOK, NEW c \in Cards, NEW failed, NEW category, RetryOrBlock(c, failed, category)
    PROVE  /\ status' \in [Cards -> Statuses]
           /\ claims' \in [Cards -> Claim \cup {NoClaim}]
           /\ \A d \in Cards : d # c => status'[d] = status[d] /\ claims'[d] = claims[d]
           /\ \/ pc' = "recreate" /\ claims'[c] = NoClaim /\ status'[c] = status[c]
              \/ pc' = "clear" /\ claims'[c] = claims[c] /\ status'[c] = "blocked"
  <1>1. CASE failed.retries < Budget(category)
    BY <1>1 DEF RetryOrBlock, TypeOK
  <1>2. CASE ~(failed.retries < Budget(category))
    BY <1>2 DEF RetryOrBlock, TypeOK, Statuses
  <1> QED
    BY <1>1, <1>2

(* A busy worker that moves to another phase keeps its card and claim.     *)
LEMMA BusyUpdate ==
    ASSUME TypeOK, NEW w \in Workers, worker[w].phase # "idle", NEW p \in Phases \ {"idle"}
    PROVE  /\ worker[w] \in Busy
           /\ [worker EXCEPT ![w].phase = p] \in [Workers -> {Idle} \cup Busy]
  <1>1. worker[w] \in Busy
    BY DEF TypeOK, Idle
  <1>2. [worker[w] EXCEPT !.phase = p] \in Busy
    BY <1>1 DEF Busy
  <1> QED
    BY <1>1, <1>2 DEF TypeOK

(* Every step of the runtime, the kill of the scheduler included, keeps    *)
(* every variable well formed.                                             *)
LEMMA TypeStep == TInv /\ [CrashNext]_vars => TInv'
  <1> SUFFICES ASSUME TInv, [CrashNext]_vars PROVE TInv'
    OBVIOUS
  <1> USE Bounds DEF TInv, TypeOK, JobInside, Inside, Controls, cardVars, schedVars
  <1>1. ASSUME NEW w \in Workers, NEW c \in Cards, Acquire(w, c) PROVE TInv'
    <2>1. [phase |-> "acquiring", card |-> c, id |-> claims[c].id, role |-> claims[c].role] \in Busy
      BY <1>1, LiveClaim DEF Acquire, Busy, Phases, Claim
    <2> QED
      BY <1>1, <2>1 DEF Acquire
  <1>2. ASSUME NEW w \in Workers, TakeClaim(w) PROVE TInv'
    <2>1. worker[w] \in Busy
      BY <1>2, BusyUpdate DEF TakeClaim, Phases
    <2>2. CASE worker[w].card \in Live /\ claims[worker[w].card].owner = NoWorker
      <3>1. claims' \in [Cards -> Claim \cup {NoClaim}]
        <4>1. claims' = [claims EXCEPT ![worker[w].card].owner = w,
                                       ![worker[w].card].expired = FALSE]
          BY <1>2, <2>2 DEF TakeClaim
        <4> QED
          BY <2>2, <4>1, ClaimUpdate
      <3>2. [phase |-> "releasing", card |-> worker[w].card, id |-> claims[worker[w].card].id,
             role |-> claims[worker[w].card].role] \in Busy
        BY <2>1, <2>2, LiveClaim DEF Busy, Phases, Claim
      <3> QED
        BY <1>2, <2>2, <3>1, <3>2 DEF TakeClaim
    <2>3. CASE ~(worker[w].card \in Live /\ claims[worker[w].card].owner = NoWorker)
      BY <1>2, <2>3 DEF TakeClaim
    <2> QED
      BY <2>2, <2>3
  <1>3. ASSUME NEW w \in Workers, ReleaseSentinel(w) PROVE TInv'
    <2>1. worker' \in [Workers -> {Idle} \cup Busy]
      BY <1>3, BusyUpdate DEF ReleaseSentinel, Phases
    <2> QED
      BY <1>3, <2>1 DEF ReleaseSentinel
  <1>4. ASSUME NEW w \in Workers, Heartbeat(w) PROVE TInv'
    <2>1. worker[w].card \in Live
      BY <1>4, BusyUpdate DEF Heartbeat, Owns, MyClaim, Live, Busy, Phases
    <2>2. claims' \in [Cards -> Claim \cup {NoClaim}]
      BY <1>4, <2>1, ClaimUpdate DEF Heartbeat
    <2> QED
      BY <1>4, <2>2 DEF Heartbeat
  <1>5. ASSUME NEW w \in Workers, HeartbeatStops(w) PROVE TInv'
    <2>1. worker' \in [Workers -> {Idle} \cup Busy]
      BY <1>5, BusyUpdate DEF HeartbeatStops, Phases
    <2> QED
      BY <1>5, <2>1 DEF HeartbeatStops
  <1>6. ASSUME NEW w \in Workers, NEW o \in Outcomes, Finish(w, o) PROVE TInv'
    <2>1. worker[w] \in Busy
      BY <1>6, BusyUpdate DEF Finish, Phases
    <2>2. [card |-> worker[w].card, id |-> worker[w].id, worker |-> w, outcome |-> o] \in Envelope
      BY <2>1 DEF Busy, Envelope
    <2>3. asked' \in [Cards -> Nat]
      BY <1>6, <2>1 DEF Finish, Busy
    <2> QED
      BY <1>6, <2>2, <2>3 DEF Finish
  <1>7. ASSUME NEW w \in Workers, WorkerLost(w) PROVE TInv'
    BY <1>7 DEF WorkerLost
  <1>8. ASSUME NEW c \in Cards, Expire(c) PROVE TInv'
    <2>1. claims' \in [Cards -> Claim \cup {NoClaim}]
      BY <1>8, ClaimExpiry DEF Expire
    <2> QED
      BY <1>8, <2>1 DEF Expire
  <1>9. ASSUME BeginTick PROVE TInv'
    BY <1>9 DEF BeginTick
  <1>10. ASSUME NEW e \in todo, Quarantine(e) PROVE TInv'
    BY <1>10 DEF Quarantine
  <1>11. ASSUME NEW e \in todo, ApplyResult(e) PROVE TInv'
    <2>1. job' \in Job /\ job' # NoJob
      BY <1>11, JobOfType DEF ApplyResult
    <2>2. status' \in [Cards -> Statuses]
      BY <1>11 DEF ApplyResult, Statuses
    <2> QED
      BY <1>11, <2>1, <2>2 DEF ApplyResult
  <1>12. ASSUME NEW e \in todo, AcceptRework(e) PROVE TInv'
    <2>1. job' \in Job /\ job' # NoJob
      BY <1>12, JobOfType DEF AcceptRework
    <2>2. iteration' \in [Cards -> Nat]
      BY <1>12, JobOfType DEF AcceptRework
    <2> QED
      BY <1>12, <2>1, <2>2 DEF AcceptRework
  <1>13. ASSUME NEW e \in todo, RefuseRework(e) PROVE TInv'
    <2>1. job' \in Job /\ job' # NoJob
      BY <1>13, JobOfType DEF RefuseRework
    <2>2. status' \in [Cards -> Statuses]
      BY <1>13 DEF RefuseRework, Statuses
    <2> QED
      BY <1>13, <2>1, <2>2 DEF RefuseRework
  <1>14. ASSUME NEW e \in todo, HandleFailure(e) PROVE TInv'
    <2>1. job' \in Job /\ job' # NoJob
      BY <1>14, JobOfType DEF HandleFailure
    <2>2. /\ status' \in [Cards -> Statuses]
          /\ claims' \in [Cards -> Claim \cup {NoClaim}]
          /\ pc' \in {"recreate", "clear"}
      BY <1>14, JobOfType, RetryOrBlockWrites DEF HandleFailure
    <2> QED
      BY <1>14, <2>1, <2>2 DEF HandleFailure
  <1>15. ASSUME Advance PROVE TInv'
    <2>1. status' \in [Cards -> Statuses]
      BY <1>15 DEF Advance, Statuses
    <2> QED
      BY <1>15, <2>1 DEF Advance
  <1>16. ASSUME Rewind PROVE TInv'
    <2>1. status' \in [Cards -> Statuses]
      BY <1>16 DEF Rewind, Statuses
    <2> QED
      BY <1>16, <2>1 DEF Rewind
  <1>17. ASSUME Recreate PROVE TInv'
    <2>1. job \in Job
      BY <1>17 DEF Recreate
    <2>2. [id |-> issued[job.card] + 1, role |-> job.claim.role, owner |-> NoWorker,
           retries |-> job.claim.retries + 1, expired |-> FALSE] \in Claim
      BY <2>1 DEF Job, Claim
    <2>3. claims' \in [Cards -> Claim \cup {NoClaim}] /\ issued' \in [Cards -> Nat]
      BY <1>17, <2>1, <2>2 DEF Recreate, Job
    <2> QED
      BY <1>17, <2>1, <2>3 DEF Recreate
  <1>18. ASSUME ClearClaim PROVE TInv'
    BY <1>18 DEF ClearClaim
  <1>19. ASSUME DeleteResult PROVE TInv'
    BY <1>19 DEF DeleteResult
  <1>20. ASSUME BeginRecovery PROVE TInv'
    <2>1. stale' \subseteq Job
      BY <1>20, LiveClaim DEF BeginRecovery, Job
    <2> QED
      BY <1>20, <2>1 DEF BeginRecovery
  <1>21. ASSUME NEW s \in stale, Recover(s) PROVE TInv'
    <2>1. /\ status' \in [Cards -> Statuses]
          /\ claims' \in [Cards -> Claim \cup {NoClaim}]
          /\ pc' \in {"recreate", "clear"}
      BY <1>21, RetryOrBlockWrites DEF Recover, Job
    <2>2. job' \in Job /\ job' # NoJob
      BY <1>21 DEF Recover
    <2> QED
      BY <1>21, <2>1, <2>2 DEF Recover
  <1>22. ASSUME BeginSelection PROVE TInv'
    <2>1. slots' \in Nat
      BY <1>22, LiveIsFinite DEF BeginSelection
    <2> QED
      BY <1>22, <2>1 DEF BeginSelection
  <1>23. ASSUME NEW c \in Cards, NEW s \in {"review", "ready", "inbox"}, Select(c, s) PROVE TInv'
    <2>1. NewClaim(c, s) \in Claim
      BY DEF NewClaim, Claim, RoleFor, Roles
    <2>2. [card |-> c, claim |-> NewClaim(c, s), from |-> "select"] \in Job
      BY <2>1 DEF Job
    <2>3. claims' \in [Cards -> Claim \cup {NoClaim}]
      BY <1>23, <2>1 DEF Select
    <2>4. issued' \in [Cards -> Nat] /\ slots' \in Nat
      BY <1>23 DEF Select
    <2> QED
      BY <1>23, <2>2, <2>3, <2>4 DEF Select
  <1>24. ASSUME StartCard PROVE TInv'
    <2>1. status' \in [Cards -> Statuses]
      BY <1>24 DEF StartCard, Statuses
    <2> QED
      BY <1>24, <2>1 DEF StartCard
  <1>25. ASSUME EndTick PROVE TInv'
    BY <1>25 DEF EndTick
  <1>26. ASSUME GoDown, pc # "down" PROVE TInv'
    BY <1>26 DEF GoDown
  <1>27. ASSUME Restart PROVE TInv'
    BY <1>27 DEF Restart
  <1>28. ASSUME NEW c \in Cards, NEW s \in MoveTargets, Operate(c, s) PROVE TInv'
    <2>1. status' \in [Cards -> Statuses]
      BY <1>28 DEF Operate, Statuses
    <2> QED
      BY <1>28, <2>1 DEF Operate
  <1>29. CASE UNCHANGED vars
    BY <1>29 DEF vars
  <1> QED
    BY <1>1, <1>2, <1>3, <1>4, <1>5, <1>6, <1>7, <1>8, <1>9, <1>10, <1>11, <1>12, <1>13, <1>14, <1>15, <1>16, <1>17, <1>18, <1>19, <1>20, <1>21, <1>22, <1>23, <1>24, <1>25, <1>26, <1>27, <1>28, <1>29
    DEF CrashNext, Next, Crash, Scheduler, Commit, Environment, WorkerStep, Stop, GoDown

(* Every file and every process of the runtime keeps its shape, for any    *)
(* board, any workers, any budgets and any number of crashes.              *)
THEOREM TypeCorrect == CrashSpec => []TypeOK
  <1>1. Init => TInv
    BY TypeInit DEF TInv, JobInside, Inside, Init
  <1>2. TInv => TypeOK
    BY DEF TInv
  <1> QED
    BY <1>1, <1>2, TypeStep, PTL DEF CrashSpec

-----------------------------------------------------------------------------
(* Workers and the clock leave the cards and the scheduler alone, and they *)
(* neither create nor remove a claim.                                      *)
Quiet ==
    /\ UNCHANGED <<cardVars, issued, schedVars>>
    /\ \A c \in Cards : SameClaim(claims'[c], claims[c])

(* Steps of a worker and of the clock are quiet.                           *)
LEMMA WorkersAreQuiet ==
    ASSUME TypeOK, (\E w \in Workers : WorkerStep(w)) \/ (\E c \in Cards : Expire(c))
    PROVE  Quiet
  <1> USE DEF Quiet
  <1>1. ASSUME NEW w \in Workers, NEW c \in Cards, Acquire(w, c) PROVE Quiet
    BY <1>1 DEF Acquire, SameClaim
  <1>2. ASSUME NEW w \in Workers, TakeClaim(w) PROVE Quiet
    <2>1. CASE worker[w].card \in Live /\ claims[worker[w].card].owner = NoWorker
      <3>1. claims' = [claims EXCEPT ![worker[w].card].owner = w,
                                     ![worker[w].card].expired = FALSE]
        BY <1>2, <2>1 DEF TakeClaim
      <3>2. \A c \in Cards : SameClaim(claims'[c], claims[c])
        BY <2>1, <3>1, ClaimUpdate
      <3> QED
        BY <1>2, <3>2 DEF TakeClaim
    <2>2. CASE ~(worker[w].card \in Live /\ claims[worker[w].card].owner = NoWorker)
      BY <1>2, <2>2 DEF TakeClaim, SameClaim
    <2> QED
      BY <2>1, <2>2
  <1>3. ASSUME NEW w \in Workers, ReleaseSentinel(w) PROVE Quiet
    BY <1>3 DEF ReleaseSentinel, SameClaim
  <1>4. ASSUME NEW w \in Workers, Heartbeat(w) PROVE Quiet
    <2>1. worker[w].card \in Live
      BY <1>4, BusyUpdate DEF Heartbeat, Owns, MyClaim, Live, Busy, Phases
    <2>2. \A c \in Cards : SameClaim(claims'[c], claims[c])
      BY <1>4, <2>1, ClaimUpdate DEF Heartbeat
    <2> QED
      BY <1>4, <2>2 DEF Heartbeat
  <1>5. ASSUME NEW w \in Workers, HeartbeatStops(w) PROVE Quiet
    BY <1>5 DEF HeartbeatStops, SameClaim
  <1>6. ASSUME NEW w \in Workers, NEW o \in Outcomes, Finish(w, o) PROVE Quiet
    BY <1>6 DEF Finish, SameClaim
  <1>7. ASSUME NEW w \in Workers, WorkerLost(w) PROVE Quiet
    BY <1>7 DEF WorkerLost, SameClaim
  <1>8. ASSUME NEW c \in Cards, Expire(c) PROVE Quiet
    <2>1. \A d \in Cards : SameClaim(claims'[d], claims[d])
      BY <1>8, ClaimExpiry DEF Expire
    <2> QED
      BY <1>8, <2>1 DEF Expire
  <1> QED
    BY <1>1, <1>2, <1>3, <1>4, <1>5, <1>6, <1>7, <1>8 DEF WorkerStep

(* Every step but the kill keeps the order of the scheduler's writes, and  *)
(* strands no card unless it is the operator's.                            *)
StrandsNone ==
    /\ Ordered'
    /\ \A c \in Cards : Stranded(c)' => Stranded(c) \/ Operate(c, "doing")

LEMMA StrandStep == OrderInv /\ [Next]_vars => StrandsNone
  <1> SUFFICES ASSUME OrderInv, [Next]_vars PROVE StrandsNone
    OBVIOUS
  <1> USE Bounds DEF OrderInv, TInv, TypeOK, JobInside, Inside, Ordered, StrandsNone, Stranded, Live,
                     cardVars, schedVars
  <1>1. ASSUME (\E w \in Workers : WorkerStep(w)) \/ (\E c \in Cards : Expire(c)) PROVE StrandsNone
    <2>1. Quiet
      BY <1>1, WorkersAreQuiet
    <2> QED
      BY <2>1 DEF Quiet, SameClaim
  <1>2. ASSUME BeginTick PROVE StrandsNone
    BY <1>2 DEF BeginTick
  <1>3. ASSUME NEW e \in todo, Quarantine(e) PROVE StrandsNone
    BY <1>3 DEF Quarantine
  <1>4. ASSUME NEW e \in todo, ApplyResult(e) PROVE StrandsNone
    <2>1. job'.card = e.card /\ e.card \in Cards
      BY <1>4, JobOfType DEF ApplyResult, JobOf
    <2>2. /\ status'[e.card] # "doing"
          /\ \A c \in Cards : c # e.card => status'[c] = status[c]
      BY <1>4, <2>1 DEF ApplyResult
    <2> QED
      BY <1>4, <2>1, <2>2 DEF ApplyResult
  <1>5. ASSUME NEW e \in todo, AcceptRework(e) PROVE StrandsNone
    BY <1>5 DEF AcceptRework
  <1>6. ASSUME NEW e \in todo, RefuseRework(e) PROVE StrandsNone
    <2>1. job'.card = e.card /\ e.card \in Cards
      BY <1>6, JobOfType DEF RefuseRework, JobOf
    <2>2. /\ status'[e.card] # "doing"
          /\ \A c \in Cards : c # e.card => status'[c] = status[c]
      BY <1>6, <2>1 DEF RefuseRework
    <2> QED
      BY <1>6, <2>1, <2>2 DEF RefuseRework
  <1>7. ASSUME NEW e \in todo, HandleFailure(e) PROVE StrandsNone
    <2>1. job'.card = e.card /\ e.card \in Cards
      BY <1>7, JobOfType DEF HandleFailure, JobOf
    <2>2. \A d \in Cards : d # e.card => status'[d] = status[d] /\ claims'[d] = claims[d]
      BY <1>7, <2>1, RetryOrBlockWrites DEF HandleFailure
    <2>3. \/ pc' = "recreate" /\ claims'[e.card] = NoClaim /\ status'[e.card] = status[e.card]
          \/ pc' = "clear" /\ claims'[e.card] = claims[e.card] /\ status'[e.card] = "blocked"
      BY <1>7, <2>1, RetryOrBlockWrites DEF HandleFailure
    <2> QED
      BY <1>7, <2>1, <2>2, <2>3 DEF HandleFailure
  <1>8. ASSUME Advance PROVE StrandsNone
    <2>1. \A c \in Cards : status'[c] = "doing" => status[c] = "doing"
      BY <1>8 DEF Advance
    <2>2. job \in Job /\ UNCHANGED <<claims, job>> /\ pc' \in {"advance", "clear"}
      BY <1>8 DEF Advance
    <2> QED
      BY <1>8, <2>1, <2>2 DEF Advance, Job
  <1>9. ASSUME Rewind PROVE StrandsNone
    <2>1. job \in Job
      BY <1>9 DEF Rewind
    <2>2. \A c \in Cards : status'[c] = IF c = job.card THEN "ready" ELSE status[c]
      BY <1>9 DEF Rewind
    <2> QED
      BY <1>9, <2>1, <2>2 DEF Rewind, Job
  <1>10. ASSUME Recreate PROVE StrandsNone
    <2>1. pc' \in {"delete", "recover"} /\ UNCHANGED status
      BY <1>10 DEF Recreate
    <2>2. \A c \in Cards : c # job.card => claims'[c] = claims[c]
      BY <1>10 DEF Recreate
    <2>3. job \in Job /\ claims'[job.card] \in Claim
      <3>1. job \in Job
        BY <1>10 DEF Recreate
      <3>2. [id |-> issued[job.card] + 1, role |-> job.claim.role, owner |-> NoWorker,
             retries |-> job.claim.retries + 1, expired |-> FALSE] \in Claim
        BY <3>1 DEF Job, Claim
      <3> QED
        BY <1>10, <3>1, <3>2 DEF Recreate, Job
    <2> QED
      BY <1>10, <2>1, <2>2, <2>3
  <1>11. ASSUME ClearClaim PROVE StrandsNone
    BY <1>11 DEF ClearClaim
  <1>12. ASSUME DeleteResult PROVE StrandsNone
    BY <1>12 DEF DeleteResult
  <1>13. ASSUME BeginRecovery PROVE StrandsNone
    BY <1>13 DEF BeginRecovery
  <1>14. ASSUME NEW s \in stale, Recover(s) PROVE StrandsNone
    <2>1. job' = s /\ s.card \in Cards
      BY <1>14 DEF Recover, Job
    <2>2. \A d \in Cards : d # s.card => status'[d] = status[d] /\ claims'[d] = claims[d]
      BY <1>14, <2>1, RetryOrBlockWrites DEF Recover
    <2>3. \/ pc' = "recreate" /\ claims'[s.card] = NoClaim /\ status'[s.card] = status[s.card]
          \/ pc' = "clear" /\ claims'[s.card] = claims[s.card] /\ status'[s.card] = "blocked"
      BY <1>14, <2>1, RetryOrBlockWrites DEF Recover
    <2> QED
      BY <1>14, <2>1, <2>2, <2>3 DEF Recover
  <1>15. ASSUME BeginSelection PROVE StrandsNone
    BY <1>15 DEF BeginSelection
  <1>16. ASSUME NEW c \in Cards, NEW s \in {"review", "ready", "inbox"}, Select(c, s) PROVE StrandsNone
    <2>1. NewClaim(c, s) \in Claim
      BY DEF NewClaim, Claim, RoleFor, Roles
    <2>2. claims'[c] # NoClaim /\ \A d \in Cards : d # c => claims'[d] = claims[d]
      BY <1>16, <2>1 DEF Select
    <2>3. pc' = "start" => job'.card = c
      BY <1>16 DEF Select
    <2>4. pc' \in {"start", "select"} /\ pc = "select" /\ UNCHANGED status
      BY <1>16 DEF Select
    <2> QED
      BY <2>2, <2>3, <2>4
  <1>17. ASSUME StartCard PROVE StrandsNone
    BY <1>17 DEF StartCard
  <1>18. ASSUME EndTick PROVE StrandsNone
    BY <1>18 DEF EndTick
  <1>19. ASSUME Stop PROVE StrandsNone
    BY <1>19 DEF Stop, GoDown
  <1>20. ASSUME Restart PROVE StrandsNone
    BY <1>20 DEF Restart
  <1>21. ASSUME NEW c \in Cards, NEW s \in MoveTargets, Operate(c, s) PROVE StrandsNone
    BY <1>21 DEF Operate
  <1>22. CASE UNCHANGED vars
    BY <1>22 DEF vars
  <1> QED
    BY <1>1, <1>2, <1>3, <1>4, <1>5, <1>6, <1>7, <1>8, <1>9, <1>10, <1>11, <1>12, <1>13, <1>14, <1>15, <1>16, <1>17, <1>18, <1>19, <1>20, <1>21, <1>22
    DEF Next, Scheduler, Commit, Environment

(* Claims are created with a fresh number and never brought back: every    *)
(* step keeps the live claim the newest one of its card.                   *)
LEMMA NewestStep == OwnerInv /\ [CrashNext]_vars => Newest'
  <1> SUFFICES ASSUME OwnerInv, [CrashNext]_vars PROVE Newest'
    OBVIOUS
  <1> USE Bounds DEF OwnerInv, TInv, TypeOK, JobInside, Inside, Newest, Live, cardVars, schedVars
  <1>1. ASSUME (\E w \in Workers : WorkerStep(w)) \/ (\E c \in Cards : Expire(c)) PROVE Newest'
    <2>1. Quiet
      BY <1>1, WorkersAreQuiet
    <2> QED
      BY <2>1 DEF Quiet, SameClaim
  <1>2. ASSUME BeginTick PROVE Newest'
    BY <1>2 DEF BeginTick
  <1>3. ASSUME NEW e \in todo, Quarantine(e) PROVE Newest'
    BY <1>3 DEF Quarantine
  <1>4. ASSUME NEW e \in todo, ApplyResult(e) PROVE Newest'
    BY <1>4 DEF ApplyResult
  <1>5. ASSUME NEW e \in todo, AcceptRework(e) PROVE Newest'
    BY <1>5 DEF AcceptRework
  <1>6. ASSUME NEW e \in todo, RefuseRework(e) PROVE Newest'
    BY <1>6 DEF RefuseRework
  <1>7. ASSUME NEW e \in todo, HandleFailure(e) PROVE Newest'
    <2>1. \A c \in Cards : claims'[c] = claims[c] \/ claims'[c] = NoClaim
      BY <1>7, JobOfType, RetryOrBlockWrites DEF HandleFailure
    <2> QED
      BY <1>7, <2>1 DEF HandleFailure
  <1>8. ASSUME Advance PROVE Newest'
    BY <1>8 DEF Advance
  <1>9. ASSUME Rewind PROVE Newest'
    BY <1>9 DEF Rewind
  <1>10. ASSUME Recreate PROVE Newest'
    BY <1>10 DEF Recreate
  <1>11. ASSUME ClearClaim PROVE Newest'
    BY <1>11 DEF ClearClaim
  <1>12. ASSUME DeleteResult PROVE Newest'
    BY <1>12 DEF DeleteResult
  <1>13. ASSUME BeginRecovery PROVE Newest'
    BY <1>13 DEF BeginRecovery
  <1>14. ASSUME NEW s \in stale, Recover(s) PROVE Newest'
    <2>1. \A c \in Cards : claims'[c] = claims[c] \/ claims'[c] = NoClaim
      BY <1>14, RetryOrBlockWrites DEF Recover, Job
    <2> QED
      BY <1>14, <2>1 DEF Recover
  <1>15. ASSUME BeginSelection PROVE Newest'
    BY <1>15 DEF BeginSelection
  <1>16. ASSUME NEW c \in Cards, NEW s \in {"review", "ready", "inbox"}, Select(c, s) PROVE Newest'
    <2>1. claims'[c].id = issued'[c]
      BY <1>16 DEF Select, NewClaim
    <2>2. \A d \in Cards : d # c => claims'[d] = claims[d] /\ issued'[d] = issued[d]
      BY <1>16 DEF Select
    <2> QED
      BY <2>1, <2>2
  <1>17. ASSUME StartCard PROVE Newest'
    BY <1>17 DEF StartCard
  <1>18. ASSUME EndTick PROVE Newest'
    BY <1>18 DEF EndTick
  <1>19. ASSUME GoDown, pc # "down" PROVE Newest'
    BY <1>19 DEF GoDown
  <1>20. ASSUME Restart PROVE Newest'
    BY <1>20 DEF Restart
  <1>21. ASSUME NEW c \in Cards, NEW s \in MoveTargets, Operate(c, s) PROVE Newest'
    BY <1>21 DEF Operate
  <1>22. CASE UNCHANGED vars
    BY <1>22 DEF vars
  <1> QED
    BY <1>1, <1>2, <1>3, <1>4, <1>5, <1>6, <1>7, <1>8, <1>9, <1>10, <1>11, <1>12, <1>13, <1>14, <1>15, <1>16, <1>17, <1>18, <1>19, <1>20, <1>21, <1>22
    DEF CrashNext, Crash, GoDown, Stop, Next, Scheduler, Commit, Environment

(* As long as the scheduler is only stopped between two ticks, a card is   *)
(* stranded in DOING, without a claim, by an operator's own move to DOING  *)
(* alone, wherever else the operator moves cards.  Without such moves      *)
(* every DOING card has a claim, or is about to get one.                   *)
THEOREM NeverStranded ==
    Spec => OnlyByHand /\ ("doing" \notin MoveTargets => []DoingClaimed)
  <1>1. Init => OrderInv /\ DoingClaimed
    BY TypeInit, DispatchAssumption
    DEF OrderInv, TInv, JobInside, Inside, Ordered, DoingClaimed, Stranded, Init, DispatchAssumption
  <1>2. OrderInv /\ [Next]_vars => OrderInv'
    BY TypeStep, StrandStep DEF OrderInv, StrandsNone, CrashNext
  <1>3. OrderInv /\ [Next]_vars
          => [\A c \in Cards : Stranded(c)' => Stranded(c) \/ Operate(c, "doing")]_vars
    BY StrandStep DEF StrandsNone
  <1>4. ASSUME "doing" \notin MoveTargets PROVE Spec => []DoingClaimed
    <2>1. OrderInv /\ DoingClaimed /\ [Next]_vars => DoingClaimed'
      BY <1>4, StrandStep DEF DoingClaimed, StrandsNone, Operate
    <2> QED
      BY <1>1, <1>2, <2>1, PTL DEF Spec
  <1>5. Spec => OnlyByHand
    BY <1>1, <1>2, <1>3, PTL DEF Spec, OnlyByHand
  <1> QED
    BY <1>4, <1>5

(* Every step that starts a transition from an envelope has passed the      *)
(* ownership checks of commit_pending_results.                             *)
LEMMA TransitionIsAccepted ==
    ASSUME OwnerInv, [CrashNext]_vars, NEW e \in todo, StartsTransition(e)
    PROVE  Accepted(e)
  <1> USE DEF StartsTransition
  <1>1. pc = "commit" /\ job = NoJob
    BY DEF OwnerInv, TInv, JobInside, Inside
  <1>2. todo' # todo /\ job' # NoJob
    OBVIOUS
  <1>3. ASSUME (\E w \in Workers : WorkerStep(w)) \/ (\E c \in Cards : Expire(c)) PROVE FALSE
    BY <1>2, <1>3, WorkersAreQuiet DEF OwnerInv, TInv, Quiet, schedVars
  <1>4. ASSUME NEW f \in todo, Quarantine(f) PROVE FALSE
    BY <1>1, <1>4 DEF Quarantine
  <1>5. ASSUME NEW f \in todo, ApplyResult(f) PROVE Accepted(e)
    BY <1>5 DEF ApplyResult
  <1>6. ASSUME NEW f \in todo, AcceptRework(f) PROVE Accepted(e)
    BY <1>6 DEF AcceptRework
  <1>7. ASSUME NEW f \in todo, RefuseRework(f) PROVE Accepted(e)
    BY <1>7 DEF RefuseRework
  <1>8. ASSUME NEW f \in todo, HandleFailure(f) PROVE Accepted(e)
    BY <1>8 DEF HandleFailure
  <1>9. ASSUME BeginRecovery PROVE FALSE
    BY <1>2, <1>9 DEF BeginRecovery
  <1>10. ASSUME GoDown PROVE FALSE
    BY <1>2, <1>10 DEF GoDown
  <1>11. CASE UNCHANGED vars
    BY <1>2, <1>11 DEF vars
  <1> QED
    BY <1>1, <1>3, <1>4, <1>5, <1>6, <1>7, <1>8, <1>9, <1>10, <1>11
    DEF CrashNext, Crash, Next, Scheduler, Commit, Environment, Stop, Restart, Operate,
        BeginTick, Advance, Rewind, Recreate, ClearClaim, DeleteResult, Recover,
        BeginSelection, Select, StartCard, EndTick

(* Only the result of the newest claim, from the worker that owns it,      *)
(* starts a transition, even if the scheduler may be killed at any point.  *)
THEOREM OwnersResultOnly == CrashSpec => OnlyOwnersResult
  <1>1. Init => OwnerInv
    BY TypeInit, Bounds DEF OwnerInv, TInv, JobInside, Inside, Newest, Live, Init
  <1>2. OwnerInv /\ [CrashNext]_vars => OwnerInv'
    BY TypeStep, NewestStep DEF OwnerInv
  <1>3. OwnerInv /\ [CrashNext]_vars
          => [\A e \in todo : StartsTransition(e) =>
                  e.id = issued[e.card] /\ claims[e.card].owner = e.worker]_vars
    BY TransitionIsAccepted DEF Accepted, OwnerInv, Newest
  <1> QED
    BY <1>1, <1>2, <1>3, PTL DEF CrashSpec, OnlyOwnersResult

=============================================================================
