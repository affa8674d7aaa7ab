------------------------ MODULE DispatchClaimsProofs ------------------------
(***************************************************************************)
(* More theorems about Dispatch: how many claims are alive, and what       *)
(* becomes of the result of a live one.                                    *)
(***************************************************************************)
EXTENDS DispatchProofs

(* The budget of a tick covers the claims it may still create, and         *)
(* retry_claim has given a claim up before it creates another.             *)
ClaimBudget ==
    /\ ClaimsBounded
    /\ pc \in {"select", "start"} => Cardinality(Live) + slots <= MaxClaims
    /\ pc = "recreate" => Cardinality(Live) < MaxClaims

(* While recovery runs, the claims it has read and not handled are alive,  *)
(* one per card, and none of them is of the card it is busy with.  Only a  *)
(* result advances dependents or rewinds a card.                           *)
Recovering == pc = "recover" \/ (pc \in {"recreate", "clear"} /\ job.from # "commit")

StaleAlive ==
    /\ pc \in {"advance", "rewind"} => job.from = "commit"
    /\ Recovering =>
        /\ \A s \in stale : s.card \in Live
        /\ \A s, t \in stale : s.card = t.card => s = t
        /\ pc # "recover" => \A s \in stale : s.card # job.card

BudgetInv == TInv /\ ClaimBudget /\ StaleAlive
-----------------------------------------------------------------------------
(* Adding and removing one card changes the number of live claims by one.  *)
LEMMA LiveCount ==
    ASSUME TypeOK, TypeOK', NEW c \in Cards,
           \A d \in Cards : d # c => claims'[d] = claims[d]
    PROVE  /\ Cardinality(Live) \in Nat /\ Cardinality(Live') \in Nat
           /\ c \notin Live /\ c \in Live' => Cardinality(Live') = Cardinality(Live) + 1
           /\ c \in Live /\ c \notin Live' => Cardinality(Live') = Cardinality(Live) - 1
           /\ (c \in Live <=> c \in Live') => Live' = Live
  <1>1. IsFiniteSet(Live) /\ IsFiniteSet(Live')
    BY DispatchAssumption, FS_Subset DEF DispatchAssumption, Live
  <1>2. Cardinality(Live) \in Nat /\ Cardinality(Live') \in Nat
    BY <1>1, FS_CardinalityType
  <1>3. ASSUME c \notin Live, c \in Live' PROVE Cardinality(Live') = Cardinality(Live) + 1
    <2>1. Live' = Live \cup {c}
      BY <1>3 DEF Live
    <2> QED
      BY <1>1, <1>3, <2>1, FS_AddElement
  <1>4. ASSUME c \in Live, c \notin Live' PROVE Cardinality(Live') = Cardinality(Live) - 1
    <2>1. Live' = Live \ {c}
      BY <1>4 DEF Live
    <2> QED
      BY <1>1, <1>4, <2>1, FS_RemoveElement
  <1>5. ASSUME c \in Live <=> c \in Live' PROVE Live' = Live
    BY <1>5 DEF Live
  <1> QED
    BY <1>2, <1>3, <1>4, <1>5

(* retry_or_block on a card with a live claim leaves room for the          *)
(* replacement.                                                            *)
LEMMA RetryMakesRoom ==
    ASSUME BudgetInv, TypeOK', NEW c \in Live, NEW failed, NEW category,
           RetryOrBlock(c, failed, category)
    PROVE  /\ Live' \subseteq Live /\ Live \ {c} \subseteq Live'
           /\ ClaimsBounded'
           /\ pc' \in {"recreate", "clear"}
           /\ pc' = "recreate" => Cardinality(Live') < MaxClaims
  <1>1. c \in Cards /\ TypeOK
    BY DEF Live, BudgetInv, TInv
  <1>2. /\ \A d \in Cards : d # c => claims'[d] = claims[d]
        /\ \/ pc' = "recreate" /\ claims'[c] = NoClaim
           \/ pc' = "clear" /\ claims'[c] = claims[c]
    BY <1>1, RetryOrBlockWrites
  <1>3. Live' \subseteq Live /\ Live \ {c} \subseteq Live'
    BY <1>2 DEF Live
  <1>4. CASE pc' = "recreate" /\ claims'[c] = NoClaim
    <2>1. c \notin Live'
      BY <1>4 DEF Live
    <2>2. Cardinality(Live') = Cardinality(Live) - 1 /\ Cardinality(Live) \in Nat
      BY <1>1, <1>2, <2>1, LiveCount
    <2> QED
      BY <1>3, <1>4, <2>2, Bounds DEF BudgetInv, ClaimBudget, ClaimsBounded
  <1>5. CASE pc' = "clear" /\ claims'[c] = claims[c]
    <2>1. Live' = Live
      BY <1>2, <1>5 DEF Live
    <2> QED
      BY <1>3, <1>5, <2>1 DEF BudgetInv, ClaimBudget, ClaimsBounded
  <1> QED
    BY <1>2, <1>4, <1>5

(* Every step of the runtime keeps the budget, the kill included.          *)
LEMMA BudgetStep == BudgetInv /\ [CrashNext]_vars => ClaimBudget' /\ StaleAlive'
  <1> DEFINE Good == ClaimBudget' /\ StaleAlive'
  <1> SUFFICES ASSUME BudgetInv, [CrashNext]_vars PROVE Good
    OBVIOUS
  <1>t. TypeOK /\ TypeOK' /\ JobInside /\ Cardinality(Live) \in Nat
    BY TypeStep, LiveIsFinite DEF BudgetInv, TInv
  <1> USE <1>t, Bounds DEF BudgetInv, ClaimBudget, ClaimsBounded, StaleAlive, Recovering,
                           JobInside, Inside
  <1>1. ASSUME (\E w \in Workers : WorkerStep(w)) \/ (\E c \in Cards : Expire(c)) PROVE Good
    <2>1. Quiet
      BY <1>1, WorkersAreQuiet
    <2>2. Live' = Live
      BY <2>1 DEF Quiet, SameClaim, Live
    <2> QED
      BY <2>1, <2>2 DEF Quiet, schedVars
  <1>2. ASSUME BeginTick PROVE Good
    BY <1>2 DEF BeginTick, Live
  <1>3. ASSUME NEW e \in todo, Quarantine(e) PROVE Good
    BY <1>3 DEF Quarantine, Live
  <1>4. ASSUME NEW e \in todo, ApplyResult(e) PROVE Good
    BY <1>4 DEF ApplyResult, Live, JobOf
  <1>5. ASSUME NEW e \in todo, AcceptRework(e) PROVE Good
    BY <1>5 DEF AcceptRework, Live, JobOf
  <1>6. ASSUME NEW e \in todo, RefuseRework(e) PROVE Good
    BY <1>6 DEF RefuseRework, Live, JobOf
  <1>7. ASSUME NEW e \in todo, HandleFailure(e) PROVE Good
    <2>1. e.card \in Live
      BY <1>7 DEF HandleFailure, Accepted
    <2>2. /\ ClaimsBounded' /\ pc' \in {"recreate", "clear"}
          /\ pc' = "recreate" => Cardinality(Live') < MaxClaims
      BY <1>7, <2>1, RetryMakesRoom DEF HandleFailure
    <2> QED
      BY <1>7, <2>2 DEF HandleFailure, JobOf
  <1>8. ASSUME Advance \/ Rewind PROVE Good
    <2>1. Live' = Live
      BY <1>8 DEF Advance, Rewind, Live
    <2> QED
      BY <1>8, <2>1 DEF Advance, Rewind
  <1>9. ASSUME Recreate PROVE Good
    <2>1. job \in Job /\ job.card \in Cards
      BY <1>9 DEF Recreate, TypeOK, Job
    <2>2. \A d \in Cards : d # job.card => claims'[d] = claims[d]
      BY <1>9 DEF Recreate, TypeOK
    <2>3. Cardinality(Live') <= Cardinality(Live) + 1
      BY <2>1, <2>2, LiveCount
    <2>4. Cardinality(Live') \in Nat
      BY <2>1, <2>2, LiveCount
    <2>5. \A s \in stale : s.card \in Cards /\ (s.card # job.card /\ s.card \in Live => s.card \in Live')
      BY <2>2 DEF TypeOK, Job, Live
    <2> QED
      BY <1>9, <2>3, <2>4, <2>5 DEF Recreate
  <1>10. ASSUME ClearClaim PROVE Good
    <2>1. job \in Job /\ job.card \in Cards
      BY <1>10 DEF ClearClaim, TypeOK, Job
    <2>2. \A d \in Cards : d # job.card => claims'[d] = claims[d]
      BY <1>10 DEF ClearClaim, TypeOK
    <2>3. job.card \notin Live'
      BY <1>10, <2>1 DEF ClearClaim, TypeOK, Live
    <2>4. Cardinality(Live') \in Nat /\ Cardinality(Live') <= Cardinality(Live)
      BY <2>1, <2>2, <2>3, LiveCount
    <2>5. \A s \in stale : s.card \in Cards /\ (s.card # job.card /\ s.card \in Live => s.card \in Live')
      BY <2>2 DEF TypeOK, Job, Live
    <2> QED
      BY <1>10, <2>4, <2>5 DEF ClearClaim
  <1>11. ASSUME DeleteResult PROVE Good
    BY <1>11 DEF DeleteResult, Live
  <1>12. ASSUME BeginRecovery PROVE Good
    <2>1. Live' = Live
      BY <1>12 DEF BeginRecovery, Live
    <2> QED
      BY <1>12, <2>1 DEF BeginRecovery
  <1>13. ASSUME NEW s \in stale, Recover(s) PROVE Good
    <2>1. s.card \in Live
      BY <1>13 DEF Recover
    <2>2. /\ ClaimsBounded' /\ pc' \in {"recreate", "clear"}
          /\ pc' = "recreate" => Cardinality(Live') < MaxClaims
          /\ Live \ {s.card} \subseteq Live'
      BY <1>13, <2>1, RetryMakesRoom DEF Recover
    <2>3. \A t \in stale' : t \in stale /\ t # s /\ t.card # s.card
      BY <1>13 DEF Recover
    <2> QED
      BY <1>13, <2>2, <2>3 DEF Recover
  <1>14. ASSUME BeginSelection PROVE Good
    <2>1. Live' = Live
      BY <1>14 DEF BeginSelection, Live
    <2> QED
      BY <1>14, <2>1 DEF BeginSelection
  <1>15. ASSUME NEW c \in Cards, NEW s \in {"review", "ready", "inbox"}, Select(c, s) PROVE Good
    <2>1. \A d \in Cards : d # c => claims'[d] = claims[d]
      BY <1>15 DEF Select, TypeOK
    <2>2. Cardinality(Live') <= Cardinality(Live) + 1 /\ Cardinality(Live') \in Nat
      BY <2>1, LiveCount
    <2>3. slots' = slots - 1 /\ slots \in Nat /\ slots > 0 /\ pc = "select"
          /\ pc' \in {"select", "start"}
      BY <1>15 DEF Select, TypeOK
    <2> QED
      BY <2>2, <2>3
  <1>16. ASSUME StartCard PROVE Good
    BY <1>16 DEF StartCard, Live
  <1>17. ASSUME EndTick PROVE Good
    BY <1>17 DEF EndTick, Live
  <1>18. ASSUME GoDown PROVE Good
    BY <1>18 DEF GoDown, Live
  <1>19. ASSUME Restart PROVE Good
    BY <1>19 DEF Restart, Live
  <1>20. ASSUME NEW c \in Cards, NEW s \in MoveTargets, Operate(c, s) PROVE Good
    BY <1>20 DEF Operate, Live, schedVars
  <1>21. CASE UNCHANGED vars
    BY <1>21 DEF vars, Live
  <1> QED
    BY <1>1, <1>2, <1>3, <1>4, <1>5, <1>6, <1>7, <1>8, <1>9, <1>10, <1>11, <1>12, <1>13, <1>14,
       <1>15, <1>16, <1>17, <1>18, <1>19, <1>20, <1>21
    DEF CrashNext, Crash, Stop, Next, Scheduler, Commit, Environment

(* There is no claim at first.                                             *)
LEMMA BudgetInit == Init => BudgetInv
  <1> SUFFICES ASSUME Init PROVE BudgetInv
    OBVIOUS
  <1>1. Live = {}
    BY DEF Init, Live
  <1>2. Cardinality(Live) = 0
    BY <1>1, FS_EmptySet
  <1> QED
    BY <1>2, TypeInit, Bounds
    DEF Init, BudgetInv, TInv, JobInside, Inside, ClaimBudget, ClaimsBounded, StaleAlive,
        Recovering

(* max_claims bounds the live claims of the board for every number of      *)
(* cards and workers, through retries, recoveries, kills and restarts.     *)
THEOREM NeverOverClaims == CrashSpec => []ClaimsBounded
  <1>1. BudgetInv /\ [CrashNext]_vars => BudgetInv'
    BY TypeStep, BudgetStep DEF BudgetInv
  <1>2. BudgetInv => ClaimsBounded
    BY DEF BudgetInv, ClaimBudget
  <1> QED
    BY BudgetInit, <1>1, <1>2, PTL DEF CrashSpec

-----------------------------------------------------------------------------
(* Workers and results know no claim that was never issued.                *)
IdsAreIssued ==
    /\ \A w \in Workers : worker[w].phase # "idle" => worker[w].id <= issued[worker[w].card]
    /\ \A e \in results : e.id <= issued[e.card]

(* Who executes a live claim, and who has submitted its result, owns it.   *)
OwnersAreKnown ==
    /\ \A w \in Workers :
           worker[w].phase \in {"releasing", "running", "overdue"} /\ Owns(w) =>
               MyClaim(w).owner = w
    /\ \A e \in results :
           e.card \in Live /\ e.id = claims[e.card].id => claims[e.card].owner = e.worker

(* A result is deleted when its claim is gone or has been replaced.        *)
ClaimIsSpent ==
    /\ pc = "recreate" /\ job.from = "commit" => job.claim.id <= issued[job.card]
    /\ \A s \in stale : s.from = "recover"
    /\ pc = "delete" => job.card \notin Live \/ claims[job.card].id # job.claim.id

ResultInv == OwnerInv /\ IdsAreIssued /\ OwnersAreKnown /\ ClaimIsSpent

(* What the scheduler, the clock and the operator do to claims and         *)
(* results: a claim stays, keeps its number and owner, goes, or has a      *)
(* number nobody has seen.                                                 *)
Fresh ==
    /\ worker' = worker
    /\ results' \subseteq results
    /\ \A c \in Cards :
           /\ issued'[c] >= issued[c]
           /\ \/ claims'[c] \in {claims[c], NoClaim}
              \/ claims[c] # NoClaim /\ claims'[c].id = claims[c].id
                                     /\ claims'[c].owner = claims[c].owner
              \/ claims'[c].id > issued[c]

(* A busy worker is busy with a claim of the board.                        *)
LEMMA BusyWorker ==
    ASSUME TypeOK, NEW w \in Workers, worker[w].phase # "idle"
    PROVE  worker[w].card \in Cards /\ worker[w].id \in Nat
  BY DEF TypeOK, Idle, Busy

(* Such steps disturb neither the numbers nor the owners.                  *)
LEMMA FreshKeepsOwners ==
    ASSUME ResultInv, TypeOK', Fresh PROVE IdsAreIssued' /\ OwnersAreKnown'
  <1>t. TypeOK /\ Newest
    BY DEF ResultInv, OwnerInv, TInv
  <1>1. ASSUME NEW c \in Cards, NEW i \in Nat, i <= issued[c]
        PROVE  /\ i <= issued'[c]
               /\ claims'[c] # NoClaim /\ claims'[c].id = i =>
                      /\ claims[c] # NoClaim /\ claims[c].id = i
                      /\ claims'[c].owner = claims[c].owner
    <2>1. issued[c] \in Nat /\ issued'[c] \in Nat /\ issued'[c] >= issued[c]
      BY <1>t DEF TypeOK, Fresh
    <2> QED
      BY <1>1, <2>1 DEF Fresh
  <1>2. \A w \in Workers : worker[w].phase # "idle" =>
            worker[w].card \in Cards /\ worker[w].id \in Nat
    BY <1>t, BusyWorker
  <1>3. \A e \in results : e.card \in Cards /\ e.id \in Nat
    BY <1>t DEF TypeOK, Envelope
  <1>4. IdsAreIssued'
    BY <1>1, <1>2, <1>3 DEF ResultInv, IdsAreIssued, Fresh
  <1>5. OwnersAreKnown'
    BY <1>1, <1>2, <1>3 DEF ResultInv, IdsAreIssued, OwnersAreKnown, Fresh, Owns, MyClaim, Live
  <1> QED
    BY <1>4, <1>5

(* Every step keeps what is known of numbers and owners.                   *)
LEMMA ResultStep ==
    ResultInv /\ [CrashNext]_vars => IdsAreIssued' /\ OwnersAreKnown' /\ ClaimIsSpent'
  <1> DEFINE Good == IdsAreIssued' /\ OwnersAreKnown' /\ ClaimIsSpent'
  <1> SUFFICES ASSUME ResultInv, [CrashNext]_vars PROVE Good
    OBVIOUS
  <1>t. TypeOK /\ TypeOK' /\ JobInside /\ Newest
    BY TypeStep DEF ResultInv, OwnerInv, TInv
  <1>k. /\ \A w \in Workers : worker[w].phase # "idle" =>
                worker[w].card \in Cards /\ worker[w].id \in Nat
        /\ \A e \in results : e.card \in Cards /\ e.id \in Nat
        /\ \A c \in Cards : issued[c] \in Nat
    BY <1>t, BusyWorker DEF TypeOK, Envelope
  <1>m. \A c \in Live : c \in Cards /\ claims[c] \in Claim /\ claims[c].id = issued[c]
    BY <1>t, LiveClaim DEF Newest
  <1>f. Fresh /\ ClaimIsSpent' => Good
    BY <1>t, FreshKeepsOwners
  <1> USE <1>t, Bounds DEF JobInside, Inside
  <1>1. ASSUME NEW w \in Workers, NEW c \in Cards, Acquire(w, c) PROVE Good
    BY <1>1, <1>k, <1>m
    DEF Acquire, TypeOK, ResultInv, IdsAreIssued, OwnersAreKnown, ClaimIsSpent, Owns, MyClaim,
        Live, schedVars
  <1>2. ASSUME NEW w \in Workers, TakeClaim(w) PROVE Good
    <2> DEFINE c == worker[w].card
    <2>1. CASE c \in Live /\ claims[c].owner = NoWorker
      <3>1. c \in Cards /\ claims[c] \in Claim /\ claims[c].id = issued[c]
        BY <1>m, <2>1
      <3>2. /\ claims'[c].id = claims[c].id /\ claims'[c].owner = w
            /\ \A d \in Cards : d # c => claims'[d] = claims[d]
        BY <1>2, <2>1, <3>1 DEF TakeClaim, TypeOK, Claim
      <3>3. /\ worker'[w].card = c /\ worker'[w].id = claims[c].id
            /\ \A v \in Workers : v # w => worker'[v] = worker[v]
        BY <1>2, <2>1 DEF TakeClaim, TypeOK
      <3>4. /\ Live' = Live
            /\ UNCHANGED <<issued, results, pc, job, stale>>
        BY <1>2, <2>1, <3>1, <3>2, ClaimUpdate DEF TakeClaim, Live, schedVars, SameClaim
      <3>5. IdsAreIssued'
        BY <1>k, <3>1, <3>3, <3>4 DEF ResultInv, IdsAreIssued
      <3>6. \A v \in Workers :
                worker[v].phase \in {"releasing", "running", "overdue"} /\ worker[v].card = c =>
                    worker[v].id # claims[c].id
        BY <2>1, <3>1, DispatchAssumption
        DEF ResultInv, OwnersAreKnown, Owns, MyClaim, Live, DispatchAssumption
      <3>7. \A e \in results : e.card = c => e.id # claims[c].id
        BY <2>1, <1>t, DispatchAssumption
        DEF ResultInv, OwnersAreKnown, TypeOK, Envelope, DispatchAssumption
      <3>8. OwnersAreKnown'
        BY <1>k, <3>1, <3>2, <3>3, <3>4, <3>6, <3>7
        DEF ResultInv, OwnersAreKnown, Owns, MyClaim, Live
      <3>9. ClaimIsSpent'
        BY <3>1, <3>2, <3>4 DEF ResultInv, ClaimIsSpent, TypeOK, Job, Live
      <3> QED
        BY <3>5, <3>8, <3>9
    <2>2. CASE ~(c \in Live /\ claims[c].owner = NoWorker)
      BY <1>2, <1>k, <2>2
      DEF TakeClaim, TypeOK, Idle, ResultInv, IdsAreIssued, OwnersAreKnown, ClaimIsSpent, Owns,
          MyClaim, Live, schedVars
    <2> QED
      BY <2>1, <2>2
  <1>3. ASSUME NEW w \in Workers, ReleaseSentinel(w) \/ HeartbeatStops(w) PROVE Good
    <2>1. /\ worker'[w].card = worker[w].card /\ worker'[w].id = worker[w].id
          /\ worker[w].phase \in {"releasing", "running", "overdue"}
          /\ \A v \in Workers : v # w => worker'[v] = worker[v]
      BY <1>3, BusyUpdate DEF ReleaseSentinel, HeartbeatStops, TypeOK, Idle, Busy, Phases
    <2>2. UNCHANGED <<claims, issued, results, pc, job, stale>>
      BY <1>3 DEF ReleaseSentinel, HeartbeatStops, schedVars
    <2> QED
      BY <1>k, <2>1, <2>2
      DEF ResultInv, IdsAreIssued, OwnersAreKnown, ClaimIsSpent, Owns, MyClaim, Live
  <1>4. ASSUME NEW w \in Workers, Heartbeat(w) PROVE Good
    <2>1. worker[w].card \in Live /\ claims[worker[w].card].owner = w
      BY <1>4, <1>k DEF Heartbeat, Owns, MyClaim, Live, ResultInv, OwnersAreKnown
    <2>2. Fresh
      BY <1>4, <2>1, <1>m, <1>k DEF Heartbeat, Fresh, TypeOK, Claim
    <2>3. \A d \in Cards : SameClaim(claims'[d], claims[d])
      BY <1>4, <2>1, ClaimUpdate DEF Heartbeat
    <2>4. ClaimIsSpent'
      BY <1>4, <2>3 DEF Heartbeat, ResultInv, ClaimIsSpent, schedVars, Live, SameClaim, TypeOK, Job
    <2> QED
      BY <1>f, <2>2, <2>4
  <1>5. ASSUME NEW w \in Workers, NEW o \in Outcomes, Finish(w, o) PROVE Good
    <2> DEFINE env == [card |-> worker[w].card, id |-> worker[w].id, worker |-> w, outcome |-> o]
    <2>1. results' = results \cup {env} /\ UNCHANGED <<claims, issued, pc, job, stale>>
      BY <1>5 DEF Finish, schedVars
    <2>2. worker[w].phase \in {"running", "overdue"} /\ worker[w].id <= issued[worker[w].card]
      BY <1>5 DEF Finish, ResultInv, IdsAreIssued
    <2>3. env.card \in Live /\ env.id = claims[env.card].id => claims[env.card].owner = w
      BY <2>2 DEF ResultInv, OwnersAreKnown, Owns, MyClaim, Live
    <2>4. \A v \in Workers : worker'[v] \in {worker[v], Idle}
      BY <1>5 DEF Finish, TypeOK
    <2> QED
      BY <2>1, <2>2, <2>3, <2>4, <1>k
      DEF Idle, ResultInv, IdsAreIssued, OwnersAreKnown, ClaimIsSpent, Owns, MyClaim, Live
  <1>6. ASSUME NEW w \in Workers, WorkerLost(w) PROVE Good
    <2>1. \A v \in Workers : worker'[v] \in {worker[v], Idle}
      BY <1>6 DEF WorkerLost, TypeOK
    <2> QED
      BY <1>6, <2>1, <1>k
      DEF WorkerLost, Idle, ResultInv, IdsAreIssued, OwnersAreKnown, ClaimIsSpent, Owns, MyClaim,
          Live, schedVars
  <1>7. ASSUME NEW c \in Cards, Expire(c) PROVE Good
    <2>1. Fresh
      BY <1>7, <1>m, <1>k DEF Expire, Fresh, TypeOK, Claim
    <2>2. \A d \in Cards : SameClaim(claims'[d], claims[d])
      BY <1>7, ClaimExpiry DEF Expire
    <2>3. ClaimIsSpent'
      BY <1>7, <2>2 DEF Expire, ResultInv, ClaimIsSpent, schedVars, Live, SameClaim, TypeOK, Job
    <2> QED
      BY <1>f, <2>1, <2>3
  <1> USE <1>k DEF ResultInv, ClaimIsSpent, Live, Fresh
  <1>8. ASSUME BeginTick \/ BeginRecovery \/ BeginSelection PROVE Good
    BY <1>8, <1>f DEF BeginTick, BeginRecovery, BeginSelection
  <1>9. ASSUME NEW e \in todo, Quarantine(e) \/ ApplyResult(e) \/ AcceptRework(e) \/ RefuseRework(e)
        PROVE  Good
    BY <1>9, <1>f DEF Quarantine, ApplyResult, AcceptRework, RefuseRework
  <1>10. ASSUME NEW e \in todo, HandleFailure(e) PROVE Good
    <2>1. e.card \in Live
      BY <1>10 DEF HandleFailure, Accepted
    <2>2. /\ \A d \in Cards : claims'[d] = claims[d] \/ claims'[d] = NoClaim
          /\ pc' \in {"recreate", "clear"}
      BY <1>10, JobOfType, RetryOrBlockWrites DEF HandleFailure
    <2>3. job' = JobOf(e) /\ claims[e.card].id = issued[e.card]
      BY <1>10, <2>1, <1>m DEF HandleFailure
    <2> QED
      BY <1>10, <1>f, <2>1, <2>2, <2>3 DEF HandleFailure, JobOf
  <1>11. ASSUME Advance \/ Rewind PROVE Good
    BY <1>11, <1>f DEF Advance, Rewind
  <1>12. ASSUME Recreate PROVE Good
    <2>1. job \in Job /\ job.card \in Cards /\ job.claim.id \in Nat
      BY <1>12 DEF Recreate, TypeOK, Job, Claim
    <2>2. claims'[job.card].id = issued[job.card] + 1
      BY <1>12, <2>1 DEF Recreate, TypeOK
    <2>3. /\ issued' = [issued EXCEPT ![job.card] = @ + 1] /\ UNCHANGED <<worker, results>>
          /\ \A d \in Cards : d # job.card => claims'[d] = claims[d]
      BY <1>12, <2>1 DEF Recreate, TypeOK
    <2>4. Fresh
      <3>1. \A c \in Cards : issued'[c] >= issued[c]
        BY <2>1, <2>3 DEF TypeOK
      <3> QED
        BY <2>1, <2>2, <2>3, <3>1
    <2>5. ClaimIsSpent'
      BY <1>12, <2>1, <2>2 DEF Recreate
    <2> QED
      BY <1>f, <2>4, <2>5
  <1>13. ASSUME ClearClaim PROVE Good
    <2>1. job.card \in Cards
      BY <1>13 DEF ClearClaim, TypeOK, Job
    <2>2. claims' = [claims EXCEPT ![job.card] = NoClaim]
      BY <1>13 DEF ClearClaim
    <2> QED
      BY <1>13, <1>f, <2>1, <2>2 DEF ClearClaim, TypeOK
  <1>14. ASSUME DeleteResult PROVE Good
    BY <1>14, <1>f DEF DeleteResult
  <1>15. ASSUME NEW s \in stale, Recover(s) PROVE Good
    <2>1. /\ \A d \in Cards : claims'[d] = claims[d] \/ claims'[d] = NoClaim
          /\ pc' \in {"recreate", "clear"}
      BY <1>15, RetryOrBlockWrites DEF Recover, TypeOK, Job
    <2>2. job' = s /\ s \in Job
      BY <1>15 DEF Recover, TypeOK
    <2>3. s.from = "recover"
      BY <1>15
    <2> QED
      BY <1>15, <1>f, <2>1, <2>2, <2>3 DEF Recover
  <1>16. ASSUME NEW c \in Cards, NEW s \in {"review", "ready", "inbox"}, Select(c, s) PROVE Good
    <2>1. /\ claims'[c].id = issued[c] + 1
          /\ \A d \in Cards : d # c => claims'[d] = claims[d]
      BY <1>16 DEF Select, NewClaim, TypeOK
    <2>2. \A d \in Cards : issued'[d] >= issued[d]
      BY <1>16 DEF Select, TypeOK
    <2> QED
      BY <1>16, <1>f, <2>1, <2>2 DEF Select
  <1>17. ASSUME StartCard \/ EndTick PROVE Good
    BY <1>17, <1>f DEF StartCard, EndTick
  <1>18. ASSUME GoDown \/ Restart PROVE Good
    BY <1>18, <1>f DEF GoDown, Restart
  <1>19. ASSUME NEW c \in Cards, NEW s \in MoveTargets, Operate(c, s) PROVE Good
    BY <1>19, <1>f DEF Operate, schedVars
  <1>20. CASE UNCHANGED vars
    BY <1>20, <1>f DEF vars
  <1> QED
    BY <1>1, <1>2, <1>3, <1>4, <1>5, <1>6, <1>7, <1>8, <1>9, <1>10, <1>11, <1>12, <1>13, <1>14,
       <1>15, <1>16, <1>17, <1>18, <1>19, <1>20
    DEF CrashNext, Crash, Stop, Next, Scheduler, Commit, Environment, WorkerStep

(* Results leave the directory when they are quarantined or deleted, and   *)
(* neither happens to the result of a live claim.                          *)
LEMMA OrphanStep ==
    ASSUME ResultInv, [CrashNext]_vars, NEW e \in results, e \notin results'
    PROVE  e.card \notin Live \/ e.id # claims[e.card].id
  <1>t. TypeOK /\ e.card \in Cards
    BY DEF ResultInv, OwnerInv, TInv, TypeOK, Envelope
  <1>1. ASSUME NEW f \in todo, Quarantine(f) PROVE e.card \notin Live \/ e.id # claims[e.card].id
    BY <1>1 DEF Quarantine, Accepted, ResultInv, OwnersAreKnown
  <1>2. ASSUME DeleteResult PROVE e.card \notin Live \/ e.id # claims[e.card].id
    BY <1>2 DEF DeleteResult, ResultInv, ClaimIsSpent
  <1>3. ASSUME NEW f \in todo,
               ApplyResult(f) \/ AcceptRework(f) \/ RefuseRework(f) \/ HandleFailure(f)
        PROVE  FALSE
    BY <1>3 DEF ApplyResult, AcceptRework, RefuseRework, HandleFailure
  <1>4. ASSUME NEW w \in Workers, WorkerStep(w) PROVE FALSE
    BY <1>4 DEF WorkerStep, Acquire, TakeClaim, ReleaseSentinel, Heartbeat, HeartbeatStops, Finish,
                WorkerLost
  <1>5. ASSUME Environment \/ GoDown PROVE FALSE
    BY <1>5 DEF Environment, Expire, Stop, GoDown, Restart, Operate
  <1>6. ASSUME BeginTick \/ Advance \/ Rewind \/ Recreate \/ ClearClaim \/ BeginRecovery
               \/ (\E s \in stale : Recover(s)) \/ BeginSelection
               \/ (\E c \in Cards, s \in {"review", "ready", "inbox"} : Select(c, s))
               \/ StartCard \/ EndTick
        PROVE  FALSE
    BY <1>6 DEF BeginTick, Advance, Rewind, Recreate, ClearClaim, BeginRecovery, Recover,
                BeginSelection, Select, StartCard, EndTick
  <1>7. CASE UNCHANGED vars
    BY <1>7 DEF vars
  <1> QED
    BY <1>1, <1>2, <1>3, <1>4, <1>5, <1>6, <1>7 DEF CrashNext, Crash, Next, Scheduler, Commit

(* The result of a live claim is never moved to orphans nor deleted,       *)
(* however late it is and wherever the scheduler is killed.                *)
THEOREM LiveResultsStay == CrashSpec => OrphansAreSuperseded
  <1>1. Init => ResultInv
    BY TypeInit, Bounds
    DEF Init, Idle, OwnerInv, TInv, JobInside, Inside, Newest, Live, ResultInv, IdsAreIssued,
        OwnersAreKnown, ClaimIsSpent
  <1>2. ResultInv /\ [CrashNext]_vars => ResultInv'
    BY TypeStep, NewestStep, ResultStep DEF ResultInv, OwnerInv
  <1>3. ResultInv /\ [CrashNext]_vars
          => [\A e \in results \ results' :
                  \/ e.card \notin Live
                  \/ e.id # claims[e.card].id]_vars
    BY OrphanStep
  <1> QED
    BY <1>1, <1>2, <1>3, PTL DEF CrashSpec, OrphansAreSuperseded
=============================================================================
