-------------------------- MODULE ClaimFilesProofs --------------------------
(***************************************************************************)
(* Theorems about ClaimFiles, for any number of workers, retries and       *)
(* heartbeats.                                                             *)
(***************************************************************************)
EXTENDS ClaimFiles, TLAPS

(* Who has held a claim: the owner its file or the temporary file names, a *)
(* worker that is acquiring or executes it, or a heartbeat that is about   *)
(* to write it back.                                                       *)
Holds(w, k) ==
    \/ file # NoClaim /\ file.id = k /\ file.owner = w
    \/ tmp # NoClaim /\ tmp.id = k /\ tmp.owner = w
    \/ worker[w].phase \in {"replacing", "running"} /\ worker[w].claim.id = k
    \/ \E b \in beats : b.worker = w /\ b.claim.id = k

(* Where a claim still reads as unassigned: in its file, in the temporary  *)
(* file, or in the memory of a worker that is about to write it.           *)
InFile(k) == file # NoClaim /\ file.id = k /\ file.owner = NoWorker
InTmp(k) == tmp # NoClaim /\ tmp.id = k /\ tmp.owner = NoWorker
Writing(w, k) == worker[w].phase = "writing" /\ worker[w].claim.id = k
Loose(k) == InFile(k) \/ InTmp(k) \/ \E w \in Workers : Writing(w, k)

Replacing(w, k) == worker[w].phase = "replacing" /\ worker[w].claim.id = k
Acquiring(w) == worker[w].phase \in {"reading", "writing", "replacing"}

(* The sentinel admits one worker at a time.                               *)
SentinelExcludes ==
    /\ \A w \in Workers : Acquiring(w) => sentinel
    /\ \A v, w \in Workers : Acquiring(v) /\ Acquiring(w) => v = w

(* Nobody knows a claim that has not been issued.                          *)
Issued ==
    /\ \A k \in Nat : Loose(k) => k <= issued
    /\ \A w \in Workers, k \in Nat : Holds(w, k) => k <= issued

(* A claim has one holder, and once it has one, it is unassigned nowhere   *)
(* but in the file its holder is about to replace.  A new claim is known   *)
(* to nobody until it is in place.                                         *)
HolderIsUnique ==
    /\ \A v, w \in Workers, k \in Nat : Holds(v, k) /\ Holds(w, k) => v = w
    /\ \A w \in Workers, k \in Nat : Holds(w, k) /\ Loose(k) => Replacing(w, k)
    /\ \A w \in Workers, k \in Nat : InTmp(k) => ~Holds(w, k) /\ ~Writing(w, k) /\ ~InFile(k)
    /\ \A w \in Workers, k \in Nat : Replacing(w, k) /\ InFile(k) => tmp # NoClaim

ClaimInv == TypeOK /\ SentinelExcludes /\ Issued /\ HolderIsUnique

-----------------------------------------------------------------------------
(* The assumptions on the constants, and what follows for claims.          *)
LEMMA Constants == /\ RetryBudget \in Nat /\ MaxBeats \in Nat
                   /\ NoWorker \notin Workers /\ NoClaim \notin Claim
  BY ClaimFilesAssumption, NoClaimFileAssumption DEF ClaimFilesAssumption, NoClaimFileAssumption

(* A claim that is written back with an owner is the claim it was.         *)
LEMMA RenewedIsClaim ==
    ASSUME NEW claim \in Claim, NEW w \in Workers
    PROVE  /\ Renewed(claim, w) \in Claim /\ Renewed(claim, w) # NoClaim
           /\ Renewed(claim, w).id = claim.id /\ Renewed(claim, w).owner = w
  BY Constants DEF Renewed, Claim

(* A worker has a claim in mind exactly from the read that acquires it.    *)
LEMMA WorkerShape ==
    ASSUME TypeOK, NEW w \in Workers
    PROVE  /\ \/ worker[w].phase \in {"idle", "reading"} /\ worker[w].claim = NoClaim
              \/ /\ worker[w].phase \in {"writing", "replacing", "running"}
                 /\ worker[w].claim \in Claim
           /\ worker[w] = [phase |-> worker[w].phase, claim |-> worker[w].claim]
  BY DEF TypeOK, WorkerState

(* A worker that moves on keeps every worker well formed.                  *)
LEMMA WorkerUpdate ==
    ASSUME TypeOK, NEW w \in Workers, NEW p, NEW claim,
           \/ p \in {"idle", "reading"} /\ claim = NoClaim
           \/ p \in {"writing", "replacing", "running"} /\ claim \in Claim
    PROVE  [worker EXCEPT ![w] = [phase |-> p, claim |-> claim]]
              \in [Workers -> WorkerState]
  BY DEF TypeOK, WorkerState

(* Changing the phase alone is such a move.                                *)
LEMMA PhaseUpdate ==
    ASSUME TypeOK, NEW w \in Workers, NEW p
    PROVE  [worker EXCEPT ![w].phase = p]
              = [worker EXCEPT ![w] = [phase |-> p, claim |-> worker[w].claim]]
  <1>1. worker[w] = [phase |-> worker[w].phase, claim |-> worker[w].claim]
    BY WorkerShape
  <1>2. [worker[w] EXCEPT !.phase = p] = [phase |-> p, claim |-> worker[w].claim]
    BY <1>1
  <1> QED
    BY <1>2 DEF TypeOK

(* A fresh board satisfies the invariant.                                  *)
LEMMA ClaimInit == Init => ClaimInv
  <1> SUFFICES ASSUME Init PROVE ClaimInv
    OBVIOUS
  <1>1. TypeOK
    BY Constants DEF Init, TypeOK, WorkerState, Columns, Controls, Idle, NoJob, Job
  <1>2. \A w \in Workers : worker[w].phase = "idle"
    BY DEF Init, Idle
  <1>3. \A k \in Nat : ~Loose(k) /\ \A w \in Workers : ~Holds(w, k)
    BY <1>2 DEF Init, Loose, InFile, InTmp, Writing, Holds
  <1> QED
    BY <1>1, <1>2, <1>3
    DEF ClaimInv, SentinelExcludes, Issued, HolderIsUnique, Acquiring, Replacing, Loose

-----------------------------------------------------------------------------
(* The scheduler at work on envelopes, leases and plans: it writes no      *)
(* claim file.                                                             *)
Planning ==
    \/ BeginTick \/ (\E e \in todo : Quarantine(e) \/ Apply(e) \/ HandleFailure(e))
    \/ BeginRecovery \/ (\E claim \in stale : Recover(claim)) \/ BeginSelection \/ Select
    \/ ClearRead \/ CreateCheck \/ DeleteResult \/ Restart

(* Such a step changes nothing a worker or a claim file says.              *)
LEMMA PlanningIsQuiet == Planning => UNCHANGED <<disk, issued, sentinel, worker, beats>>
  BY DEF Planning, BeginTick, Quarantine, Apply, HandleFailure, BeginRecovery, Recover,
         BeginSelection, Select, ClearRead, CreateCheck, DeleteResult, Restart

(* retry_or_block hands a well-formed job to the scheduler.                *)
LEMMA RetryOrBlockType ==
    ASSUME TypeOK, NEW claim \in Claim, pc \in {"commit", "recover"}, RetryOrBlock(claim)
    PROVE  column' \in Columns /\ job' \in Job /\ pc' = "clear"
  BY DEF RetryOrBlock, TypeOK, Claim, Job, Columns

(* A planning step keeps every variable well formed.                       *)
LEMMA PlanningType == TypeOK /\ Planning => TypeOK'
  <1> SUFFICES ASSUME TypeOK, Planning PROVE TypeOK'
    OBVIOUS
  <1>0. UNCHANGED <<disk, issued, sentinel, worker, beats>>
    BY PlanningIsQuiet
  <1> DEFINE Plain == /\ column' \in Columns /\ results' \subseteq Envelope /\ pc' \in Controls
                      /\ todo' \subseteq Envelope /\ stale' \subseteq Claim /\ job' \in Job
                      /\ beaten' \in Nat
  <1>1. SUFFICES Plain
    BY <1>0 DEF TypeOK, disk
  <1> USE DEF TypeOK
  <1>2. CASE BeginTick \/ BeginRecovery \/ BeginSelection \/ DeleteResult \/ Restart
    BY <1>2 DEF BeginTick, BeginRecovery, BeginSelection, DeleteResult, Restart, Controls
  <1>3. ASSUME NEW e \in todo, Quarantine(e) PROVE Plain
    BY <1>3 DEF Quarantine
  <1>4. ASSUME NEW e \in todo, Apply(e) PROVE Plain
    <2>1. e.id \in Nat
      BY DEF Envelope
    <2> QED
      BY <1>4, <2>1 DEF Apply, Job, Columns, Controls
  <1>5. ASSUME NEW e \in todo, HandleFailure(e) PROVE Plain
    <2>1. file \in Claim /\ pc = "commit"
      BY <1>5 DEF HandleFailure, Accepted
    <2> QED
      BY <1>5, <2>1, RetryOrBlockType DEF HandleFailure, Controls
  <1>6. ASSUME NEW claim \in stale, Recover(claim) PROVE Plain
    BY <1>6, RetryOrBlockType DEF Recover, Controls
  <1>7. CASE Select
    <2>1. [id |-> 0, retries |-> 0, replace |-> TRUE, from |-> "select"] \in Job
      BY DEF Job
    <2> QED
      BY <1>7, <2>1 DEF Select, Controls
  <1>8. CASE ClearRead \/ CreateCheck
    <2>1. NoJob \in Job
      BY DEF NoJob, Job
    <2>2. Cleared \in Controls
      BY DEF Cleared, Finished, Controls
    <2> QED
      BY <1>8, <2>1, <2>2 DEF ClearRead, CreateCheck, Die, Controls
  <1> QED
    BY <1>2, <1>3, <1>4, <1>5, <1>6, <1>7, <1>8 DEF Planning

-----------------------------------------------------------------------------
(* Every step keeps every variable well formed.                            *)
LEMMA ClaimTypeStep == TypeOK /\ [Next]_vars => TypeOK'
  <1> SUFFICES ASSUME TypeOK, [Next]_vars PROVE TypeOK'
    OBVIOUS
  <1> USE DEF disk
  <1>0. Replaced \/ NothingToReplace
            => (file \in Claim \cup {NoClaim} /\ tmp \in Claim \cup {NoClaim})'
    BY DEF Replaced, NothingToReplace, TypeOK
  <1>1. ASSUME NEW w \in Workers, Open(w) PROVE TypeOK'
    <2>1. worker[w].claim = NoClaim
      BY <1>1, WorkerShape, Constants DEF Open
    <2>2. worker' = [worker EXCEPT ![w] = [phase |-> "reading", claim |-> NoClaim]]
      BY <1>1, <2>1, PhaseUpdate DEF Open
    <2>3. worker' \in [Workers -> WorkerState]
      BY <2>2, WorkerUpdate
    <2> QED
      BY <1>1, <2>3 DEF Open, TypeOK, schedVars
  <1>2. ASSUME NEW w \in Workers, ReadToAcquire(w) PROVE TypeOK'
    <2>1. CASE Unassigned
      <3>1. file \in Claim
        BY <2>1 DEF Unassigned, TypeOK
      <3> QED
        BY <1>2, <2>1, <3>1, WorkerUpdate DEF ReadToAcquire, TypeOK, schedVars
    <2>2. CASE ~Unassigned
      <3>1. [worker EXCEPT ![w] = Idle] \in [Workers -> WorkerState]
        BY WorkerUpdate DEF Idle
      <3> QED
        BY <1>2, <2>2, <3>1 DEF ReadToAcquire, TypeOK, schedVars
    <2> QED
      BY <2>1, <2>2
  <1>3. ASSUME NEW w \in Workers, WriteAcquired(w) PROVE TypeOK'
    <2>1. worker[w].claim \in Claim
      BY <1>3, WorkerShape DEF WriteAcquired
    <2>2. worker' = [worker EXCEPT ![w] = [phase |-> "replacing", claim |-> worker[w].claim]]
      BY <1>3, PhaseUpdate DEF WriteAcquired
    <2>3. worker' \in [Workers -> WorkerState]
      BY <2>1, <2>2, WorkerUpdate
    <2>4. tmp' \in Claim
      BY <1>3, <2>1, RenewedIsClaim DEF WriteAcquired
    <2> QED
      BY <1>3, <2>1, <2>3, <2>4 DEF WriteAcquired, TypeOK, schedVars
  <1>4. ASSUME NEW w \in Workers, BeatRead(w) PROVE TypeOK'
    <2>1. [worker |-> w, claim |-> file, filled |-> FALSE] \in Beat
      BY <1>4 DEF BeatRead, Beat, TypeOK
    <2>2. beats' \subseteq Beat
      BY <1>4, <2>1, Zenon DEF BeatRead, TypeOK
    <2>3. beaten' \in Nat
      BY <1>4 DEF BeatRead, TypeOK
    <2>4. UNCHANGED <<column, file, tmp, issued, results, sentinel, worker, pc, todo, stale, job>>
      BY <1>4 DEF BeatRead, schedVars
    <2> QED
      BY <2>2, <2>3, <2>4 DEF TypeOK
  <1>5. ASSUME NEW b \in beats, BeatWrite(b) PROVE TypeOK'
    <2>1. b \in Beat
      BY DEF TypeOK
    <2>2. [b EXCEPT !.filled = TRUE] \in Beat /\ Renewed(b.claim, b.worker) \in Claim
      BY <2>1, RenewedIsClaim DEF Beat
    <2> QED
      BY <1>5, <2>2 DEF BeatWrite, Filled, TypeOK, schedVars
  <1>6. ASSUME NEW w \in Workers, NEW ok \in BOOLEAN, Finish(w, ok) PROVE TypeOK'
    <2>1. worker[w].claim \in Claim
      BY <1>6, WorkerShape DEF Finish
    <2>2. [id |-> worker[w].claim.id, worker |-> w, ok |-> ok] \in Envelope
      BY <2>1 DEF Claim, Envelope
    <2> QED
      BY <1>6, <2>2, WorkerUpdate DEF Finish, Idle, TypeOK, schedVars
  <1>7. CASE Expire
    <2>1. file \in Claim
      BY <1>7 DEF Expire, TypeOK
    <2>2. [file EXCEPT !.expired = TRUE] \in Claim
      BY <2>1 DEF Claim
    <2> QED
      BY <1>7, <2>2 DEF Expire, TypeOK, schedVars
  <1>8. CASE Unlink
    BY <1>8 DEF Unlink, Cleared, Finished, Controls, TypeOK
  <1>9. CASE CreateWrite
    <2>1. [id |-> issued + 1, owner |-> NoWorker, retries |-> job.retries, expired |-> FALSE]
              \in Claim
      BY DEF TypeOK, Claim, Job
    <2> QED
      BY <1>9, <2>1 DEF CreateWrite, Finished, Controls, TypeOK
  <1>10. CASE Planning
    BY <1>10, PlanningType
  <1>11. CASE UNCHANGED vars
    BY <1>11 DEF vars, TypeOK
  <1>12. ASSUME NEW w \in Workers, ReplaceAcquired(w) PROVE TypeOK'
    <2>1. worker[w].claim \in Claim
      BY <1>12, WorkerShape DEF ReplaceAcquired
    <2>2. \/ worker' = [worker EXCEPT ![w] = [phase |-> "running", claim |-> worker[w].claim]]
          \/ worker' = [worker EXCEPT ![w] = Idle]
      BY <1>12, PhaseUpdate DEF ReplaceAcquired
    <2>3. [worker EXCEPT ![w] = [phase |-> "running", claim |-> worker[w].claim]]
              \in [Workers -> WorkerState]
      BY <2>1, WorkerUpdate
    <2>4. [worker EXCEPT ![w] = Idle] \in [Workers -> WorkerState]
      BY WorkerUpdate DEF Idle
    <2>5. worker' \in [Workers -> WorkerState]
      BY <2>2, <2>3, <2>4
    <2> QED
      BY <1>0, <1>12, <2>5 DEF ReplaceAcquired, TypeOK, schedVars
  <1>13. ASSUME NEW b \in beats, BeatReplace(b) PROVE TypeOK'
    BY <1>0, <1>13 DEF BeatReplace, TypeOK, schedVars
  <1>14. CASE CreateReplace
    <2>1. NoJob \in Job /\ Finished \in Controls
      BY DEF NoJob, Job, Finished, Controls
    <2> QED
      BY <1>0, <1>14, <2>1 DEF CreateReplace, Die, Controls, TypeOK
  <1> QED
    BY <1>1, <1>2, <1>3, <1>4, <1>5, <1>6, <1>7, <1>8, <1>9, <1>10, <1>11, <1>12, <1>13, <1>14
    DEF Next, Scheduler, WorkerStep, Planning

(* Every variable of the claim-file model keeps its shape.                 *)
THEOREM ClaimFilesTypeCorrect == Spec => []TypeOK
  <1>1. Init => TypeOK
    BY ClaimInit DEF ClaimInv
  <1> QED
    BY <1>1, ClaimTypeStep, PTL DEF Spec

-----------------------------------------------------------------------------
(* A step that adds no holder and no unassigned copy, and moves no file    *)
(* into place, keeps the invariant about them.                             *)
Smaller ==
    /\ issued' = issued
    /\ \A k \in Nat : (InFile(k)' => InFile(k)) /\ (InTmp(k)' => InTmp(k))
    /\ \A w \in Workers, k \in Nat :
          /\ Writing(w, k)' => Writing(w, k) \/ InFile(k)
          /\ Replacing(w, k)' <=> Replacing(w, k)
          /\ Holds(w, k)' => Holds(w, k)
    /\ tmp' = NoClaim => tmp = NoClaim

LEMMA NothingNew ==
    ASSUME ClaimInv, Smaller
    PROVE  (Issued /\ HolderIsUnique)'
  <1>1. \A k \in Nat : Loose(k)' => Loose(k)
    BY DEF Smaller, Loose
  <1>2. Issued'
    BY <1>1 DEF ClaimInv, Issued, Smaller
  <1>3. HolderIsUnique'
    BY <1>1 DEF ClaimInv, HolderIsUnique, Smaller
  <1> QED
    BY <1>2, <1>3

(* Moving the temporary file into place moves its holder, or the new claim *)
(* in it, with it.                                                         *)
LEMMA Placed ==
    ASSUME ClaimInv, Replaced \/ NothingToReplace, issued' = issued,
           \A w \in Workers, k \in Nat :
               /\ Writing(w, k)' => Writing(w, k)
               /\ Replacing(w, k)' => Replacing(w, k)
               /\ worker'[w].phase \in {"replacing", "running"} /\ worker'[w].claim.id = k
                      => worker[w].phase \in {"replacing", "running"} /\ worker[w].claim.id = k,
           beats' \subseteq beats
    PROVE  (Issued /\ HolderIsUnique)'
  <1>1. \A k \in Nat : ~InTmp(k)'
    BY DEF Replaced, NothingToReplace, disk, InTmp
  <1>2. \A k \in Nat : InFile(k)' => InTmp(k) \/ (InFile(k) /\ NothingToReplace)
    BY DEF Replaced, NothingToReplace, disk, InFile, InTmp
  <1>3. \A k \in Nat : Loose(k)' => Loose(k)
    BY <1>1, <1>2 DEF Loose
  <1>4. \A w \in Workers, k \in Nat : Holds(w, k)' => Holds(w, k)
    BY DEF Holds, Replaced, NothingToReplace, disk
  <1>5. Issued'
    BY <1>3, <1>4 DEF ClaimInv, Issued
  <1>6. ASSUME NEW w \in Workers, NEW k \in Nat, Holds(w, k)', Loose(k)' PROVE Replacing(w, k)'
    <2>1. Holds(w, k) /\ Loose(k) /\ Replacing(w, k)
      BY <1>3, <1>4, <1>6 DEF ClaimInv, HolderIsUnique
    <2>2. ~InTmp(k)
      BY <2>1 DEF ClaimInv, HolderIsUnique
    <2>3. \A v \in Workers : ~Writing(v, k)
      BY <2>1 DEF ClaimInv, SentinelExcludes, Acquiring, Writing, Replacing
    <2>4. InFile(k) /\ NothingToReplace
      BY <1>1, <1>2, <1>6, <2>2, <2>3 DEF Loose
    <2> QED
      BY <2>1, <2>4 DEF ClaimInv, HolderIsUnique, NothingToReplace
  <1>7. ASSUME NEW w \in Workers, NEW k \in Nat, Replacing(w, k)', InFile(k)' PROVE FALSE
    <2>1. Replacing(w, k) /\ Holds(w, k)
      BY <1>7 DEF Replacing, Holds
    <2>2. ~InTmp(k)
      BY <2>1 DEF ClaimInv, HolderIsUnique
    <2> QED
      BY <1>2, <1>7, <2>1, <2>2 DEF ClaimInv, HolderIsUnique, NothingToReplace
  <1> QED
    BY <1>1, <1>4, <1>5, <1>6, <1>7 DEF ClaimInv, HolderIsUnique

(* Every step keeps the sentinel exclusive.                                *)
LEMMA SentinelStep == ClaimInv /\ [Next]_vars => SentinelExcludes'
  <1> SUFFICES ASSUME ClaimInv, [Next]_vars PROVE SentinelExcludes'
    OBVIOUS
  <1> USE DEF ClaimInv, TypeOK, WorkerState, SentinelExcludes, Acquiring
  <1>1. ASSUME NEW w \in Workers, Open(w) PROVE SentinelExcludes'
    BY <1>1 DEF Open
  <1>2. ASSUME NEW w \in Workers, ReadToAcquire(w) PROVE SentinelExcludes'
    BY <1>2 DEF ReadToAcquire, Idle
  <1>3. ASSUME NEW w \in Workers, WriteAcquired(w) PROVE SentinelExcludes'
    BY <1>3 DEF WriteAcquired
  <1>4. ASSUME NEW w \in Workers, BeatRead(w) PROVE SentinelExcludes'
    BY <1>4 DEF BeatRead
  <1>5. ASSUME NEW b \in beats, BeatWrite(b) PROVE SentinelExcludes'
    BY <1>5 DEF BeatWrite
  <1>6. ASSUME NEW w \in Workers, NEW ok \in BOOLEAN, Finish(w, ok) PROVE SentinelExcludes'
    BY <1>6 DEF Finish, Idle
  <1>7. CASE Expire \/ Unlink \/ CreateWrite \/ CreateReplace
    BY <1>7 DEF Expire, Unlink, CreateWrite, CreateReplace
  <1>8. CASE Planning
    BY <1>8, PlanningIsQuiet
  <1>9. CASE UNCHANGED vars
    BY <1>9 DEF vars
  <1>10. ASSUME NEW w \in Workers, ReplaceAcquired(w) PROVE SentinelExcludes'
    BY <1>10 DEF ReplaceAcquired, Idle
  <1>11. ASSUME NEW b \in beats, BeatReplace(b) PROVE SentinelExcludes'
    BY <1>11 DEF BeatReplace
  <1> QED
    BY <1>1, <1>2, <1>3, <1>4, <1>5, <1>6, <1>7, <1>8, <1>9, <1>10, <1>11
    DEF Next, Scheduler, WorkerStep, Planning

(* Every step keeps the holder of a claim unique: the only new holder is   *)
(* the worker that writes an unassigned claim back under the sentinel, and *)
(* the only new unassigned claim has a number of its own.                  *)
LEMMA HolderStep == ClaimInv /\ [Next]_vars => (Issued /\ HolderIsUnique)'
  <1> SUFFICES ASSUME ClaimInv, [Next]_vars PROVE (Issued /\ HolderIsUnique)'
    OBVIOUS
  <1>0. TypeOK /\ TypeOK'
    BY ClaimTypeStep DEF ClaimInv
  <1> USE DEF disk, Smaller, InFile, InTmp, Writing, Replacing, Holds
  <1>1. ASSUME NEW w \in Workers, Open(w) PROVE Smaller
    BY <1>0, <1>1 DEF Open, TypeOK, WorkerState
  <1>2. ASSUME NEW w \in Workers, ReadToAcquire(w) PROVE Smaller
    BY <1>0, <1>2 DEF ReadToAcquire, Unassigned, Idle, TypeOK, WorkerState
  <1>3. ASSUME NEW w \in Workers, WriteAcquired(w) PROVE (Issued /\ HolderIsUnique)'
    <2> DEFINE mine == worker[w].claim.id
    <2>1. worker[w].claim \in Claim /\ mine \in Nat
      BY <1>0, <1>3, WorkerShape DEF WriteAcquired, Claim
    <2>2. Writing(w, mine) /\ Loose(mine)
      BY <1>3 DEF WriteAcquired, Loose
    <2>3. tmp' # NoClaim /\ tmp'.id = mine /\ tmp'.owner = w
      BY <1>3, <2>1, RenewedIsClaim DEF WriteAcquired
    <2>4. /\ worker'[w].phase = "replacing" /\ worker'[w].claim.id = mine
          /\ \A v \in Workers : v # w => worker'[v] = worker[v] /\ ~Acquiring(v)
          /\ file' = file /\ beats' = beats /\ issued' = issued
      BY <1>0, <1>3 DEF WriteAcquired, TypeOK, ClaimInv, SentinelExcludes, Acquiring
    <2>5. \A k \in Nat : (Loose(k)' => InFile(k)) /\ ~InTmp(k)' /\ (InFile(k)' => InFile(k))
      BY <2>3, <2>4, Constants DEF Loose, Acquiring
    <2>6. \A v \in Workers, k \in Nat : Holds(v, k)' => (v = w /\ k = mine) \/ Holds(v, k)
      BY <2>3, <2>4
    <2>7. \A v \in Workers : ~Holds(v, mine)
      BY <1>3, <2>1, <2>2, <2>4 DEF WriteAcquired, ClaimInv, HolderIsUnique, Acquiring
    <2>8. \A v \in Workers, k \in Nat : Holds(v, k) => ~InFile(k)
      BY <1>3, <2>4 DEF WriteAcquired, ClaimInv, HolderIsUnique, Acquiring, Loose
    <2>9. Issued'
      BY <2>1, <2>2, <2>4, <2>5, <2>6 DEF ClaimInv, Issued, Loose
    <2>10. \A v, x \in Workers, k \in Nat : Holds(v, k)' /\ Holds(x, k)' => v = x
      BY <2>6, <2>7 DEF ClaimInv, HolderIsUnique
    <2>11. \A v \in Workers, k \in Nat : Holds(v, k)' /\ Loose(k)' => Replacing(v, k)'
      BY <2>4, <2>5, <2>6, <2>8 DEF Replacing
    <2> QED
      BY <2>3, <2>5, <2>9, <2>10, <2>11 DEF HolderIsUnique
  <1>4. ASSUME NEW w \in Workers, BeatRead(w) PROVE Smaller
    BY <1>4 DEF BeatRead
  <1>5. ASSUME NEW b \in beats, BeatWrite(b) PROVE Smaller
    <2>1. b \in Beat /\ b.worker \in Workers /\ b.claim \in Claim
      BY <1>0 DEF TypeOK, Beat
    <2>2. tmp' # NoClaim /\ tmp'.id = b.claim.id /\ tmp'.owner = b.worker
      BY <1>5, <2>1, RenewedIsClaim DEF BeatWrite
    <2>3. \A c \in beats' : \E d \in beats : c.worker = d.worker /\ c.claim = d.claim
      BY <1>5, <2>1 DEF BeatWrite, Filled, Beat
    <2> QED
      BY <1>5, <2>1, <2>2, <2>3, Constants DEF BeatWrite
  <1>6. ASSUME NEW w \in Workers, NEW ok \in BOOLEAN, Finish(w, ok) PROVE Smaller
    BY <1>0, <1>6 DEF Finish, Idle, TypeOK, WorkerState
  <1>7. ASSUME Expire PROVE Smaller
    <2>1. file' # NoClaim /\ file'.id = file.id /\ file'.owner = file.owner
      BY <1>0, <1>7, Constants DEF Expire, TypeOK, Claim
    <2> QED
      BY <1>7, <2>1 DEF Expire
  <1>8. ASSUME Unlink PROVE Smaller
    BY <1>8 DEF Unlink
  <1>9. CASE CreateWrite
    <2>1. \A w \in Workers, k \in Nat : Holds(w, k)' => Holds(w, k)
      BY <1>9, Constants DEF CreateWrite
    <2>2. \A k \in Nat : /\ Loose(k)' => Loose(k) \/ k = issued + 1
                         /\ InTmp(k)' => k = issued + 1
      BY <1>9 DEF CreateWrite, Loose
    <2>0. [id |-> issued + 1, owner |-> NoWorker, retries |-> job.retries, expired |-> FALSE]
              \in Claim
      BY <1>0 DEF TypeOK, Claim, Job
    <2>3. issued \in Nat /\ issued' = issued + 1 /\ tmp' # NoClaim
      BY <1>0, <1>9, <2>0, Constants DEF CreateWrite, TypeOK
    <2>4. UNCHANGED <<file, worker, beats>>
      BY <1>9 DEF CreateWrite
    <2>5. \A w \in Workers, k \in Nat : InTmp(k)' => ~Holds(w, k) /\ ~Loose(k)
      BY <2>2, <2>3 DEF ClaimInv, Issued
    <2>6. Issued'
      BY <2>1, <2>2, <2>3 DEF ClaimInv, Issued
    <2>7. \A w \in Workers, k \in Nat : Holds(w, k)' /\ Loose(k)' => Replacing(w, k)'
      BY <2>1, <2>2, <2>3, <2>4 DEF ClaimInv, HolderIsUnique, Issued
    <2>8. \A w \in Workers, k \in Nat :
              InTmp(k)' => ~Holds(w, k)' /\ ~Writing(w, k)' /\ ~InFile(k)'
      BY <2>1, <2>4, <2>5 DEF Loose
    <2> QED
      BY <2>1, <2>3, <2>6, <2>7, <2>8 DEF ClaimInv, HolderIsUnique
  <1>10. ASSUME Planning PROVE Smaller
    BY <1>10, PlanningIsQuiet
  <1>11. ASSUME UNCHANGED vars PROVE Smaller
    BY <1>11 DEF vars
  <1>12. ASSUME NEW w \in Workers, ReplaceAcquired(w) PROVE (Issued /\ HolderIsUnique)'
    <2>1. \/ worker' = [worker EXCEPT ![w].phase = "running"]
          \/ worker' = [worker EXCEPT ![w] = Idle]
      BY <1>12 DEF ReplaceAcquired
    <2>2. worker[w].phase = "replacing" /\ worker \in [Workers -> WorkerState]
      BY <1>0, <1>12 DEF ReplaceAcquired, TypeOK
    <2>3. /\ worker'[w].phase \in {"running", "idle"}
          /\ worker'[w].phase = "running" => worker'[w].claim = worker[w].claim
      BY <2>1, <2>2 DEF Idle, WorkerState
    <2>4. \A v \in Workers : v # w => worker'[v] = worker[v]
      BY <2>1, <2>2
    <2>5. \A v \in Workers, k \in Nat :
              /\ Writing(v, k)' => Writing(v, k)
              /\ Replacing(v, k)' => Replacing(v, k)
              /\ worker'[v].phase \in {"replacing", "running"} /\ worker'[v].claim.id = k
                     => worker[v].phase \in {"replacing", "running"} /\ worker[v].claim.id = k
      BY <2>2, <2>3, <2>4
    <2>6. (Replaced \/ NothingToReplace) /\ issued' = issued /\ beats' = beats
      BY <1>12 DEF ReplaceAcquired
    <2> QED
      BY <2>5, <2>6, Placed
  <1>13. ASSUME NEW b \in beats, BeatReplace(b) PROVE (Issued /\ HolderIsUnique)'
    BY <1>13, Placed DEF BeatReplace
  <1>14. CASE CreateReplace
    BY <1>14, Placed DEF CreateReplace
  <1> QED
    BY <1>1, <1>2, <1>3, <1>4, <1>5, <1>6, <1>7, <1>8, <1>9, <1>10, <1>11, <1>12, <1>13, <1>14,
       NothingNew
    DEF Next, Scheduler, WorkerStep, Planning

(* The invariant holds in every behaviour.                                 *)
LEMMA ClaimInvariant == Spec => []ClaimInv
  <1>1. ClaimInv /\ [Next]_vars => ClaimInv'
    BY ClaimTypeStep, SentinelStep, HolderStep DEF ClaimInv
  <1> QED
    BY ClaimInit, <1>1, PTL DEF Spec

(* The claim file, the sentinel, the workers' copies and the heartbeats in *)
(* flight keep their shape, for any number of workers and retries.         *)
THEOREM TypeCorrect == Spec => []TypeOK
  <1>1. ClaimInv => TypeOK
    BY DEF ClaimInv
  <1> QED
    BY <1>1, ClaimInvariant, PTL

(* Two workers never execute the same claim, whatever reads and writes of  *)
(* the claim file come between, with any number of workers and heartbeats. *)
THEOREM ClaimHasOneWorker == Spec => []OneWorkerPerClaim
  <1>1. ClaimInv => OneWorkerPerClaim
    <2> SUFFICES ASSUME ClaimInv, NEW v \in Workers, NEW w \in Workers,
                        worker[v].phase = "running", worker[w].phase = "running",
                        worker[v].claim.id = worker[w].claim.id
                 PROVE  v = w
      BY DEF OneWorkerPerClaim
    <2>1. worker[v].claim.id \in Nat
      BY WorkerShape DEF ClaimInv, Claim
    <2>2. Holds(v, worker[v].claim.id) /\ Holds(w, worker[v].claim.id)
      BY DEF Holds
    <2> QED
      BY <2>1, <2>2 DEF ClaimInv, HolderIsUnique
  <1> QED
    BY <1>1, ClaimInvariant, PTL

(* A write to a claim that has an owner keeps the owner.                   *)
LEMMA OwnerStep ==
    ASSUME ClaimInv, [Next]_vars, file # NoClaim, file.owner # NoWorker,
           file' # NoClaim, file'.id = file.id
    PROVE  file'.owner = file.owner
  <1>1. file \in Claim /\ file.id \in Nat /\ file.owner \in Workers
    BY DEF ClaimInv, TypeOK, Claim
  <1>2. Holds(file.owner, file.id)
    BY <1>1 DEF Holds
  <1>3. CASE Replaced
    <2>1. tmp \in Claim /\ tmp.id = file.id /\ file'.owner = tmp.owner
      BY <1>3 DEF Replaced, ClaimInv, TypeOK
    <2>2. tmp.owner # NoWorker
      BY <1>1, <1>2, <2>1, Constants DEF ClaimInv, HolderIsUnique, InTmp, Claim
    <2>3. tmp.owner \in Workers /\ Holds(tmp.owner, file.id)
      BY <2>1, <2>2, Constants DEF Holds, Claim
    <2> QED
      BY <1>1, <1>2, <2>1, <2>3 DEF ClaimInv, HolderIsUnique
  <1>4. CASE NothingToReplace
    BY <1>4 DEF NothingToReplace, disk
  <1>5. ASSUME Expire PROVE file'.owner = file.owner
    BY <1>1, <1>5 DEF Expire, Claim
  <1>6. ASSUME Unlink PROVE FALSE
    BY <1>6 DEF Unlink
  <1>7. ASSUME NEW w \in Workers, Open(w) \/ ReadToAcquire(w) \/ WriteAcquired(w) \/ BeatRead(w)
                                  \/ \E ok \in BOOLEAN : Finish(w, ok)
        PROVE  file' = file
    BY <1>7 DEF Open, ReadToAcquire, WriteAcquired, BeatRead, Finish, disk
  <1>8. ASSUME Planning \/ CreateWrite \/ UNCHANGED vars PROVE file' = file
    BY <1>8, PlanningIsQuiet DEF CreateWrite, vars, disk
  <1>9. ASSUME NEW b \in beats, BeatWrite(b) PROVE file' = file
    BY <1>9 DEF BeatWrite
  <1>10. ASSUME \/ CreateReplace \/ (\E w \in Workers : ReplaceAcquired(w))
                \/ (\E b \in beats : BeatReplace(b))
         PROVE  Replaced \/ NothingToReplace
    BY <1>10 DEF CreateReplace, ReplaceAcquired, BeatReplace
  <1> QED
    BY <1>3, <1>4, <1>5, <1>6, <1>7, <1>8, <1>9, <1>10 DEF Next, Scheduler, WorkerStep, Planning

(* A claim changes hands once: no late write of an acquiring worker, a     *)
(* heartbeat or the scheduler gives an owned claim to somebody else.       *)
THEOREM OwnerNeverChanges == Spec => OwnerIsFixed
  <1>1. ClaimInv /\ [Next]_vars
          => [file # NoClaim /\ file.owner # NoWorker /\ file' # NoClaim /\ file'.id = file.id
                 => file'.owner = file.owner]_vars
    BY OwnerStep
  <1> QED
    BY <1>1, ClaimInvariant, PTL DEF Spec, OwnerIsFixed
=============================================================================
