--------------------------- MODULE JobQueueProofs ---------------------------
(***************************************************************************)
(* Proofs about JobQueue, for every set of jobs, pods and slots, every     *)
(* routing of kinds and every budget: types, terminal rows, the claim      *)
(* invariant and what follows from it for cancels and live claims; then    *)
(* that every start of a handler is charged, and on top of it that the     *)
(* queue implements the promise of JobLifecycle.                           *)
(***************************************************************************)
EXTENDS JobQueue, FiniteSetTheorems, TLAPS

-----------------------------------------------------------------------------
(* The statements of jobs.Store keep the shape of a row.                   *)

\* No statement of store.go takes a row out of the table's column types.
LEMMA StoreTypes ==
  ASSUME NEW r \in Job, NEW w \in WorkerIds
  PROVE  /\ Claimed(r, w) \in Job
         /\ Requeue(r, w) \in Job
         /\ Complete(r, w) \in Job
         /\ FailRetry(r, w) \in Job
         /\ FailTerminal(r, w) \in Job
         /\ MarkCancelled(r) \in Job
         /\ Heartbeat(r, w) \in Job
         /\ Reaped(r) \in Job
<1>0. r.attempts \in Nat /\ r.attempts + 1 \in Nat
      /\ (IF r.attempts - 1 > 0 THEN r.attempts - 1 ELSE 0) \in Nat
  BY DEF Job
<1>1. Claimed(r, w) \in Job
  <2> DEFINE n == r.attempts + 1
  <2> HIDE DEF n
  <2>1. n \in Nat BY <1>0 DEF n
  <2>2. Claimed(r, w) = [r EXCEPT !.status = "running", !.attempts = n,
                                  !.lockedBy = w, !.stale = FALSE]
    BY DEF Claimed, n
  <2> QED BY <2>1, <2>2 DEF Job, Status
<1>2. Requeue(r, w) \in Job
  <2> DEFINE n == IF r.attempts - 1 > 0 THEN r.attempts - 1 ELSE 0
  <2> HIDE DEF n
  <2>1. n \in Nat BY <1>0 DEF n
  <2>2. Requeue(r, w) = IF Owned(r, w)
                          THEN [r EXCEPT !.status = "queued",
                                         !.lockedBy = NoWorker, !.attempts = n]
                          ELSE r
    BY DEF Requeue, n
  <2> QED BY <2>1, <2>2 DEF Job, Status
<1>3. Complete(r, w) \in Job
  BY DEF Complete, Job, Status
<1>4. FailRetry(r, w) \in Job
  BY DEF FailRetry, Job, Status
<1>5. FailTerminal(r, w) \in Job
  BY DEF FailTerminal, Job, Status
<1>6. MarkCancelled(r) \in Job
  BY DEF MarkCancelled, Job, Status
<1>7. Heartbeat(r, w) \in Job
  BY DEF Heartbeat, Job, Status
<1>8. Reaped(r) \in Job
  BY DEF Reaped, Job, Status
<1> QED BY <1>1, <1>2, <1>3, <1>4, <1>5, <1>6, <1>7, <1>8

\* Enqueue inserts a well-formed row whatever budget the caller asks for.
LEMMA EnqueuedType ==
  ASSUME NEW k \in Kinds, NEW m \in Int, NEW d \in BOOLEAN
  PROVE  Enqueued(k, m, d) \in Job
<1> DEFINE n == IF m < 1 THEN 1 ELSE m
<1>1. n \in Nat OBVIOUS
<1> HIDE DEF n
<1>2. Enqueued(k, m, d) =
        [status |-> "queued", kind |-> k, attempts |-> 0, maxAttempts |-> n,
         lockedBy |-> NoWorker, due |-> d, stale |-> FALSE]
  BY DEF Enqueued, n
<1> QED BY <1>1, <1>2 DEF Job, Status

\* A slot's locked_by value (workerID in local.go) names that slot alone.
LEMMA WorkerIdInjective ==
  ASSUME NEW s \in Slots, NEW t \in Slots, WorkerId(s) = WorkerId(t)
  PROVE  s = t
<1>1. PodOf[s] = PodOf[t]
  BY DEF WorkerId
<1>2. CASE SingleSlot(PodOf[s])
  BY <1>1, <1>2 DEF SingleSlot
<1>3. CASE ~ SingleSlot(PodOf[s])
  BY <1>1, <1>3 DEF WorkerId
<1> QED BY <1>2, <1>3

\* Every slot's worker id is one of the values locked_by may take.
LEMMA WorkerIdType ==
  ASSUME NEW s \in Slots
  PROVE  WorkerId(s) \in WorkerIds /\ WorkerId(s) # NoWorker
  BY WorkerIdsAssumption, NoWorkerAssumption

-----------------------------------------------------------------------------
(* Type correctness.                                                       *)

\* The initial state is well-typed.
LEMMA InitType == Init => TypeOK
<1> SUFFICES ASSUME Init PROVE TypeOK
  OBVIOUS
<1>0. (CHOOSE k \in Kinds : TRUE) \in Kinds
  BY ConstantsAssumption
<1>1. Absent(CHOOSE k \in Kinds : TRUE) \in Job
  BY <1>0 DEF Absent, Job, Status
<1>2. Idle \in Run
  BY DEF Idle, Run
<1> QED BY <1>1, <1>2 DEF Init, TypeOK

\* A slot that holds a job holds one of Jobs: part of what TypeOK needs.
RunShape ==
  \A s \in Slots : run[s].pc # "idle" => run[s].job \in Jobs

TypeInv == TypeOK /\ RunShape

\* Every step keeps the types.
LEMMA NextType == TypeInv /\ [Next]_vars => TypeInv'
<1> SUFFICES ASSUME TypeInv, [Next]_vars PROVE TypeInv'
  OBVIOUS
<1> USE DEF TypeInv
<1>0. Idle \in Run /\ Idle.pc = "idle"
  BY DEF Idle, Run
<1>1. ASSUME NEW s \in Slots, NEW j \in Jobs, ClaimNext(s, j)
      PROVE  TypeInv'
  <2>1. Claimed(row[j], WorkerId(s)) \in Job
    BY StoreTypes, WorkerIdType DEF TypeOK
  <2>2. row' \in [Jobs -> Job]
    BY <1>1, <2>1 DEF ClaimNext, TypeOK
  <2>3. row'[j].attempts \in Nat
    BY <2>2 DEF Job
  <2>4. [Idle EXCEPT !.pc = "claimed", !.job = j, !.attempts = row'[j].attempts] \in Run
    BY <2>3 DEF Idle, Run
  <2> QED BY <1>1, <2>2, <2>4 DEF ClaimNext, TypeOK, RunShape, Idle
<1>2. ASSUME NEW s \in Slots, NEW j \in Jobs, ClaimReplyLost(s, j)
      PROVE  TypeInv'
  <2>1. Claimed(row[j], WorkerId(s)) \in Job
    BY StoreTypes, WorkerIdType DEF TypeOK
  <2> QED BY <1>2, <2>1 DEF ClaimReplyLost, TypeOK, RunShape
<1>3. ASSUME NEW s \in Slots, Throttled(s)
      PROVE  TypeInv'
  <2>1. run[s].job \in Jobs
    BY <1>3 DEF Throttled, RunShape
  <2>2. Requeue(row[run[s].job], WorkerId(s)) \in Job
    BY <2>1, StoreTypes, WorkerIdType DEF TypeOK
  <2> QED BY <1>0, <1>3, <2>1, <2>2 DEF Throttled, TypeOK, RunShape
<1>4. ASSUME NEW s \in Slots, StartRun(s)
      PROVE  TypeInv'
  <2>1. run[s].job \in Jobs /\ PodOf[s] \in Pods
    BY <1>4, ConstantsAssumption DEF StartRun, RunShape
  <2>2. [run[s] EXCEPT !.pc = "running"] \in Run
    BY DEF TypeOK, Run
  <2> QED BY <1>4, <2>1, <2>2 DEF StartRun, TypeOK, RunShape
<1>5. ASSUME NEW s \in Slots, NoHandler(s)
      PROVE  TypeInv'
  <2>1. run[s].job \in Jobs /\ PodOf[s] \in Pods
    BY <1>5, ConstantsAssumption DEF NoHandler, RunShape
  <2>2. FailTerminal(row[run[s].job], WorkerId(s)) \in Job
    BY <2>1, StoreTypes, WorkerIdType DEF TypeOK
  <2>3. [job |-> run[s].job, status |-> "failed"] \in Event
    BY <2>1 DEF Event
  <2> QED BY <1>0, <1>5, <2>1, <2>2, <2>3 DEF NoHandler, TypeOK, RunShape
<1>6. ASSUME NEW s \in Slots, BeatHeart(s)
      PROVE  TypeInv'
  <2>1. run[s].job \in Jobs
    BY <1>6 DEF BeatHeart, RunShape
  <2>2. Heartbeat(row[run[s].job], WorkerId(s)) \in Job
    BY <2>1, StoreTypes, WorkerIdType DEF TypeOK
  <2> QED BY <1>6, <2>1, <2>2 DEF BeatHeart, TypeOK, RunShape
<1>7. ASSUME NEW s \in Slots, HandlerReturns(s)
      PROVE  TypeInv'
  <2>1. PICK result \in {"ok", "error"} :
          run' = [run EXCEPT ![s].result = result,
                    ![s].pc = IF CtxDone(s) THEN "leaving" ELSE "writing"]
    BY <1>7 DEF HandlerReturns
  <2> DEFINE pc == IF CtxDone(s) THEN "leaving" ELSE "writing"
             new == [run[s] EXCEPT !.result = result, !.pc = pc]
  <2>2. new \in Run /\ new.job = run[s].job
    <3>1. pc \in {"leaving", "writing"} OBVIOUS
    <3>2. run[s] \in Run BY DEF TypeOK
    <3> HIDE DEF pc
    <3> QED BY <3>1, <3>2 DEF Run
  <2>3. run' = [run EXCEPT ![s] = new]
    BY <2>1 DEF TypeOK
  <2> HIDE DEF new
  <2>4. run[s].job \in Jobs
    BY <1>7 DEF HandlerReturns, RunShape
  <2>5. run' \in [Slots -> Run] /\ RunShape'
    BY <2>2, <2>3, <2>4 DEF TypeOK, RunShape
  <2> QED BY <1>7, <2>5 DEF HandlerReturns, TypeOK
<1>8. ASSUME NEW s \in Slots, RecordOutcome(s) \/ RecordOutcomeError(s)
      PROVE  TypeInv'
  <2>1. run[s].job \in Jobs
    BY <1>8 DEF RecordOutcome, RecordOutcomeError, RunShape
  <2>2. Outcome(s) \in {"done", "retry", "failed"}
    BY DEF Outcome
  <2>3. Recorded(s) \in Job
    BY <2>1, <2>2, StoreTypes, WorkerIdType DEF TypeOK, Recorded
  <2>4. Announced(s) \subseteq Event
    BY <2>1, <2>2 DEF Announced, Event
  <2> DEFINE new == [run[s] EXCEPT !.pc = "leaving"]
  <2>5. new \in Run /\ new.job = run[s].job /\ run' = [run EXCEPT ![s] = new]
    BY <1>8 DEF RecordOutcome, RecordOutcomeError, TypeOK, Run
  <2> HIDE DEF new
  <2>6. run' \in [Slots -> Run] /\ RunShape'
    BY <2>1, <2>5 DEF TypeOK, RunShape
  <2>7. row' \in [Jobs -> Job]
    BY <1>8, <2>1, <2>3 DEF RecordOutcome, RecordOutcomeError, TypeOK
  <2> QED BY <1>8, <2>4, <2>6, <2>7 DEF RecordOutcome, RecordOutcomeError, TypeOK
<1>9. ASSUME NEW s \in Slots, Leave(s)
      PROVE  TypeInv'
  <2>1. run[s].job \in Jobs /\ PodOf[s] \in Pods
    BY <1>9, ConstantsAssumption DEF Leave, RunShape
  <2> QED BY <1>0, <1>9, <2>1 DEF Leave, TypeOK, RunShape
<1>10. ASSUME NEW j \in Jobs, Enqueue(j)
       PROVE  TypeInv'
  <2>1. PICK k \in Kinds, m \in AttemptInputs, due \in BOOLEAN :
          row' = [row EXCEPT ![j] = Enqueued(k, m, due)]
    BY <1>10 DEF Enqueue
  <2>2. Enqueued(k, m, due) \in Job
    BY EnqueuedType, ConstantsAssumption
  <2> QED BY <1>10, <2>1, <2>2 DEF Enqueue, TypeOK, RunShape
<1>11. ASSUME NEW j \in Jobs, LeaseExpires(j) \/ RunAtPasses(j)
       PROVE  TypeInv'
  <2>1. [row[j] EXCEPT !.stale = TRUE] \in Job /\ [row[j] EXCEPT !.due = TRUE] \in Job
    BY DEF TypeOK, Job
  <2> QED BY <1>11, <2>1 DEF LeaseExpires, RunAtPasses, TypeOK, RunShape
<1>12. ASSUME NEW p \in Pods, NEW j \in Jobs, CancelJob(p, j)
       PROVE  TypeInv'
  <2>1. MarkCancelled(row[j]) \in Job
    <3>1. row[j] \in Job BY DEF TypeOK
    <3> QED BY <3>1 DEF MarkCancelled, Job, Status
  <2> QED BY <1>12, <2>1 DEF CancelJob, TypeOK, RunShape
<1>13. ASSUME NEW p \in Pods, NEW j \in Jobs, SignalRun(p, j)
       PROVE  TypeInv'
  <2>1. CASE cancels[p][j] = NoSlot
    BY <1>13, <2>1 DEF SignalRun, TypeOK, RunShape
  <2>2. CASE cancels[p][j] # NoSlot
    <3>1. cancels[p][j] \in Slots
      BY <2>2 DEF TypeOK
    <3> DEFINE c == cancels[p][j]
               new == [run[c] EXCEPT !.cancelled = TRUE]
    <3>2. run[c] \in Run
      BY <3>1 DEF TypeOK
    <3>3. new \in Run /\ new.pc = run[c].pc /\ new.job = run[c].job
      BY <3>2 DEF Run
    <3>4. run' = [run EXCEPT ![c] = new]
      BY <1>13, <2>2 DEF SignalRun
    <3> HIDE DEF new
    <3>5. run' \in [Slots -> Run] /\ RunShape'
      BY <3>1, <3>3, <3>4 DEF TypeOK, RunShape
    <3> QED BY <1>13, <3>5 DEF SignalRun, TypeOK
  <2> QED BY <2>1, <2>2
<1>14. ASSUME ReapStaleRunning
       PROVE  TypeInv'
  <2>1. \A j \in Jobs : Reaped(row[j]) \in Job
    <3> TAKE j \in Jobs
    <3>1. row[j] \in Job BY DEF TypeOK
    <3> QED BY <3>1 DEF Reaped, Job, Status
  <2> QED BY <1>14, <2>1 DEF ReapStaleRunning, TypeOK, RunShape
<1>15. ASSUME NEW p \in Pods, PodStep(p)
       PROVE  TypeInv'
  <2>1. CASE Shutdown(p) \/ Restart(p)
    BY <2>1 DEF Shutdown, Restart, TypeOK, RunShape
  <2>2. CASE Exit(p) \/ Crash(p)
    <3>1. Vanish(p, "down") /\ stops' \in Nat
      BY <2>2 DEF Exit, Crash, TypeOK
    <3>2. run' \in [Slots -> Run] /\ RunShape'
      BY <1>0, <3>1 DEF Vanish, TypeOK, RunShape
    <3>3. [j \in Jobs |-> NoSlot] \in [Jobs -> Slots \cup {NoSlot}]
      OBVIOUS
    <3>4. cancels' \in [Pods -> [Jobs -> Slots \cup {NoSlot}]]
      BY <3>1, <3>3 DEF Vanish, TypeOK
    <3> QED BY <3>1, <3>2, <3>4 DEF Vanish, TypeOK
  <2> QED BY <1>15, <2>1, <2>2 DEF PodStep
<1>16. CASE UNCHANGED vars
  BY <1>16 DEF vars, TypeOK, RunShape
<1> QED
  BY <1>1, <1>2, <1>3, <1>4, <1>5, <1>6, <1>7, <1>8, <1>9, <1>10, <1>11, <1>12,
     <1>13, <1>14, <1>15, <1>16 DEF Next, SlotStep, JobStep

\* TypeOK holds in every reachable state of the queue.
THEOREM TypeCorrect == Spec => []TypeOK
<1>1. Init => TypeInv
  <2>1. Idle.pc = "idle" BY DEF Idle
  <2> QED BY <2>1, InitType DEF Init, TypeInv, RunShape
<1>2. TypeInv /\ [Next]_vars => TypeInv'
  BY NextType
<1>3. TypeInv => TypeOK
  BY DEF TypeInv
<1> QED BY <1>1, <1>2, <1>3, PTL DEF Spec

-----------------------------------------------------------------------------
(* done, failed and cancelled are final.                                   *)

\* No statement of store.go moves a row out of a terminal status, and none
\* but the INSERT touches an id that is not there yet.
LEMMA StoreKeepsTerminal ==
  ASSUME NEW r \in Job, NEW w \in WorkerIds, r.status \in Terminal \cup {"absent"}
  PROVE  /\ Requeue(r, w) = r
         /\ Complete(r, w) = r
         /\ FailRetry(r, w) = r
         /\ FailTerminal(r, w) = r
         /\ MarkCancelled(r) = r
         /\ Heartbeat(r, w) = r
         /\ Reaped(r) = r
  BY DEF Terminal, Owned, Requeue, Complete, FailRetry, FailTerminal,
         Cancellable, MarkCancelled, Heartbeat, Reapable, Reaped

\* One step of the queue leaves a terminal row as it is.
LEMMA StepKeepsTerminal ==
  ASSUME TypeInv, [Next]_vars, NEW j \in Jobs, row[j].status \in Terminal
  PROVE  row'[j] = row[j]
<1>0. row \in [Jobs -> Job] /\ row[j] \in Job
  BY DEF TypeInv, TypeOK
<1>1. ASSUME NEW s \in Slots, NEW i \in Jobs, ClaimNext(s, i) \/ ClaimReplyLost(s, i)
      PROVE  row'[j] = row[j]
  <2>1. i # j
    BY <1>1 DEF ClaimNext, ClaimReplyLost, CanClaim, Claimable, Terminal
  <2> QED BY <1>0, <1>1, <2>1 DEF ClaimNext, ClaimReplyLost
<1>2. ASSUME NEW s \in Slots, Throttled(s) \/ NoHandler(s) \/ BeatHeart(s)
      PROVE  row'[j] = row[j]
  BY <1>0, <1>2, StoreKeepsTerminal, WorkerIdType DEF Throttled, NoHandler, BeatHeart
<1>3. ASSUME NEW s \in Slots, RecordOutcome(s) \/ RecordOutcomeError(s)
      PROVE  row'[j] = row[j]
  <2>1. Outcome(s) \in {"done", "retry", "failed"}
    BY DEF Outcome
  <2>2. run[s].job = j => Recorded(s) = row[j]
    BY <1>0, <2>1, StoreKeepsTerminal, WorkerIdType DEF Recorded
  <2>3. row' = row \/ row' = [row EXCEPT ![run[s].job] = Recorded(s)]
    BY <1>3 DEF RecordOutcome, RecordOutcomeError
  <2> QED BY <1>0, <2>2, <2>3
<1>4. ASSUME NEW s \in Slots, StartRun(s) \/ HandlerReturns(s) \/ Leave(s)
      PROVE  row'[j] = row[j]
  BY <1>4 DEF StartRun, HandlerReturns, Leave
<1>5. ASSUME NEW i \in Jobs, Enqueue(i) \/ LeaseExpires(i) \/ RunAtPasses(i)
      PROVE  row'[j] = row[j]
  <2>1. i # j
    BY <1>5 DEF Enqueue, LeaseExpires, RunAtPasses, Terminal
  <2> QED BY <1>0, <1>5, <2>1 DEF Enqueue, LeaseExpires, RunAtPasses
<1>6. ASSUME NEW p \in Pods, NEW i \in Jobs, CancelJob(p, i) \/ SignalRun(p, i)
      PROVE  row'[j] = row[j]
  <2>1. CASE CancelJob(p, i)
    <3>1. i # j
      BY <2>1 DEF CancelJob, Cancellable, Terminal
    <3> QED BY <1>0, <2>1, <3>1 DEF CancelJob
  <2>2. CASE SignalRun(p, i)
    BY <2>2 DEF SignalRun
  <2> QED BY <1>6, <2>1, <2>2
<1>7. ASSUME ReapStaleRunning
      PROVE  row'[j] = row[j]
  <2>1. ~ Reapable(row[j])
    BY DEF Reapable, Terminal
  <2> QED BY <1>7, <2>1 DEF ReapStaleRunning, Reaped
<1>8. ASSUME NEW p \in Pods, PodStep(p)
      PROVE  row'[j] = row[j]
  BY <1>8 DEF PodStep, Shutdown, Exit, Crash, Restart, Vanish
<1>9. CASE UNCHANGED vars
  BY <1>9 DEF vars
<1> QED
  BY <1>1, <1>2, <1>3, <1>4, <1>5, <1>6, <1>7, <1>8, <1>9
  DEF Next, SlotStep, JobStep

\* No behaviour of the queue changes a row that is done, failed or cancelled,
\* whatever a stale worker, the reaper or an admin does.
THEOREM TerminalRowsAreFinal == Spec => TerminalIsFinal
<1>1. Init => TypeInv
  <2>1. Idle.pc = "idle" BY DEF Idle
  <2> QED BY <2>1, InitType DEF Init, TypeInv, RunShape
<1>2. TypeInv /\ [Next]_vars => TypeInv'
  BY NextType
<1>3. TypeInv /\ [Next]_vars
        => [\A j \in Jobs : row[j].status \in Terminal
                              => row'[j].status = row[j].status]_vars
  BY StepKeepsTerminal
<1> QED BY <1>1, <1>2, <1>3, PTL DEF Spec, TerminalIsFinal

-----------------------------------------------------------------------------
(* The claim-owner guard and the attempt budget.  Neither is inductive by  *)
(* itself: the retry decision of execute compares the run's own copy of    *)
(* attempts with the budget, so BudgetKept needs that the copy is the      *)
(* row's value whenever the guard lets the write through (ClaimCopy), and  *)
(* that rests on a slot never sharing its locked_by value.                 *)

ClaimCopy ==
  \A s \in Slots :
    run[s].pc # "idle" /\ Owned(row[run[s].job], WorkerId(s))
      => run[s].attempts = row[run[s].job].attempts

ClaimInv == TypeInv /\ BudgetKept /\ ClaimCopy

\* Every statement but the claim: who owns the row afterwards owned it before,
\* with the same number of attempts.
KeepsClaim(r, q) ==
  \A w \in WorkerIds : Owned(q, w) => Owned(r, w) /\ q.attempts = r.attempts

\* Only ClaimNext makes an owner.
LEMMA StoreKeepsClaim ==
  ASSUME NEW r \in Job, NEW w \in WorkerIds
  PROVE  /\ KeepsClaim(r, Requeue(r, w))
         /\ KeepsClaim(r, Complete(r, w))
         /\ KeepsClaim(r, FailRetry(r, w))
         /\ KeepsClaim(r, FailTerminal(r, w))
         /\ KeepsClaim(r, MarkCancelled(r))
         /\ KeepsClaim(r, Heartbeat(r, w))
         /\ KeepsClaim(r, Reaped(r))
<1>1. KeepsClaim(r, Requeue(r, w))
  BY DEF KeepsClaim, Owned, Requeue, Job
<1>2. KeepsClaim(r, Complete(r, w))
  BY DEF KeepsClaim, Owned, Complete, Job
<1>3. KeepsClaim(r, FailRetry(r, w))
  BY DEF KeepsClaim, Owned, FailRetry, Job
<1>4. KeepsClaim(r, FailTerminal(r, w))
  BY DEF KeepsClaim, Owned, FailTerminal, Job
<1>5. KeepsClaim(r, MarkCancelled(r))
  BY DEF KeepsClaim, Owned, MarkCancelled, Job
<1>6. KeepsClaim(r, Heartbeat(r, w))
  BY DEF KeepsClaim, Owned, Heartbeat, Job
<1>7. KeepsClaim(r, Reaped(r))
  BY DEF KeepsClaim, Owned, Reaped, Job
<1> QED BY <1>1, <1>2, <1>3, <1>4, <1>5, <1>6, <1>7

\* No statement takes a row over its budget: the claim spends the attempt a
\* queued row has left, the retry is only written with one left.
LEMMA StoreKeepsBudget ==
  ASSUME NEW r \in Job, NEW w \in WorkerIds, InBudget(r)
  PROVE  /\ r.status = "queued" => InBudget(Claimed(r, w))
         /\ InBudget(Requeue(r, w))
         /\ InBudget(Complete(r, w))
         /\ (Owned(r, w) => r.attempts < r.maxAttempts) => InBudget(FailRetry(r, w))
         /\ InBudget(FailTerminal(r, w))
         /\ InBudget(MarkCancelled(r))
         /\ InBudget(Heartbeat(r, w))
         /\ InBudget(Reaped(r))
<1> USE DEF InBudget, Job
<1>1. r.status = "queued" => InBudget(Claimed(r, w))
  BY DEF Claimed
<1>2. InBudget(Requeue(r, w))
  BY DEF Requeue, Owned
<1>3. InBudget(Complete(r, w))
  BY DEF Complete
<1>4. (Owned(r, w) => r.attempts < r.maxAttempts) => InBudget(FailRetry(r, w))
  BY DEF FailRetry
<1>5. InBudget(FailTerminal(r, w))
  BY DEF FailTerminal
<1>6. InBudget(MarkCancelled(r))
  BY DEF MarkCancelled
<1>7. InBudget(Heartbeat(r, w))
  BY DEF Heartbeat
<1>8. InBudget(Reaped(r))
  BY DEF Reaped
<1> QED BY <1>1, <1>2, <1>3, <1>4, <1>5, <1>6, <1>7, <1>8

\* A step that claims nothing.
RunsKept ==
  \A t \in Slots : run'[t].pc # "idle" =>
    run[t].pc # "idle" /\ run'[t].job = run[t].job /\ run'[t].attempts = run[t].attempts

RowsKept == \A j \in Jobs : KeepsClaim(row[j], row'[j])

\* Steps that claim nothing keep every run's copy of attempts right.
LEMMA KeptClaimCopy ==
  ASSUME TypeInv, ClaimCopy, RunsKept, RowsKept
  PROVE  ClaimCopy'
<1> SUFFICES ASSUME NEW t \in Slots, run'[t].pc # "idle",
                    Owned(row'[run'[t].job], WorkerId(t))
             PROVE  run'[t].attempts = row'[run'[t].job].attempts
  BY DEF ClaimCopy
<1>1. /\ run[t].pc # "idle" /\ run'[t].job = run[t].job
      /\ run'[t].attempts = run[t].attempts /\ run[t].job \in Jobs
  BY DEF RunsKept, TypeInv, RunShape
<1>2. KeepsClaim(row[run[t].job], row'[run[t].job])
  BY <1>1 DEF RowsKept
<1> QED BY <1>1, <1>2, WorkerIdType DEF KeepsClaim, ClaimCopy

\* A step of a slot after its claim, up to its return to the loop.
LEMMA SlotKeepsClaims ==
  ASSUME ClaimInv, NEW s \in Slots,
         \/ Throttled(s) \/ StartRun(s) \/ NoHandler(s) \/ BeatHeart(s)
         \/ HandlerReturns(s) \/ RecordOutcome(s) \/ RecordOutcomeError(s) \/ Leave(s)
  PROVE  BudgetKept' /\ RunsKept /\ RowsKept
<1> DEFINE j == run[s].job
           w == WorkerId(s)
<1>0. /\ row \in [Jobs -> Job] /\ run \in [Slots -> Run] /\ w \in WorkerIds
      /\ \A i \in Jobs : InBudget(row[i]) /\ KeepsClaim(row[i], row[i])
  BY WorkerIdType DEF ClaimInv, TypeInv, TypeOK, BudgetKept, KeepsClaim
<1>1. run[s].pc # "idle" /\ j \in Jobs /\ row[j] \in Job
  <2>1. run[s].pc # "idle"
    BY DEF Throttled, StartRun, NoHandler, BeatHeart, HandlerReturns,
           RecordOutcome, RecordOutcomeError, Leave
  <2> QED BY <1>0, <2>1 DEF ClaimInv, TypeInv, RunShape
<1>2. RunsKept
  <2>1. CASE Throttled(s) \/ NoHandler(s) \/ Leave(s)
    BY <1>0, <2>1 DEF Throttled, NoHandler, Leave, RunsKept, Idle
  <2>2. CASE StartRun(s)
    BY <1>0, <1>1, <2>2 DEF StartRun, RunsKept, Run
  <2>3. CASE RecordOutcome(s) \/ RecordOutcomeError(s)
    BY <1>0, <1>1, <2>3 DEF RecordOutcome, RecordOutcomeError, RunsKept, Run
  <2>4. CASE HandlerReturns(s)
    BY <1>0, <1>1, <2>4 DEF HandlerReturns, RunsKept, Run
  <2>5. CASE BeatHeart(s)
    BY <2>5 DEF BeatHeart, RunsKept
  <2> QED BY <2>1, <2>2, <2>3, <2>4, <2>5
<1>3. ASSUME NEW q \in Job, InBudget(q), KeepsClaim(row[j], q),
             row' = [row EXCEPT ![j] = q]
      PROVE  BudgetKept' /\ RowsKept
  BY <1>0, <1>1, <1>3 DEF BudgetKept, RowsKept
<1>4. CASE UNCHANGED row
  BY <1>0, <1>2, <1>4 DEF BudgetKept, RowsKept
<1>5. Recorded(s) \in Job /\ InBudget(Recorded(s)) /\ KeepsClaim(row[j], Recorded(s))
  <2>1. Outcome(s) \in {"done", "retry", "failed"}
    BY DEF Outcome
  <2>2. Outcome(s) = "retry" /\ Owned(row[j], w) => row[j].attempts < row[j].maxAttempts
    BY <1>1 DEF Outcome, ClaimInv, ClaimCopy
  <2>3. CASE Outcome(s) = "done"
    BY <1>0, <1>1, <2>3, StoreTypes, StoreKeepsBudget, StoreKeepsClaim DEF Recorded
  <2>4. CASE Outcome(s) = "retry"
    BY <1>0, <1>1, <2>2, <2>4, StoreTypes, StoreKeepsBudget, StoreKeepsClaim DEF Recorded
  <2>5. CASE Outcome(s) = "failed"
    BY <1>0, <1>1, <2>5, StoreTypes, StoreKeepsBudget, StoreKeepsClaim DEF Recorded
  <2> QED BY <2>1, <2>3, <2>4, <2>5
<1>6. CASE RecordOutcome(s) \/ RecordOutcomeError(s)
  BY <1>2, <1>3, <1>4, <1>5, <1>6 DEF RecordOutcome, RecordOutcomeError
<1>7. CASE Throttled(s) \/ NoHandler(s) \/ BeatHeart(s)
  <2>1. /\ Requeue(row[j], w) \in Job /\ InBudget(Requeue(row[j], w))
        /\ KeepsClaim(row[j], Requeue(row[j], w))
        /\ FailTerminal(row[j], w) \in Job /\ InBudget(FailTerminal(row[j], w))
        /\ KeepsClaim(row[j], FailTerminal(row[j], w))
        /\ Heartbeat(row[j], w) \in Job /\ InBudget(Heartbeat(row[j], w))
        /\ KeepsClaim(row[j], Heartbeat(row[j], w))
    BY <1>0, <1>1, StoreTypes, StoreKeepsBudget, StoreKeepsClaim
  <2> QED BY <1>2, <1>3, <1>4, <1>7, <2>1 DEF Throttled, NoHandler, BeatHeart
<1>8. CASE StartRun(s) \/ HandlerReturns(s) \/ Leave(s)
  BY <1>2, <1>4, <1>8 DEF StartRun, HandlerReturns, Leave
<1> QED BY <1>6, <1>7, <1>8

\* Everything that is not a slot's step: producers, admin, time, reaper, pods.
LEMMA OthersKeepClaims ==
  ASSUME ClaimInv,
         \/ \E j \in Jobs : JobStep(j)
         \/ \E p \in Pods : PodStep(p)
         \/ ReapStaleRunning
  PROVE  BudgetKept' /\ RunsKept /\ RowsKept
<1>0. /\ row \in [Jobs -> Job] /\ run \in [Slots -> Run]
      /\ \A i \in Jobs : InBudget(row[i]) /\ KeepsClaim(row[i], row[i])
  BY DEF ClaimInv, TypeInv, TypeOK, BudgetKept, KeepsClaim
<1>1. ASSUME UNCHANGED run PROVE RunsKept
  BY <1>1 DEF RunsKept
<1>2. ASSUME UNCHANGED row PROVE BudgetKept' /\ RowsKept
  BY <1>0, <1>2 DEF BudgetKept, RowsKept
<1>3. ASSUME NEW j \in Jobs, NEW q \in Job, InBudget(q), KeepsClaim(row[j], q),
             row' = [row EXCEPT ![j] = q]
      PROVE  BudgetKept' /\ RowsKept
  BY <1>0, <1>3 DEF BudgetKept, RowsKept
<1>4. ASSUME NEW j \in Jobs, Enqueue(j)
      PROVE  BudgetKept' /\ RunsKept /\ RowsKept
  <2>1. PICK k \in Kinds, m \in AttemptInputs, due \in BOOLEAN :
          row' = [row EXCEPT ![j] = Enqueued(k, m, due)]
    BY <1>4 DEF Enqueue
  <2>2. m \in Int
    BY ConstantsAssumption
  <2>3. Enqueued(k, m, due) \in Job
    BY <2>2, EnqueuedType
  <2>4. InBudget(Enqueued(k, m, due))
    BY <2>2 DEF InBudget, Enqueued
  <2>5. KeepsClaim(row[j], Enqueued(k, m, due))
    BY DEF KeepsClaim, Owned, Enqueued
  <2>6. RunsKept
    BY <1>1, <1>4 DEF Enqueue
  <2> QED BY <1>3, <2>1, <2>3, <2>4, <2>5, <2>6
<1>5. ASSUME NEW j \in Jobs, LeaseExpires(j) \/ RunAtPasses(j)
      PROVE  BudgetKept' /\ RunsKept /\ RowsKept
  <2>1. PICK q \in {[row[j] EXCEPT !.stale = TRUE], [row[j] EXCEPT !.due = TRUE]} :
          row' = [row EXCEPT ![j] = q]
    BY <1>5 DEF LeaseExpires, RunAtPasses
  <2>2. row[j] \in Job /\ InBudget(row[j])
    BY <1>0
  <2>3. /\ q \in Job /\ q.attempts = row[j].attempts /\ q.status = row[j].status
        /\ q.maxAttempts = row[j].maxAttempts /\ q.lockedBy = row[j].lockedBy
    BY <2>2 DEF Job
  <2>4. InBudget(q) /\ KeepsClaim(row[j], q)
    BY <2>2, <2>3 DEF InBudget, KeepsClaim, Owned
  <2>5. RunsKept
    BY <1>1, <1>5 DEF LeaseExpires, RunAtPasses
  <2> QED BY <1>3, <2>1, <2>3, <2>4, <2>5
<1>6. ASSUME NEW p \in Pods, NEW j \in Jobs, CancelJob(p, j)
      PROVE  BudgetKept' /\ RunsKept /\ RowsKept
  <2>1. row[j] \in Job /\ InBudget(row[j])
    BY <1>0
  <2>2. MarkCancelled(row[j]) \in Job
    BY <2>1 DEF MarkCancelled, Job, Status
  <2>3. InBudget(MarkCancelled(row[j])) /\ KeepsClaim(row[j], MarkCancelled(row[j]))
    BY <2>1 DEF MarkCancelled, InBudget, KeepsClaim, Owned, Job
  <2>4. RunsKept
    BY <1>1, <1>6 DEF CancelJob
  <2> QED BY <1>3, <1>6, <2>2, <2>3, <2>4 DEF CancelJob
<1>7. ASSUME NEW p \in Pods, NEW j \in Jobs, SignalRun(p, j)
      PROVE  BudgetKept' /\ RunsKept /\ RowsKept
  <2>1. RunsKept
    BY <1>0, <1>7 DEF SignalRun, RunsKept, Run
  <2> QED BY <1>2, <1>7, <2>1 DEF SignalRun
<1>8. ASSUME ReapStaleRunning
      PROVE  BudgetKept' /\ RunsKept /\ RowsKept
  <2>1. \A j \in Jobs : InBudget(Reaped(row[j])) /\ KeepsClaim(row[j], Reaped(row[j]))
    <3> TAKE j \in Jobs
    <3>1. row[j] \in Job /\ InBudget(row[j])
      BY <1>0
    <3> QED BY <3>1 DEF Reaped, InBudget, KeepsClaim, Owned, Job
  <2> QED BY <1>1, <1>8, <2>1 DEF ReapStaleRunning, BudgetKept, RowsKept
<1>9. ASSUME NEW p \in Pods, PodStep(p)
      PROVE  BudgetKept' /\ RunsKept /\ RowsKept
  <2>1. CASE Shutdown(p) \/ Restart(p)
    BY <1>1, <1>2, <2>1 DEF Shutdown, Restart
  <2>2. CASE Exit(p) \/ Crash(p)
    <3>1. UNCHANGED row /\ RunsKept
      BY <2>2 DEF Exit, Crash, Vanish, RunsKept, Idle
    <3> QED BY <1>2, <3>1
  <2> QED BY <1>9, <2>1, <2>2 DEF PodStep
<1> QED
  BY <1>4, <1>5, <1>6, <1>7, <1>8, <1>9 DEF JobStep

\* A claim: the new copy is right, and nobody else passes the guard.
LEMMA ClaimKeepsClaims ==
  ASSUME ClaimInv, NEW s \in Slots, NEW j \in Jobs,
         ClaimNext(s, j) \/ ClaimReplyLost(s, j)
  PROVE  BudgetKept' /\ ClaimCopy'
<1>0. /\ row \in [Jobs -> Job] /\ run \in [Slots -> Run]
      /\ row[j] \in Job /\ InBudget(row[j]) /\ row[j].status = "queued"
  BY DEF ClaimInv, TypeInv, TypeOK, BudgetKept, ClaimNext, ClaimReplyLost,
         CanClaim, Claimable
<1>1. row' = [row EXCEPT ![j] = Claimed(row[j], WorkerId(s))] /\ run[s].pc = "idle"
  BY DEF ClaimNext, ClaimReplyLost, CanClaim
<1>2. BudgetKept'
  <2>1. InBudget(Claimed(row[j], WorkerId(s)))
    BY <1>0, StoreKeepsBudget, WorkerIdType
  <2> QED BY <1>0, <1>1, <2>1 DEF BudgetKept, ClaimInv
<1>3. ClaimCopy'
  <2> SUFFICES ASSUME NEW t \in Slots, run'[t].pc # "idle",
                      Owned(row'[run'[t].job], WorkerId(t))
               PROVE  run'[t].attempts = row'[run'[t].job].attempts
    BY DEF ClaimCopy
  <2>1. CASE t = s
    <3>1. ClaimNext(s, j)
      BY <1>1, <2>1 DEF ClaimReplyLost
    <3> QED BY <1>0, <2>1, <3>1 DEF ClaimNext, Idle
  <2>2. CASE t # s
    <3>1. run'[t] = run[t]
      BY <1>0, <2>2 DEF ClaimNext, ClaimReplyLost
    <3>2. run[t].job \in Jobs
      BY <3>1 DEF ClaimInv, TypeInv, RunShape
    <3>3. run[t].job # j
      <4>1. row'[j].lockedBy = WorkerId(s)
        BY <1>0, <1>1 DEF Claimed, Job
      <4> QED BY <2>2, <3>1, <4>1, WorkerIdInjective DEF Owned
    <3>4. row'[run[t].job] = row[run[t].job]
      BY <1>0, <1>1, <3>2, <3>3
    <3> QED BY <3>1, <3>4 DEF ClaimInv, ClaimCopy
  <2> QED BY <2>1, <2>2
<1> QED BY <1>2, <1>3

\* The claim invariant holds at the start and is kept by every step.
LEMMA ClaimInvInit == Init => ClaimInv
<1> SUFFICES ASSUME Init PROVE ClaimInv
  OBVIOUS
<1>1. Idle.pc = "idle"
  BY DEF Idle
<1>2. TypeInv
  BY <1>1, InitType DEF Init, TypeInv, RunShape
<1>3. BudgetKept
  BY DEF Init, BudgetKept, InBudget, Absent
<1>4. ClaimCopy
  BY <1>1 DEF Init, ClaimCopy
<1> QED BY <1>2, <1>3, <1>4 DEF ClaimInv

\* See ClaimInvInit.
LEMMA ClaimInvNext == ClaimInv /\ [Next]_vars => ClaimInv'
<1> SUFFICES ASSUME ClaimInv, [Next]_vars PROVE ClaimInv'
  OBVIOUS
<1>0. TypeInv'
  BY NextType DEF ClaimInv
<1>1. ASSUME BudgetKept' /\ RunsKept /\ RowsKept PROVE ClaimInv'
  BY <1>0, <1>1, KeptClaimCopy DEF ClaimInv
<1>2. ASSUME NEW s \in Slots, SlotStep(s) PROVE ClaimInv'
  BY <1>0, <1>1, <1>2, SlotKeepsClaims, ClaimKeepsClaims DEF SlotStep, ClaimInv
<1>3. CASE UNCHANGED vars
  BY <1>3 DEF vars, ClaimInv, TypeInv, TypeOK, RunShape, BudgetKept, ClaimCopy
<1> QED BY <1>1, <1>2, <1>3, OthersKeepClaims DEF Next

\* The attempt budget bounds every row's claims, although ClaimNext never
\* compares attempts with max_attempts.
THEOREM BudgetIsKept == Spec => []BudgetKept
<1>1. ClaimInv => BudgetKept
  BY DEF ClaimInv
<1> QED BY <1>1, ClaimInvInit, ClaimInvNext, PTL DEF Spec

\* At most one run passes the claim-owner guard of a row, and it is the run of
\* the row's latest claim.
THEOREM GuardIsExclusive == Spec => []GuardAdmitsLatestClaim
<1>1. ClaimInv => GuardAdmitsLatestClaim
  BY WorkerIdInjective DEF ClaimInv, ClaimCopy, GuardAdmitsLatestClaim, Active, Owned
<1> QED BY <1>1, ClaimInvInit, ClaimInvNext, PTL DEF Spec

-----------------------------------------------------------------------------
(* The cancels map of a provider.                                          *)

CancelInv == TypeInv /\ CancelHitsItsJob

Tracked(s, p, j) ==
  PodOf[s] = p /\ run[s].job = j /\ run[s].pc \in {"running", "writing", "leaving"}

\* No step leaves an entry that points at a finished run or at a run of another
\* job, although clean-up deletes by job id whoever registered the entry.
LEMMA CancelNext == CancelInv /\ [Next]_vars => CancelHitsItsJob'
<1> SUFFICES ASSUME CancelInv, [Next]_vars, NEW p \in Pods, NEW j \in Jobs,
                    NEW d, d = cancels'[p][j], d # NoSlot
             PROVE  Tracked(d, p, j)'
  BY DEF CancelHitsItsJob, Tracked
<1> DEFINE c == cancels[p][j]
<1>0. /\ cancels \in [Pods -> [Jobs -> Slots \cup {NoSlot}]] /\ run \in [Slots -> Run]
      /\ RunShape /\ PodOf \in [Slots -> Pods]
      /\ c # NoSlot => c \in Slots /\ Tracked(c, p, j)
  BY ConstantsAssumption DEF CancelInv, TypeInv, TypeOK, CancelHitsItsJob, Tracked
<1>2. ASSUME UNCHANGED <<run, cancels>> PROVE Tracked(d, p, j)'
  BY <1>0, <1>2 DEF Tracked
<1>3. ASSUME NEW s \in Slots, NEW i \in Jobs, ClaimNext(s, i)
      PROVE  Tracked(d, p, j)'
  <2>1. c # s
    BY <1>0, <1>3 DEF ClaimNext, CanClaim, Tracked
  <2> QED BY <1>0, <1>3, <2>1 DEF ClaimNext, Tracked
<1>4. ASSUME NEW s \in Slots, Throttled(s)
      PROVE  Tracked(d, p, j)'
  <2>1. c # s
    BY <1>0, <1>4 DEF Throttled, Tracked
  <2> QED BY <1>0, <1>4, <2>1 DEF Throttled, Tracked
<1>5. ASSUME NEW s \in Slots, StartRun(s)
      PROVE  Tracked(d, p, j)'
  <2>0. /\ run'[s].pc = "running" /\ run'[s].job = run[s].job
        /\ \A t \in Slots : t # s => run'[t] = run[t]
    BY <1>0, <1>5 DEF StartRun, Run
  <2>1. CASE p = PodOf[s] /\ j = run[s].job
    <3>1. cancels'[p][j] = s
      BY <1>0, <1>5, <2>1 DEF StartRun
    <3> QED BY <2>0, <2>1, <3>1 DEF Tracked
  <2>2. CASE ~ (p = PodOf[s] /\ j = run[s].job)
    <3>1. cancels'[p][j] = c
      BY <1>0, <1>5, <2>2 DEF StartRun
    <3>2. c # s
      BY <1>0, <1>5, <3>1 DEF StartRun, Tracked
    <3> QED BY <1>0, <2>0, <3>1, <3>2 DEF Tracked
  <2> QED BY <2>1, <2>2
<1>6. ASSUME NEW s \in Slots, NoHandler(s) \/ Leave(s)
      PROVE  Tracked(d, p, j)'
  <2>1. /\ cancels' = [cancels EXCEPT ![PodOf[s]][run[s].job] = NoSlot]
        /\ \A t \in Slots : t # s => run'[t] = run[t]
        /\ run[s].pc \in {"claimed", "leaving"} /\ run[s].job \in Jobs
    BY <1>0, <1>6 DEF NoHandler, Leave, RunShape
  <2>2. cancels'[p][j] = c /\ c # s
    BY <1>0, <2>1 DEF Tracked
  <2> QED BY <1>0, <2>1, <2>2 DEF Tracked
<1>7. ASSUME NEW s \in Slots, HandlerReturns(s) \/ RecordOutcome(s) \/ RecordOutcomeError(s)
      PROVE  Tracked(d, p, j)'
  <2>1. /\ cancels' = cancels /\ run'[s].job = run[s].job
        /\ run'[s].pc \in {"writing", "leaving"}
        /\ \A t \in Slots : t # s => run'[t] = run[t]
    BY <1>0, <1>7 DEF HandlerReturns, RecordOutcome, RecordOutcomeError, Run
  <2> QED BY <1>0, <2>1 DEF Tracked
<1>8. ASSUME NEW q \in Pods, NEW i \in Jobs, SignalRun(q, i)
      PROVE  Tracked(d, p, j)'
  <2>1. cancels' = cancels /\ \A t \in Slots : run'[t].job = run[t].job /\ run'[t].pc = run[t].pc
    BY <1>0, <1>8 DEF SignalRun, Run
  <2> QED BY <1>0, <2>1 DEF Tracked
<1>9. ASSUME NEW q \in Pods, Exit(q) \/ Crash(q)
      PROVE  Tracked(d, p, j)'
  <2>1. /\ cancels' = [cancels EXCEPT ![q] = [i \in Jobs |-> NoSlot]]
        /\ \A t \in Slots : PodOf[t] # q => run'[t] = run[t]
    BY <1>9 DEF Exit, Crash, Vanish
  <2>2. p # q /\ cancels'[p][j] = c
    BY <1>0, <2>1
  <2> QED BY <1>0, <2>1, <2>2 DEF Tracked
<1>10. ASSUME \/ \E s \in Slots : BeatHeart(s) \/ \E i \in Jobs : ClaimReplyLost(s, i)
              \/ \E i \in Jobs : Enqueue(i) \/ LeaseExpires(i) \/ RunAtPasses(i)
                                 \/ \E q \in Pods : CancelJob(q, i)
              \/ \E q \in Pods : Shutdown(q) \/ Restart(q)
              \/ ReapStaleRunning
       PROVE  Tracked(d, p, j)'
  <2>1. UNCHANGED <<run, cancels>>
    BY <1>10 DEF BeatHeart, ClaimReplyLost, Enqueue, LeaseExpires, RunAtPasses,
                 CancelJob, Shutdown, Restart, ReapStaleRunning
  <2> QED BY <1>2, <2>1
<1>11. CASE UNCHANGED vars
  BY <1>2, <1>11 DEF vars
<1> QED
  BY <1>3, <1>4, <1>5, <1>6, <1>7, <1>8, <1>9, <1>10, <1>11
  DEF Next, SlotStep, JobStep, PodStep

\* provider.Cancel(id) never interrupts a run of another job or a run that has
\* ended.
THEOREM CancelIsPrecise == Spec => []CancelHitsItsJob
<1>1. Init => CancelInv
  <2>1. Init => TypeInv
    BY ClaimInvInit DEF ClaimInv
  <2>2. ASSUME Init, NEW p \in Pods, NEW j \in Jobs
        PROVE  cancels[p][j] = NoSlot
    <3>1. cancels = [q \in Pods |-> [i \in Jobs |-> NoSlot]]
      BY <2>2 DEF Init
    <3> QED BY <3>1
  <2> QED BY <2>1, <2>2 DEF CancelInv, CancelHitsItsJob
<1>2. CancelInv /\ [Next]_vars => CancelInv'
  BY CancelNext, NextType DEF CancelInv
<1>3. CancelInv => CancelHitsItsJob
  BY DEF CancelInv
<1> QED BY <1>1, <1>2, <1>3, PTL DEF Spec

-----------------------------------------------------------------------------
(* A claim is ended by its own run, a cancel, or the reaper after expiry.  *)

\* A guarded statement by worker v does nothing to a row claimed by w.
LEMMA GuardProtects ==
  ASSUME NEW r \in Job, NEW v, NEW w, Owned(r, w), v # w
  PROVE  /\ Requeue(r, v) = r
         /\ Complete(r, v) = r
         /\ FailRetry(r, v) = r
         /\ FailTerminal(r, v) = r
         /\ Heartbeat(r, v) = r
  BY DEF Owned, Requeue, Complete, FailRetry, FailTerminal, Heartbeat

\* One step ends a claim only in one of the three ways.
LEMMA StepRespectsClaims ==
  ASSUME TypeInv, [Next]_vars, NEW j \in Jobs, NEW s \in Slots,
         Owned(row[j], WorkerId(s)), ~ Owned(row'[j], WorkerId(s))
  PROVE  row[j].stale \/ row'[j].status = "cancelled" \/ OwnWrite(s, j)
<1>0. row \in [Jobs -> Job] /\ run \in [Slots -> Run] /\ row[j] \in Job /\ RunShape
  BY DEF TypeInv, TypeOK
<1>1. row'[j] # row[j] /\ row[j].status = "running"
  BY DEF Owned
<1>2. ASSUME NEW t \in Slots, Throttled(t) \/ NoHandler(t)
      PROVE  OwnWrite(s, j)
  <2>1. run[t].job = j /\ run[t].pc = "claimed" /\ run'[t].pc = "idle"
    BY <1>0, <1>1, <1>2 DEF Throttled, NoHandler, Idle
  <2>2. t = s
    <3>1. \/ row'[j] = Requeue(row[j], WorkerId(t))
          \/ row'[j] = FailTerminal(row[j], WorkerId(t))
      BY <1>0, <1>1, <1>2, <2>1 DEF Throttled, NoHandler
    <3>2. WorkerId(t) = WorkerId(s)
      BY <1>0, <1>1, <3>1, GuardProtects
    <3> QED BY <3>2, WorkerIdInjective
  <2> QED BY <2>1, <2>2 DEF OwnWrite
<1>3. ASSUME NEW t \in Slots, RecordOutcome(t) \/ RecordOutcomeError(t)
      PROVE  OwnWrite(s, j)
  <2>1. /\ run[t].job = j /\ run[t].pc = "writing" /\ run'[t].pc = "leaving"
        /\ row'[j] = Recorded(t)
    BY <1>0, <1>1, <1>3 DEF RecordOutcome, RecordOutcomeError, Run
  <2>2. Outcome(t) \in {"done", "retry", "failed"}
    BY DEF Outcome
  <2>3. WorkerId(t) = WorkerId(s)
    BY <1>0, <1>1, <2>1, <2>2, GuardProtects DEF Recorded
  <2> QED BY <2>1, <2>3, WorkerIdInjective DEF OwnWrite
<1>4. ASSUME NEW t \in Slots, BeatHeart(t)
      PROVE  FALSE
  <2>1. run[t].job = j /\ row'[j] = Heartbeat(row[j], WorkerId(t))
    BY <1>0, <1>1, <1>4 DEF BeatHeart
  <2> QED BY <1>0, <2>1 DEF Heartbeat, Owned, Job
<1>5. ASSUME NEW t \in Slots, NEW i \in Jobs, ClaimNext(t, i) \/ ClaimReplyLost(t, i)
      PROVE  FALSE
  <2>1. i # j
    BY <1>1, <1>5 DEF ClaimNext, ClaimReplyLost, CanClaim, Claimable
  <2> QED BY <1>0, <1>1, <1>5, <2>1 DEF ClaimNext, ClaimReplyLost
<1>6. ASSUME NEW t \in Slots, StartRun(t) \/ HandlerReturns(t) \/ Leave(t)
      PROVE  FALSE
  BY <1>1, <1>6 DEF StartRun, HandlerReturns, Leave
<1>7. ASSUME NEW i \in Jobs, Enqueue(i) \/ RunAtPasses(i) \/ LeaseExpires(i)
      PROVE  FALSE
  <2>1. i = j
    BY <1>0, <1>1, <1>7 DEF Enqueue, RunAtPasses, LeaseExpires
  <2>2. LeaseExpires(j)
    BY <1>1, <1>7, <2>1 DEF Enqueue, RunAtPasses
  <2>3. row'[j] = [row[j] EXCEPT !.stale = TRUE]
    BY <1>0, <2>2 DEF LeaseExpires
  <2> QED BY <1>0, <2>3 DEF Owned, Job
<1>8. ASSUME NEW p \in Pods, NEW i \in Jobs, CancelJob(p, i) \/ SignalRun(p, i)
      PROVE  row'[j].status = "cancelled"
  <2>1. CancelJob(p, i) /\ i = j
    BY <1>0, <1>1, <1>8 DEF CancelJob, SignalRun
  <2>2. row'[j] = MarkCancelled(row[j]) /\ Cancellable(row[j])
    BY <1>0, <2>1 DEF CancelJob
  <2> QED BY <1>0, <2>2 DEF MarkCancelled, Job
<1>9. ASSUME ReapStaleRunning
      PROVE  row[j].stale
  BY <1>1, <1>9 DEF ReapStaleRunning, Reaped, Reapable
<1>10. ASSUME NEW p \in Pods, PodStep(p)
       PROVE  FALSE
  BY <1>1, <1>10 DEF PodStep, Shutdown, Restart, Exit, Crash, Vanish
<1>11. CASE UNCHANGED vars
  BY <1>1, <1>11 DEF vars
<1> QED
  BY <1>2, <1>3, <1>4, <1>5, <1>6, <1>7, <1>8, <1>9, <1>10, <1>11
  DEF Next, SlotStep, JobStep

\* The claim-owner guard protects a live claim from every other run.
THEOREM LiveClaimsStand == Spec => ClaimsAreRespected
<1>1. Init => TypeInv
  BY ClaimInvInit DEF ClaimInv
<1>2. TypeInv /\ [Next]_vars
        => [\A j \in Jobs, s \in Slots :
              Owned(row[j], WorkerId(s)) /\ ~ Owned(row'[j], WorkerId(s)) =>
                row[j].stale \/ row'[j].status = "cancelled" \/ OwnWrite(s, j)]_vars
  BY StepRespectsClaims
<1> QED BY <1>1, <1>2, NextType, PTL DEF Spec, ClaimsAreRespected

-----------------------------------------------------------------------------
(* Counting the slots between a claim and its start.                       *)

\* Unstarted(j) is finite and loses or gains one slot at a time.
LEMMA UnstartedFinite ==
  ASSUME NEW j \in Jobs
  PROVE  /\ IsFiniteSet(Unstarted(j))
         /\ Cardinality(Unstarted(j)) \in Nat
<1>1. Unstarted(j) \subseteq Slots
  BY DEF Unstarted
<1>2. IsFiniteSet(Unstarted(j))
  BY <1>1, ConstantsAssumption, FS_Subset
<1> QED BY <1>2, FS_CardinalityType

\* If no slot newly holds an unstarted claim, the count does not grow.
LEMMA UnstartedShrinks ==
  ASSUME NEW j \in Jobs, Unstarted(j)' \subseteq Unstarted(j)
  PROVE  /\ Cardinality(Unstarted(j)') \in Nat
         /\ Cardinality(Unstarted(j)') <= Cardinality(Unstarted(j))
<1>1. IsFiniteSet(Unstarted(j))
  BY UnstartedFinite
<1>2. IsFiniteSet(Unstarted(j)')
  BY <1>1, FS_Subset
<1>3. Cardinality(Unstarted(j)') <= Cardinality(Unstarted(j))
  BY <1>1, FS_Subset
<1> QED BY <1>2, <1>3, FS_CardinalityType

\* A slot that starts, or gives its claim back, leaves the count by one.
LEMMA UnstartedLoses ==
  ASSUME NEW j \in Jobs, NEW s \in Unstarted(j),
         Unstarted(j)' = Unstarted(j) \ {s}
  PROVE  Cardinality(Unstarted(j)') = Cardinality(Unstarted(j)) - 1
  BY UnstartedFinite, FS_RemoveElement

\* A claim adds one.
LEMMA UnstartedGains ==
  ASSUME NEW j \in Jobs, NEW s, s \notin Unstarted(j),
         Unstarted(j)' = Unstarted(j) \cup {s}
  PROVE  Cardinality(Unstarted(j)') = Cardinality(Unstarted(j)) + 1
  BY UnstartedFinite, FS_AddElement

-----------------------------------------------------------------------------
(* The charging invariant.  An id that is not in the table yet has no      *)
(* attempts (so the INSERT, which sets them to zero, refunds nothing), and *)
(* a run past StartRun has been counted.                                   *)

AbsentFresh == \A j \in Jobs : row[j].status = "absent" => row[j].attempts = 0

Started ==
  \A s \in Slots : run[s].pc \in {"running", "writing", "leaving"} => starts[run[s].job] >= 1

ChargeInv == ClaimInv /\ StartsCharged /\ AbsentFresh /\ Started

\* A row as it is after a statement that neither claims nor refunds.
SameCharge(r, q) ==
  q.attempts = r.attempts /\ (q.status = "absent" <=> r.status = "absent")

\* Every statement but ClaimNext, Requeue and Enqueue.
LEMMA StoreSameCharge ==
  ASSUME NEW r \in Job, NEW w \in WorkerIds
  PROVE  /\ SameCharge(r, Complete(r, w))
         /\ SameCharge(r, FailRetry(r, w))
         /\ SameCharge(r, FailTerminal(r, w))
         /\ SameCharge(r, MarkCancelled(r))
         /\ SameCharge(r, Heartbeat(r, w))
         /\ SameCharge(r, Reaped(r))
<1> USE DEF SameCharge, Job, Owned
<1>1. SameCharge(r, Complete(r, w)) BY DEF Complete
<1>2. SameCharge(r, FailRetry(r, w)) BY DEF FailRetry
<1>3. SameCharge(r, FailTerminal(r, w)) BY DEF FailTerminal
<1>4. SameCharge(r, MarkCancelled(r)) BY DEF MarkCancelled, Cancellable
<1>5. SameCharge(r, Heartbeat(r, w)) BY DEF Heartbeat
<1>6. SameCharge(r, Reaped(r)) BY DEF Reaped, Reapable
<1> QED BY <1>1, <1>2, <1>3, <1>4, <1>5, <1>6

\* Steps that charge nothing, refund nothing and start nothing.
Quiet ==
  /\ UNCHANGED starts
  /\ \A j \in Jobs : SameCharge(row[j], row'[j])
  /\ \A t \in Slots : run'[t].pc # "idle" =>
       /\ run'[t].job = run[t].job
       /\ \/ run'[t].pc = run[t].pc
          \/ /\ run[t].pc \in {"running", "writing"}
             /\ run'[t].pc \in {"writing", "leaving"}

\* Quiet steps keep the charging invariant.
LEMMA QuietKeepsCharge ==
  ASSUME ChargeInv, ClaimInv', Quiet
  PROVE  StartsCharged' /\ AbsentFresh' /\ Started'
<1>1. ASSUME NEW j \in Jobs PROVE Unstarted(j)' \subseteq Unstarted(j)
  BY DEF Quiet, Unstarted
<1>2. StartsCharged'
  <2> SUFFICES ASSUME NEW j \in Jobs
               PROVE  starts'[j] + Cardinality(Unstarted(j)') <= row'[j].attempts
    BY DEF StartsCharged
  <2>1. starts[j] + Cardinality(Unstarted(j)) <= row[j].attempts
    BY DEF ChargeInv, StartsCharged
  <2>2. starts[j] \in Nat /\ row[j].attempts \in Nat /\ Cardinality(Unstarted(j)) \in Nat
    BY UnstartedFinite DEF ChargeInv, ClaimInv, TypeInv, TypeOK, Job
  <2>3. starts'[j] = starts[j] /\ row'[j].attempts = row[j].attempts
    BY DEF Quiet, SameCharge
  <2> QED BY <1>1, <2>1, <2>2, <2>3, UnstartedShrinks
<1>3. AbsentFresh'
  BY DEF Quiet, SameCharge, ChargeInv, AbsentFresh
<1>4. Started'
  BY DEF Quiet, ChargeInv, Started
<1> QED BY <1>2, <1>3, <1>4

\* Claims, starts, the throttle's refund and the INSERT: the steps that are not
\* quiet.
Loud ==
  \/ \E s \in Slots, j \in Jobs : ClaimNext(s, j) \/ ClaimReplyLost(s, j)
  \/ \E s \in Slots : Throttled(s) \/ StartRun(s)
  \/ \E j \in Jobs : Enqueue(j)

\* Everything else is quiet.
LEMMA OtherStepsAreQuiet ==
  ASSUME ClaimInv, [Next]_vars, ~ Loud
  PROVE  Quiet
<1>0. /\ row \in [Jobs -> Job] /\ run \in [Slots -> Run] /\ RunShape
      /\ \A i \in Jobs : SameCharge(row[i], row[i])
  BY DEF ClaimInv, TypeInv, TypeOK, SameCharge
<1>1. ASSUME NEW j \in Jobs, NEW q \in Job, SameCharge(row[j], q),
             row' = [row EXCEPT ![j] = q] \/ row' = row
      PROVE  \A i \in Jobs : SameCharge(row[i], row'[i])
  BY <1>0, <1>1
<1>2. ASSUME NEW s \in Slots,
             NoHandler(s) \/ BeatHeart(s) \/ RecordOutcome(s) \/ RecordOutcomeError(s)
      PROVE  Quiet
  <2>1. run[s].job \in Jobs /\ row[run[s].job] \in Job /\ WorkerId(s) \in WorkerIds
    BY <1>0, <1>2, WorkerIdType DEF NoHandler, BeatHeart, RecordOutcome, RecordOutcomeError, RunShape
  <2>2. Outcome(s) \in {"done", "retry", "failed"}
    BY DEF Outcome
  <2>3. Recorded(s) \in Job /\ SameCharge(row[run[s].job], Recorded(s))
    BY <2>1, <2>2, StoreTypes, StoreSameCharge DEF Recorded
  <2>4. \A i \in Jobs : SameCharge(row[i], row'[i])
    <3>1. CASE NoHandler(s)
      BY <1>1, <2>1, <3>1, StoreTypes, StoreSameCharge DEF NoHandler
    <3>2. CASE BeatHeart(s)
      BY <1>1, <2>1, <3>2, StoreTypes, StoreSameCharge DEF BeatHeart
    <3>3. CASE RecordOutcome(s) \/ RecordOutcomeError(s)
      BY <1>1, <2>1, <2>3, <3>3 DEF RecordOutcome, RecordOutcomeError
    <3> QED BY <1>2, <3>1, <3>2, <3>3
  <2>5. CASE NoHandler(s)
    BY <1>0, <2>4, <2>5 DEF NoHandler, Quiet, Idle
  <2>6. CASE BeatHeart(s)
    BY <2>4, <2>6 DEF BeatHeart, Quiet
  <2>7. CASE RecordOutcome(s) \/ RecordOutcomeError(s)
    BY <1>0, <2>4, <2>7 DEF RecordOutcome, RecordOutcomeError, Quiet, Run
  <2> QED BY <1>2, <2>5, <2>6, <2>7
<1>3. ASSUME NEW s \in Slots, HandlerReturns(s) \/ Leave(s)
      PROVE  Quiet
  <2>1. CASE HandlerReturns(s)
    BY <1>0, <2>1 DEF HandlerReturns, Quiet, Run
  <2>2. CASE Leave(s)
    BY <1>0, <2>2 DEF Leave, Quiet, Idle
  <2> QED BY <1>3, <2>1, <2>2
<1>4. ASSUME NEW j \in Jobs, LeaseExpires(j) \/ RunAtPasses(j)
      PROVE  Quiet
  <2>1. PICK q \in {[row[j] EXCEPT !.stale = TRUE], [row[j] EXCEPT !.due = TRUE]} :
          row' = [row EXCEPT ![j] = q]
    BY <1>4 DEF LeaseExpires, RunAtPasses
  <2>2. row[j] \in Job
    BY <1>0
  <2>3. q \in Job /\ SameCharge(row[j], q)
    BY <2>2 DEF Job, SameCharge
  <2> QED BY <1>1, <1>4, <2>1, <2>3 DEF LeaseExpires, RunAtPasses, Quiet
<1>5. ASSUME NEW p \in Pods, NEW j \in Jobs, CancelJob(p, j)
      PROVE  Quiet
  <2>1. row[j] \in Job
    BY <1>0
  <2>2. MarkCancelled(row[j]) \in Job /\ SameCharge(row[j], MarkCancelled(row[j]))
    BY <2>1 DEF MarkCancelled, Cancellable, SameCharge, Job, Status
  <2> QED BY <1>1, <1>5, <2>2 DEF CancelJob, Quiet
<1>6. ASSUME NEW p \in Pods, NEW j \in Jobs, SignalRun(p, j)
      PROVE  Quiet
  BY <1>0, <1>6 DEF SignalRun, Quiet, Run
<1>7. ASSUME ReapStaleRunning
      PROVE  Quiet
  <2>1. \A j \in Jobs : SameCharge(row[j], Reaped(row[j]))
    <3> TAKE j \in Jobs
    <3>1. row[j] \in Job
      BY <1>0
    <3> QED BY <3>1 DEF Reaped, Reapable, SameCharge, Job
  <2> QED BY <1>7, <2>1 DEF ReapStaleRunning, Quiet
<1>8. ASSUME NEW p \in Pods, PodStep(p)
      PROVE  Quiet
  <2>1. CASE Shutdown(p) \/ Restart(p)
    BY <1>0, <2>1 DEF Shutdown, Restart, Quiet
  <2>2. CASE Exit(p) \/ Crash(p)
    BY <1>0, <2>2 DEF Exit, Crash, Vanish, Quiet, Idle
  <2> QED BY <1>8, <2>1, <2>2 DEF PodStep
<1>9. CASE UNCHANGED vars
  BY <1>0, <1>9 DEF vars, Quiet
<1> QED
  BY <1>2, <1>3, <1>4, <1>5, <1>6, <1>7, <1>8, <1>9
  DEF Loud, Next, SlotStep, JobStep

\* A loud step moves one slot's claim of one job; the other jobs' accounts are
\* not touched.
LEMMA LoudKeepsCharge ==
  ASSUME ChargeInv, ClaimInv', Loud
  PROVE  StartsCharged' /\ AbsentFresh' /\ Started'
<1>0. /\ row \in [Jobs -> Job] /\ run \in [Slots -> Run] /\ RunShape
      /\ starts \in [Jobs -> Nat]
      /\ \A i \in Jobs : row[i] \in Job /\ row[i].attempts \in Nat
                         /\ Cardinality(Unstarted(i)) \in Nat
                         /\ starts[i] + Cardinality(Unstarted(i)) <= row[i].attempts
  BY UnstartedFinite DEF ChargeInv, ClaimInv, TypeInv, TypeOK, Job, StartsCharged
<1>1. ASSUME NEW s \in Slots, NEW j \in Jobs, ClaimNext(s, j)
      PROVE  StartsCharged' /\ AbsentFresh' /\ Started'
  <2>1. /\ row'[j].attempts = row[j].attempts + 1 /\ row'[j].status = "running"
        /\ \A i \in Jobs : i # j => row'[i] = row[i]
    BY <1>0, <1>1 DEF ClaimNext, Claimed, Job
  <2>2. /\ run[s].pc = "idle" /\ run'[s].pc = "claimed" /\ run'[s].job = j
        /\ \A t \in Slots : t # s => run'[t] = run[t]
        /\ starts' = starts
    BY <1>0, <1>1 DEF ClaimNext, CanClaim, Idle
  <2>3. Unstarted(j)' = Unstarted(j) \cup {s} /\ s \notin Unstarted(j)
    BY <2>2 DEF Unstarted
  <2>4. ASSUME NEW i \in Jobs, i # j PROVE Unstarted(i)' = Unstarted(i)
    BY <2>2, <2>4 DEF Unstarted
  <2>5. Cardinality(Unstarted(j)') = Cardinality(Unstarted(j)) + 1
    BY <2>3, UnstartedGains
  <2>6. StartsCharged'
    BY <1>0, <2>1, <2>2, <2>4, <2>5 DEF StartsCharged
  <2>7. AbsentFresh'
    BY <2>1 DEF ChargeInv, AbsentFresh
  <2>8. Started'
    BY <2>2 DEF ChargeInv, Started
  <2> QED BY <2>6, <2>7, <2>8
<1>2. ASSUME NEW s \in Slots, NEW j \in Jobs, ClaimReplyLost(s, j)
      PROVE  StartsCharged' /\ AbsentFresh' /\ Started'
  <2>1. /\ row'[j].attempts = row[j].attempts + 1 /\ row'[j].status = "running"
        /\ \A i \in Jobs : i # j => row'[i] = row[i]
    BY <1>0, <1>2 DEF ClaimReplyLost, Claimed, Job
  <2>2. run' = run /\ starts' = starts
    BY <1>2 DEF ClaimReplyLost
  <2>3. ASSUME NEW i \in Jobs PROVE Unstarted(i)' = Unstarted(i)
    BY <2>2 DEF Unstarted
  <2>4. StartsCharged'
    BY <1>0, <2>1, <2>2, <2>3 DEF StartsCharged
  <2>5. AbsentFresh' /\ Started'
    BY <2>1, <2>2 DEF ChargeInv, AbsentFresh, Started
  <2> QED BY <2>4, <2>5
<1>3. ASSUME NEW s \in Slots, Throttled(s)
      PROVE  StartsCharged' /\ AbsentFresh' /\ Started'
  <2>0. PICK j \in Jobs : j = run[s].job
    BY <1>0, <1>3 DEF Throttled, RunShape
  <2>1. /\ run[s].pc = "claimed" /\ j \in Jobs /\ s \in Unstarted(j)
        /\ run'[s].pc = "idle" /\ \A t \in Slots : t # s => run'[t] = run[t]
        /\ starts' = starts
    BY <1>0, <1>3, <2>0 DEF Throttled, RunShape, Unstarted, Idle
  <2>2. /\ \A i \in Jobs : i # j => row'[i] = row[i]
        /\ row'[j].attempts \in {row[j].attempts, row[j].attempts - 1}
        /\ row'[j].status = row[j].status \/ row'[j].status = "queued"
    <3>1. Cardinality(Unstarted(j)) >= 1
      <4>1. IsFiniteSet(Unstarted(j)) /\ Unstarted(j) # {}
        BY <2>1, UnstartedFinite
      <4> QED BY <1>0, <2>1, <4>1, FS_EmptySet
    <3>2. row[j].attempts >= 1
      BY <1>0, <2>1, <3>1
    <3>3. /\ Requeue(row[j], WorkerId(s)).attempts
                \in {row[j].attempts, row[j].attempts - 1}
          /\ Requeue(row[j], WorkerId(s)).status \in {row[j].status, "queued"}
      BY <1>0, <2>1, <3>2 DEF Requeue, Job
    <3> QED BY <1>0, <1>3, <2>0, <2>1, <3>3 DEF Throttled
  <2>3. Unstarted(j)' = Unstarted(j) \ {s}
    BY <2>0, <2>1 DEF Unstarted
  <2>4. ASSUME NEW i \in Jobs, i # j PROVE Unstarted(i)' = Unstarted(i)
    BY <2>0, <2>1, <2>4 DEF Unstarted
  <2>5. Cardinality(Unstarted(j)') = Cardinality(Unstarted(j)) - 1
    BY <2>1, <2>3, UnstartedLoses
  <2>6. StartsCharged'
    BY <1>0, <2>1, <2>2, <2>4, <2>5 DEF StartsCharged
  <2>7. AbsentFresh'
    <3>1. row[j].status # "absent"
      <4>1. Cardinality(Unstarted(j)) >= 1
        <5>1. IsFiniteSet(Unstarted(j)) /\ Unstarted(j) # {}
          BY <2>1, UnstartedFinite
        <5> QED BY <1>0, <2>1, <5>1, FS_EmptySet
      <4> QED BY <1>0, <2>1, <4>1 DEF ChargeInv, AbsentFresh
    <3> QED BY <2>1, <2>2, <3>1 DEF ChargeInv, AbsentFresh
  <2>8. Started'
    BY <2>1 DEF ChargeInv, Started
  <2> QED BY <2>6, <2>7, <2>8
<1>4. ASSUME NEW s \in Slots, StartRun(s)
      PROVE  StartsCharged' /\ AbsentFresh' /\ Started'
  <2>0. PICK j \in Jobs : j = run[s].job
    BY <1>0, <1>4 DEF StartRun, RunShape
  <2>1. /\ run[s].pc = "claimed" /\ j \in Jobs /\ s \in Unstarted(j)
        /\ run'[s].pc = "running" /\ run'[s].job = j
        /\ \A t \in Slots : t # s => run'[t] = run[t]
        /\ row' = row /\ starts' = [starts EXCEPT ![j] = @ + 1]
    BY <1>0, <1>4, <2>0 DEF StartRun, RunShape, Unstarted, Run
  <2>2. Unstarted(j)' = Unstarted(j) \ {s}
    BY <2>0, <2>1 DEF Unstarted
  <2>3. ASSUME NEW i \in Jobs, i # j PROVE Unstarted(i)' = Unstarted(i)
    BY <2>0, <2>1, <2>3 DEF Unstarted
  <2>4. Cardinality(Unstarted(j)') = Cardinality(Unstarted(j)) - 1
    BY <2>1, <2>2, UnstartedLoses
  <2>5. StartsCharged'
    BY <1>0, <2>1, <2>3, <2>4 DEF StartsCharged
  <2>6. AbsentFresh'
    BY <2>1 DEF ChargeInv, AbsentFresh
  <2>7. Started'
    <3> SUFFICES ASSUME NEW t \in Slots,
                        run'[t].pc \in {"running", "writing", "leaving"}
                 PROVE  starts'[run'[t].job] >= 1
      BY DEF Started
    <3>1. CASE t = s
      BY <1>0, <2>1, <3>1
    <3>2. CASE t # s
      <4>1. starts[run[t].job] >= 1 /\ run[t].job \in Jobs /\ run'[t] = run[t]
        BY <1>0, <2>1, <3>2 DEF ChargeInv, Started, RunShape
      <4> QED BY <1>0, <2>1, <4>1
    <3> QED BY <3>1, <3>2
  <2> QED BY <2>5, <2>6, <2>7
<1>5. ASSUME NEW j \in Jobs, Enqueue(j)
      PROVE  StartsCharged' /\ AbsentFresh' /\ Started'
  <2>1. /\ row'[j].attempts = 0 /\ row'[j].status = "queued"
        /\ \A i \in Jobs : i # j => row'[i] = row[i]
        /\ run' = run /\ starts' = starts /\ row[j].attempts = 0
    BY <1>0, <1>5 DEF Enqueue, Enqueued, ChargeInv, AbsentFresh
  <2>2. ASSUME NEW i \in Jobs PROVE Unstarted(i)' = Unstarted(i)
    BY <2>1 DEF Unstarted
  <2>3. StartsCharged'
    BY <1>0, <2>1, <2>2 DEF StartsCharged
  <2> QED BY <2>1, <2>3 DEF ChargeInv, AbsentFresh, Started
<1> QED BY <1>1, <1>2, <1>3, <1>4, <1>5 DEF Loud

\* The charging invariant holds at the start.
LEMMA ChargeInvInit == Init => ChargeInv
<1> SUFFICES ASSUME Init PROVE ChargeInv
  OBVIOUS
<1>1. Idle.pc = "idle"
  BY DEF Idle
<1>2. \A j \in Jobs : Unstarted(j) = {}
  BY <1>1 DEF Init, Unstarted
<1>3. StartsCharged
  <2> SUFFICES ASSUME NEW j \in Jobs
               PROVE  starts[j] + Cardinality(Unstarted(j)) <= row[j].attempts
    BY DEF StartsCharged
  <2>1. starts[j] = 0 /\ row[j].attempts = 0
    BY DEF Init, Absent
  <2>2. Cardinality(Unstarted(j)) = 0
    BY <1>2, FS_EmptySet
  <2> QED BY <2>1, <2>2
<1>4. AbsentFresh /\ Started
  BY <1>1 DEF AbsentFresh, Started, Init, Absent
<1> QED BY <1>3, <1>4, ClaimInvInit DEF ChargeInv

\* The charging invariant is kept by every step.
LEMMA ChargeInvNext == ChargeInv /\ [Next]_vars => ChargeInv'
<1> SUFFICES ASSUME ChargeInv, [Next]_vars PROVE ChargeInv'
  OBVIOUS
<1>1. ClaimInv'
  BY ClaimInvNext DEF ChargeInv
<1>2. CASE Loud
  BY <1>1, <1>2, LoudKeepsCharge DEF ChargeInv
<1>3. CASE ~ Loud
  BY <1>1, <1>3, OtherStepsAreQuiet, QuietKeepsCharge DEF ChargeInv
<1> QED BY <1>2, <1>3

\* Each start of a handler has its own attempt, in every reachable state: a
\* refund never takes back the attempt of a claim that started.
THEOREM EveryStartIsCharged == Spec => []StartsCharged
<1>1. ChargeInv => StartsCharged
  BY DEF ChargeInv
<1> QED BY <1>1, ChargeInvInit, ChargeInvNext, PTL DEF Spec

\* A handler is entered at most max_attempts times.
THEOREM StartsAreBounded == Spec => []StartsBounded
<1>1. ChargeInv => StartsBounded
  <2> SUFFICES ASSUME ChargeInv, NEW j \in Jobs
               PROVE  starts[j] <= row[j].maxAttempts
    BY DEF StartsBounded
  <2>1. starts[j] + Cardinality(Unstarted(j)) <= row[j].attempts
        /\ row[j].attempts <= row[j].maxAttempts
    BY DEF ChargeInv, StartsCharged, ClaimInv, BudgetKept, InBudget
  <2>2. /\ starts[j] \in Nat /\ row[j].attempts \in Nat /\ row[j].maxAttempts \in Nat
        /\ Cardinality(Unstarted(j)) \in Nat
    BY UnstartedFinite DEF ChargeInv, ClaimInv, TypeInv, TypeOK, Job
  <2> QED BY <2>1, <2>2
<1> QED BY <1>1, ChargeInvInit, ChargeInvNext, PTL DEF Spec

-----------------------------------------------------------------------------
(* The queue implements JobLifecycle: Enqueue is Submit, StartRun is Start, *)
(* and every other step closes some open jobs, often none.                  *)

Moves(r, q) ==
  /\ q.maxAttempts = r.maxAttempts
  /\ Phase(q) # Phase(r) =>
       Phase(r) = "open" /\ Phase(q) \in {"failed", "cancelled"}

\* What a statement may do to a row's phase; Complete is the only one that ends
\* in done.
LEMMA StoreMoves ==
  ASSUME NEW r \in Job, NEW w \in WorkerIds
  PROVE  /\ r.status = "queued" => Moves(r, Claimed(r, w))
         /\ Moves(r, Requeue(r, w))
         /\ Moves(r, FailRetry(r, w))
         /\ Moves(r, FailTerminal(r, w))
         /\ Moves(r, MarkCancelled(r))
         /\ Moves(r, Heartbeat(r, w))
         /\ Moves(r, Reaped(r))
         /\ Complete(r, w).maxAttempts = r.maxAttempts
         /\ Phase(Complete(r, w)) # Phase(r) =>
              Phase(r) = "open" /\ Phase(Complete(r, w)) = "done"
<1> USE DEF Moves, Phase, Owned, Job
<1>1. r.status = "queued" => Moves(r, Claimed(r, w)) BY DEF Claimed
<1>2. Moves(r, Requeue(r, w)) BY DEF Requeue
<1>3. Moves(r, FailRetry(r, w)) BY DEF FailRetry
<1>4. Moves(r, FailTerminal(r, w)) BY DEF FailTerminal
<1>5. Moves(r, MarkCancelled(r)) BY DEF MarkCancelled, Cancellable
<1>6. Moves(r, Heartbeat(r, w)) BY DEF Heartbeat
<1>7. Moves(r, Reaped(r)) BY DEF Reaped, Reapable
<1>8. Complete(r, w).maxAttempts = r.maxAttempts BY DEF Complete
<1>9. Phase(Complete(r, w)) # Phase(r) =>
        Phase(r) = "open" /\ Phase(Complete(r, w)) = "done" BY DEF Complete
<1> QED BY <1>1, <1>2, <1>3, <1>4, <1>5, <1>6, <1>7, <1>8, <1>9

\* The effect of a step other than Enqueue and StartRun on the abstract state.
Closes ==
  /\ UNCHANGED starts
  /\ \A j \in Jobs :
       /\ row'[j].maxAttempts = row[j].maxAttempts
       /\ Phase(row'[j]) # Phase(row[j]) =>
            /\ Phase(row[j]) = "open"
            /\ Phase(row'[j]) \in Terminal
            /\ Phase(row'[j]) = "done" => starts[j] > 0

\* Every step other than Enqueue and StartRun closes open jobs or does nothing.
LEMMA OtherStepsClose ==
  ASSUME ChargeInv, [Next]_vars,
         \A s \in Slots : ~ StartRun(s), \A j \in Jobs : ~ Enqueue(j)
  PROVE  Closes
<1>0. row \in [Jobs -> Job] /\ RunShape
  BY DEF ChargeInv, ClaimInv, TypeInv, TypeOK
<1>1. ASSUME NEW j \in Jobs, NEW q, Moves(row[j], q), UNCHANGED starts,
             row' = [row EXCEPT ![j] = q]
      PROVE  Closes
  BY <1>0, <1>1 DEF Closes, Moves, Terminal
<1>2. ASSUME UNCHANGED <<row, starts>> PROVE Closes
  BY <1>2 DEF Closes
<1>3. ASSUME NEW s \in Slots, NEW j \in Jobs, ClaimNext(s, j) \/ ClaimReplyLost(s, j)
      PROVE  Closes
  <2>1. Moves(row[j], Claimed(row[j], WorkerId(s)))
    BY <1>0, <1>3, StoreMoves, WorkerIdType
    DEF ClaimNext, ClaimReplyLost, CanClaim, Claimable
  <2> QED BY <1>1, <1>3, <2>1 DEF ClaimNext, ClaimReplyLost
<1>4. ASSUME NEW s \in Slots, Throttled(s) \/ NoHandler(s) \/ BeatHeart(s)
      PROVE  Closes
  <2>1. run[s].job \in Jobs
    BY <1>0, <1>4 DEF Throttled, NoHandler, BeatHeart, RunShape
  <2>2. /\ Moves(row[run[s].job], Requeue(row[run[s].job], WorkerId(s)))
        /\ Moves(row[run[s].job], FailTerminal(row[run[s].job], WorkerId(s)))
        /\ Moves(row[run[s].job], Heartbeat(row[run[s].job], WorkerId(s)))
    BY <1>0, <2>1, StoreMoves, WorkerIdType
  <2> QED BY <1>1, <1>2, <1>4, <2>1, <2>2 DEF Throttled, NoHandler, BeatHeart
<1>5. ASSUME NEW s \in Slots, RecordOutcome(s) \/ RecordOutcomeError(s)
      PROVE  Closes
  <2>1. /\ run[s].job \in Jobs /\ starts[run[s].job] >= 1 /\ UNCHANGED starts
        /\ starts[run[s].job] \in Nat
        /\ row' = row \/ row' = [row EXCEPT ![run[s].job] = Recorded(s)]
    BY <1>0, <1>5 DEF RecordOutcome, RecordOutcomeError, RunShape, ChargeInv, Started,
                      ClaimInv, TypeInv, TypeOK
  <2>2. Outcome(s) \in {"done", "retry", "failed"}
    BY DEF Outcome
  <2>3. CASE row' = row
    BY <1>2, <2>1, <2>3
  <2>4. CASE row' = [row EXCEPT ![run[s].job] = Recorded(s)] /\ Outcome(s) # "done"
    <3>1. Moves(row[run[s].job], Recorded(s))
      BY <1>0, <2>1, <2>2, <2>4, StoreMoves, WorkerIdType DEF Recorded
    <3> QED BY <1>1, <2>1, <2>4, <3>1
  <2>5. CASE row' = [row EXCEPT ![run[s].job] = Recorded(s)] /\ Outcome(s) = "done"
    <3>1. Recorded(s) = Complete(row[run[s].job], WorkerId(s))
      BY <2>5 DEF Recorded
    <3>2. /\ Recorded(s).maxAttempts = row[run[s].job].maxAttempts
          /\ Phase(Recorded(s)) # Phase(row[run[s].job]) =>
               Phase(row[run[s].job]) = "open" /\ Phase(Recorded(s)) = "done"
      BY <1>0, <2>1, <3>1, StoreMoves, WorkerIdType
    <3> QED BY <1>0, <2>1, <2>5, <3>2 DEF Closes, Terminal
  <2> QED BY <2>1, <2>3, <2>4, <2>5
<1>6. ASSUME NEW s \in Slots, HandlerReturns(s) \/ Leave(s)
      PROVE  Closes
  BY <1>2, <1>6 DEF HandlerReturns, Leave
<1>7. ASSUME NEW j \in Jobs, LeaseExpires(j) \/ RunAtPasses(j)
      PROVE  Closes
  <2>1. PICK q \in {[row[j] EXCEPT !.stale = TRUE], [row[j] EXCEPT !.due = TRUE]} :
          row' = [row EXCEPT ![j] = q]
    BY <1>7 DEF LeaseExpires, RunAtPasses
  <2>2. row[j] \in Job
    BY <1>0
  <2>3. Moves(row[j], q)
    BY <2>2 DEF Moves, Phase, Job
  <2> QED BY <1>1, <1>7, <2>1, <2>3 DEF LeaseExpires, RunAtPasses
<1>8. ASSUME NEW p \in Pods, NEW j \in Jobs, CancelJob(p, j) \/ SignalRun(p, j)
      PROVE  Closes
  <2>1. row[j] \in Job
    BY <1>0
  <2>2. Moves(row[j], MarkCancelled(row[j]))
    BY <2>1 DEF MarkCancelled, Cancellable, Moves, Phase, Job
  <2> QED BY <1>1, <1>2, <1>8, <2>2 DEF CancelJob, SignalRun
<1>9. ASSUME ReapStaleRunning
      PROVE  Closes
  <2>1. \A j \in Jobs : Moves(row[j], Reaped(row[j]))
    <3> TAKE j \in Jobs
    <3>1. row[j] \in Job
      BY <1>0
    <3> QED BY <3>1 DEF Reaped, Reapable, Moves, Phase, Job
  <2> QED BY <1>9, <2>1 DEF ReapStaleRunning, Closes, Moves, Terminal
<1>10. ASSUME NEW p \in Pods, PodStep(p)
       PROVE  Closes
  BY <1>2, <1>10 DEF PodStep, Shutdown, Restart, Exit, Crash, Vanish
<1>11. CASE UNCHANGED vars
  BY <1>2, <1>11 DEF vars
<1> QED
  BY <1>3, <1>4, <1>5, <1>6, <1>7, <1>8, <1>9, <1>10, <1>11 DEF Next, SlotStep, JobStep

\* One step of the queue is a step of JobLifecycle.
LEMMA StepRefines == ChargeInv /\ [Next]_vars => [Lifecycle!LifeNext]_(Lifecycle!lifeVars)
<1> SUFFICES ASSUME ChargeInv, [Next]_vars
             PROVE  [Lifecycle!LifeNext]_(Lifecycle!lifeVars)
  OBVIOUS
<1>0. row \in [Jobs -> Job] /\ starts \in [Jobs -> Nat] /\ RunShape /\ row' \in [Jobs -> Job]
  BY NextType DEF ChargeInv, ClaimInv, TypeInv, TypeOK
<1>1. ASSUME NEW s \in Slots, StartRun(s)
      PROVE  \E j \in Jobs : Lifecycle!Start(j)
  <2>0. PICK j \in Jobs : j = run[s].job
    BY <1>0, <1>1 DEF StartRun, RunShape
  <2>1. s \in Unstarted(j)
    BY <1>1, <2>0 DEF StartRun, Unstarted
  <2>2. Cardinality(Unstarted(j)) \in Nat /\ Cardinality(Unstarted(j)) >= 1
    <3>1. IsFiniteSet(Unstarted(j)) /\ Unstarted(j) # {}
      BY <2>1, UnstartedFinite
    <3> QED BY <3>1, UnstartedFinite, FS_EmptySet
  <2>3. /\ starts[j] + Cardinality(Unstarted(j)) <= row[j].attempts
        /\ row[j].attempts <= row[j].maxAttempts
        /\ row[j].status = "absent" => row[j].attempts = 0
    BY DEF ChargeInv, StartsCharged, ClaimInv, BudgetKept, InBudget, AbsentFresh
  <2>4. starts[j] \in Nat /\ row[j].attempts \in Nat /\ row[j].maxAttempts \in Nat
    BY <1>0 DEF Job
  <2>5. starts[j] < row[j].maxAttempts /\ row[j].status # "absent"
    BY <2>2, <2>3, <2>4
  <2>6. row' = row /\ starts' = [starts EXCEPT ![j] = @ + 1]
    BY <1>1, <2>0 DEF StartRun
  <2>7. Lifecycle!Start(j)
    BY <2>5, <2>6 DEF Lifecycle!Start, Phase
  <2> QED BY <2>7
<1>2. ASSUME NEW j \in Jobs, Enqueue(j)
      PROVE  Lifecycle!Submit(j)
  <2>1. PICK k \in Kinds, m \in AttemptInputs, due \in BOOLEAN :
          row' = [row EXCEPT ![j] = Enqueued(k, m, due)]
    BY <1>2 DEF Enqueue
  <2>2. m \in Int /\ row[j].status = "absent" /\ UNCHANGED starts
    BY <1>2, ConstantsAssumption DEF Enqueue
  <2>3. /\ row'[j].status = "queued" /\ row'[j].maxAttempts \in Nat \ {0}
        /\ \A i \in Jobs : i # j => row'[i] = row[i]
    BY <1>0, <2>1, <2>2 DEF Enqueued
  <2> QED BY <2>2, <2>3 DEF Lifecycle!Submit, Phase
<1>3. ASSUME Closes
      PROVE  Lifecycle!Close
  <2>1. \A j \in Jobs : Phase(row'[j]) \in Lifecycle!Closed \cup {"absent", "open"}
    BY <1>0 DEF Phase, Job, Status, Lifecycle!Closed
  <2> QED BY <1>3, <2>1 DEF Closes, Lifecycle!Close, Lifecycle!Closed, Terminal
<1> QED
  BY <1>1, <1>2, <1>3, OtherStepsClose DEF Lifecycle!LifeNext

\* The job queue implements the lifecycle it promises its producers.
THEOREM QueueImplementsLifecycle == Spec => ImplementsLifecycle
<1>1. Init => Lifecycle!LifeInit
  BY DEF Init, Absent, Phase, Lifecycle!LifeInit
<1> QED BY <1>1, ChargeInvInit, ChargeInvNext, StepRefines, PTL
        DEF Spec, ImplementsLifecycle, Lifecycle!LifeSpec
=============================================================================
