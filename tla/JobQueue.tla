------------------------------ MODULE JobQueue ------------------------------
(***************************************************************************)
(* The job queue at run time: several pods, each a LocalProvider with a    *)
(* fixed pool of worker slots, share the jobs table.  A slot claims a row, *)
(* runs its handler, writes the outcome back and returns to its claim loop *)
(* (internal/jobs/local.go, exec.go); every pod also runs the reaper       *)
(* (reaper.go) and serves the admin API (adminhttp.go).                    *)
(*                                                                         *)
(* What makes it hard: a claim is only a lease.  A slot that stalls past   *)
(* the lease loses its row to the reaper while it is still in its handler, *)
(* and another slot - of any pod, its own included - may claim the row     *)
(* again.  Pods are shut down and killed at any step, statements fail with *)
(* the caller not knowing whether they took effect, and an admin cancels   *)
(* rows at any time.                                                       *)
(***************************************************************************)
EXTENDS JobStore, FiniteSets

CONSTANTS Jobs,           \* ids of the jobs table
          NoJob,          \* what an idle slot works on
          Pods,           \* processes with a LocalProvider
          Slots,          \* worker slots of all pods
          NoSlot,         \* no slot (an absent entry of a cancels map)
          PodOf,          \* the pod of a slot
          Role,           \* a pod's BOOMTIME role
          EnvInclude, EnvExclude, \* operator overrides of the kind filter
          OffloadKinds,   \* the registry's offload set
          CappedKinds,    \* kinds with a concurrency limit
          Handlers,       \* the kinds a pod has a handler for
          AttemptInputs,  \* maxAttempts arguments of Enqueue
          MaxStops        \* bound: how many pods may stop, over all

ASSUME ConstantsAssumption ==
  /\ Kinds # {}
  /\ NoJob \notin Jobs
  /\ NoSlot \notin Slots
  /\ IsFiniteSet(Slots)
  /\ PodOf \in [Slots -> Pods]
  /\ Role \in [Pods -> {"server", "worker", "all"}]
  /\ EnvInclude \in [Pods -> SUBSET Kinds]
  /\ EnvExclude \in [Pods -> SUBSET Kinds]
  /\ OffloadKinds \subseteq Kinds
  /\ CappedKinds \subseteq Kinds
  /\ Handlers \in [Pods -> SUBSET Kinds]
  /\ AttemptInputs \subseteq Int
  /\ MaxStops \in Nat

\* locked_by names a slot, and only a pod with a single slot uses its bare id.
SingleSlot(p) == \A s, t \in Slots : PodOf[s] = p /\ PodOf[t] = p => s = t

\* Mutated form of WorkerId: one id per pod.
WorkerId_PerPod(s) == <<PodOf[s], NoSlot>>

WorkerId(s) == <<PodOf[s], IF SingleSlot(PodOf[s]) THEN NoSlot ELSE s>>

ASSUME WorkerIdsAssumption == \A s \in Slots : WorkerId(s) \in WorkerIds

\* The kind filter of a provider: an override wins entirely, otherwise a worker
\* claims the offload kinds only and a server everything else.
KindFilter(p) ==
  IF EnvInclude[p] # {} \/ EnvExclude[p] # {}
    THEN [include |-> EnvInclude[p], exclude |-> EnvExclude[p]]
    ELSE [include |-> IF Role[p] = "worker" THEN OffloadKinds ELSE {},
          exclude |-> IF Role[p] = "server" THEN OffloadKinds ELSE {}]

VARIABLES
  row,      \* the jobs table
  run,      \* what each slot is doing
  cancels,  \* per pod, the run a job id's CancelFunc belongs to
  power,    \* per pod: "up", "stopping" (its context is cancelled), "down"
  signals,  \* admin cancels between MarkCancelled and provider.Cancel
  sent,     \* terminal events handed to the Notifier so far
  starts,   \* history: how often a job's handler was started
  stops     \* how many pods have stopped so far

vars == <<row, run, cancels, power, signals, sent, starts, stops>>

\* A slot's progress through runJob and execute.  `attempts` is the copy taken
\* by the claim; MaxAttempts never changes, so the row's own value serves.
Run == [pc: {"idle", "claimed", "running", "writing", "leaving"},
        job: Jobs \cup {NoJob}, attempts: Nat,
        result: {"none", "ok", "error"}, cancelled: BOOLEAN]

Idle == [pc |-> "idle", job |-> NoJob, attempts |-> 0,
         result |-> "none", cancelled |-> FALSE]

Event == [job: Jobs, status: {"done", "failed"}]

\* Slots that have charged an attempt to j but not started its handler.
Unstarted(j) == {s \in Slots : run[s].pc = "claimed" /\ run[s].job = j}

\* A run's context ends with an admin cancel or with its pod's context.
CtxDone(s) == run[s].cancelled \/ power[PodOf[s]] = "stopping"

\* A row that no live run will heartbeat or finish.
Orphaned(j) ==
  /\ row[j].status = "running"
  /\ \A s \in Slots : ~ (run[s].job = j /\ Owned(row[j], WorkerId(s)))

TypeOK ==
  /\ row \in [Jobs -> Job]
  /\ run \in [Slots -> Run]
  /\ cancels \in [Pods -> [Jobs -> Slots \cup {NoSlot}]]
  /\ power \in [Pods -> {"up", "stopping", "down"}]
  /\ signals \subseteq (Pods \X Jobs)
  /\ sent \subseteq Event
  /\ starts \in [Jobs -> Nat]
  /\ stops \in Nat

Init ==
  /\ row = [j \in Jobs |-> Absent(CHOOSE k \in Kinds : TRUE)]
  /\ run = [s \in Slots |-> Idle]
  /\ cancels = [p \in Pods |-> [j \in Jobs |-> NoSlot]]
  /\ power = [p \in Pods |-> "up"]
  /\ signals = {}
  /\ sent = {}
  /\ starts = [j \in Jobs |-> 0]
  /\ stops = 0
-----------------------------------------------------------------------------
(* Producers: POST /trigger, POST /:id/retry, the scheduler and domain code *)
(* all end in one INSERT.                                                   *)

Enqueue(j) ==
  /\ row[j].status = "absent"
  /\ \E k \in Kinds, m \in AttemptInputs, due \in BOOLEAN :
       row' = [row EXCEPT ![j] = Enqueued(k, m, due)]
  /\ UNCHANGED <<run, cancels, power, signals, sent, starts, stops>>

-----------------------------------------------------------------------------
(* A worker slot: runLoop, runJob, execTracked and execute.                *)

\* runLoop: an idle slot of a live pod claims a due row its filter admits.
\* Which of several due rows is the oldest is left open, and so are the kinds
\* the limiter excludes on this pass.
CanClaim(s, j) ==
  /\ power[PodOf[s]] = "up"
  /\ run[s].pc = "idle"
  /\ Claimable(row[j], KindFilter(PodOf[s]).include, KindFilter(PodOf[s]).exclude)

ClaimNext(s, j) ==
  /\ CanClaim(s, j)
  /\ row' = [row EXCEPT ![j] = Claimed(@, WorkerId(s))]
  /\ run' = [run EXCEPT ![s] = [Idle EXCEPT !.pc = "claimed", !.job = j,
                                            !.attempts = row'[j].attempts]]
  /\ UNCHANGED <<cancels, power, signals, sent, starts, stops>>

\* The claim commits but its reply is lost: the slot polls on, the row waits
\* for the reaper.
ClaimReplyLost(s, j) ==
  /\ CanClaim(s, j)
  /\ row' = [row EXCEPT ![j] = Claimed(@, WorkerId(s))]
  /\ UNCHANGED <<run, cancels, power, signals, sent, starts, stops>>

\* runJob: the kind's limiter has no slot left.  A failed Requeue is ignored.
Throttled(s) ==
  LET j == run[s].job IN
  /\ run[s].pc = "claimed"
  /\ row[j].kind \in CappedKinds
  /\ \/ /\ power[PodOf[s]] = "up"
        /\ row' = [row EXCEPT ![j] = Requeue(@, WorkerId(s))]
     \/ UNCHANGED row
  /\ run' = [run EXCEPT ![s] = Idle]
  /\ UNCHANGED <<cancels, power, signals, sent, starts, stops>>

\* Mutated form of StartRun: a claimed slot of a stopping pod never goes on.
StartRun_IfLive(s) ==
  LET p == PodOf[s]  j == run[s].job IN
  /\ run[s].pc = "claimed"
  /\ ~ CtxDone(s)
  /\ row[j].kind \in Handlers[p]
  /\ run' = [run EXCEPT ![s].pc = "running"]
  /\ cancels' = [cancels EXCEPT ![p][j] = s]
  /\ starts' = [starts EXCEPT ![j] = @ + 1]
  /\ UNCHANGED <<row, power, signals, sent, stops>>

\* runJob with a free (or unreachable, or absent) limiter: execTracked registers
\* the run's CancelFunc and execute enters the handler - without looking at the
\* row again, and also when the pod is already shutting down.
StartRun(s) ==
  LET p == PodOf[s]  j == run[s].job IN
  /\ run[s].pc = "claimed"
  /\ row[j].kind \in Handlers[p]
  /\ run' = [run EXCEPT ![s].pc = "running"]
  /\ cancels' = [cancels EXCEPT ![p][j] = s]
  /\ starts' = [starts EXCEPT ![j] = @ + 1]
  /\ UNCHANGED <<row, power, signals, sent, stops>>

\* execute without a handler: the row is failed for good, the result of that
\* write is ignored, and the event is sent whatever it was.
NoHandler(s) ==
  LET p == PodOf[s]  j == run[s].job IN
  /\ run[s].pc = "claimed"
  /\ row[j].kind \notin Handlers[p]
  /\ \/ row' = [row EXCEPT ![j] = FailTerminal(@, WorkerId(s))]
     \/ UNCHANGED row
  /\ sent' = sent \cup {[job |-> j, status |-> "failed"]}
  /\ run' = [run EXCEPT ![s] = Idle]
  /\ cancels' = [cancels EXCEPT ![p][j] = NoSlot]
  /\ UNCHANGED <<power, signals, starts, stops>>

\* The ticker of startHeartbeat: it ends with the run's context.
BeatHeart(s) ==
  /\ run[s].pc = "running"
  /\ ~ CtxDone(s)
  /\ row' = [row EXCEPT ![run[s].job] = Heartbeat(@, WorkerId(s))]
  /\ UNCHANGED <<run, cancels, power, signals, sent, starts, stops>>

\* The handler returns (a panic is an error).  A run whose context is done
\* writes nothing.
HandlerReturns(s) ==
  /\ run[s].pc = "running"
  /\ \E result \in {"ok", "error"} :
       run' = [run EXCEPT ![s].result = result,
                          ![s].pc = IF CtxDone(s) THEN "leaving" ELSE "writing"]
  /\ UNCHANGED <<row, cancels, power, signals, sent, starts, stops>>

\* Which write the outcome calls for: the run decides on its own copy of
\* attempts.
Outcome(s) ==
  IF run[s].result = "ok" THEN "done"
  ELSE IF run[s].attempts < row[run[s].job].maxAttempts THEN "retry" ELSE "failed"

Recorded(s) ==
  LET r == row[run[s].job] IN
  CASE Outcome(s) = "done"   -> Complete(r, WorkerId(s))
    [] Outcome(s) = "retry"  -> FailRetry(r, WorkerId(s))
    [] Outcome(s) = "failed" -> FailTerminal(r, WorkerId(s))

\* Mutated form of Announced: a retry is announced as well.
Announced_Retries(s) == {[job |-> run[s].job, status |-> Outcome(s)]}

Announced(s) ==
  IF Outcome(s) = "retry" THEN {}
                          ELSE {[job |-> run[s].job, status |-> Outcome(s)]}

\* The write answers: a run that lost its claim is discarded without an event.
RecordOutcome(s) ==
  LET j == run[s].job IN
  /\ run[s].pc = "writing"
  /\ ~ CtxDone(s)
  /\ row' = [row EXCEPT ![j] = Recorded(s)]
  /\ sent' = IF Owned(row[j], WorkerId(s)) THEN sent \cup Announced(s) ELSE sent
  /\ run' = [run EXCEPT ![s].pc = "leaving"]
  /\ UNCHANGED <<cancels, power, signals, starts, stops>>

\* The write returns an error - the database is away, or the run's context was
\* cancelled after HandlerReturns looked at it.  It may have taken effect or
\* not; execute goes on as if it had.
RecordOutcomeError(s) ==
  LET j == run[s].job IN
  /\ run[s].pc = "writing"
  /\ row' \in {row, [row EXCEPT ![j] = Recorded(s)]}
  /\ sent' = sent \cup Announced(s)
  /\ run' = [run EXCEPT ![s].pc = "leaving"]
  /\ UNCHANGED <<cancels, power, signals, starts, stops>>

\* Mutated form of Leave: the entry of the cancels map is not deleted.
Leave_Tracked(s) ==
  /\ run[s].pc = "leaving"
  /\ run' = [run EXCEPT ![s] = Idle]
  /\ UNCHANGED <<row, cancels, power, signals, sent, starts, stops>>

\* execTracked's deferred clean-up: the entry goes by job id, whoever put it.
Leave(s) ==
  /\ run[s].pc = "leaving"
  /\ cancels' = [cancels EXCEPT ![PodOf[s]][run[s].job] = NoSlot]
  /\ run' = [run EXCEPT ![s] = Idle]
  /\ UNCHANGED <<row, power, signals, sent, starts, stops>>

-----------------------------------------------------------------------------
(* The admin API of pod p: POST /:id/cancel.  The durable write first, then *)
(* the in-process signal, which only reaches runs of the same pod.          *)

CancelJob(p, j) ==
  /\ power[p] = "up"
  /\ Cancellable(row[j])
  /\ row' = [row EXCEPT ![j] = MarkCancelled(@)]
  /\ signals' \in {signals, signals \cup {<<p, j>>}}
  /\ UNCHANGED <<run, cancels, power, sent, starts, stops>>

SignalRun(p, j) ==
  /\ <<p, j>> \in signals
  /\ signals' = signals \ {<<p, j>>}
  /\ run' = IF cancels[p][j] = NoSlot THEN run
            ELSE [run EXCEPT ![cancels[p][j]].cancelled = TRUE]
  /\ UNCHANGED <<row, cancels, power, sent, starts, stops>>

-----------------------------------------------------------------------------
(* The reaper, and the passing of time.                                    *)

ReapStaleRunning ==
  /\ \E p \in Pods : power[p] = "up"
  /\ \E j \in Jobs : Reapable(row[j])
  /\ row' = [j \in Jobs |-> Reaped(row[j])]
  /\ UNCHANGED <<run, cancels, power, signals, sent, starts, stops>>

\* No heartbeat reached the row for a whole lease.
LeaseExpires(j) ==
  /\ row[j].status = "running"
  /\ ~ row[j].stale
  /\ row' = [row EXCEPT ![j].stale = TRUE]
  /\ UNCHANGED <<run, cancels, power, signals, sent, starts, stops>>

RunAtPasses(j) ==
  /\ row[j].status = "queued"
  /\ ~ row[j].due
  /\ row' = [row EXCEPT ![j].due = TRUE]
  /\ UNCHANGED <<run, cancels, power, signals, sent, starts, stops>>

-----------------------------------------------------------------------------
(* Pods: a deploy cancels a pod's context and waits for its slots; a crash  *)
(* loses everything the process held.                                      *)

Shutdown(p) ==
  /\ power[p] = "up"
  /\ stops < MaxStops
  /\ power' = [power EXCEPT ![p] = "stopping"]
  /\ stops' = stops + 1
  /\ UNCHANGED <<row, run, cancels, signals, sent, starts>>

Vanish(p, q) ==
  /\ power' = [power EXCEPT ![p] = q]
  /\ run' = [s \in Slots |-> IF PodOf[s] = p THEN Idle ELSE run[s]]
  /\ cancels' = [cancels EXCEPT ![p] = [j \in Jobs |-> NoSlot]]
  /\ signals' = {x \in signals : x[1] # p}
  /\ UNCHANGED <<row, sent, starts>>

Exit(p) ==
  /\ power[p] = "stopping"
  /\ \A s \in Slots : PodOf[s] = p => run[s].pc = "idle"
  /\ Vanish(p, "down")
  /\ UNCHANGED stops

Crash(p) ==
  /\ power[p] # "down"
  /\ stops < MaxStops
  /\ Vanish(p, "down")
  /\ stops' = stops + 1

Restart(p) ==
  /\ power[p] = "down"
  /\ power' = [power EXCEPT ![p] = "up"]
  /\ UNCHANGED <<row, run, cancels, signals, sent, starts, stops>>

-----------------------------------------------------------------------------
SlotStep(s) ==
  \/ \E j \in Jobs : ClaimNext(s, j) \/ ClaimReplyLost(s, j)
  \/ Throttled(s) \/ StartRun(s) \/ NoHandler(s) \/ BeatHeart(s)
  \/ HandlerReturns(s) \/ RecordOutcome(s) \/ RecordOutcomeError(s) \/ Leave(s)

JobStep(j) ==
  \/ Enqueue(j) \/ LeaseExpires(j) \/ RunAtPasses(j)
  \/ \E p \in Pods : CancelJob(p, j) \/ SignalRun(p, j)

PodStep(p) == Shutdown(p) \/ Exit(p) \/ Crash(p) \/ Restart(p)

Next ==
  \/ \E s \in Slots : SlotStep(s)
  \/ \E j \in Jobs : JobStep(j)
  \/ \E p \in Pods : PodStep(p)
  \/ ReapStaleRunning

Spec == Init /\ [][Next]_vars

(***************************************************************************)
(* Fairness.  A live pod's loops keep running (claim, deferred clean-up,   *)
(* reaper ticker, restart by the orchestrator), a handler returns, a       *)
(* statement answers, time passes.  Starting is strongly fair: a slot that *)
(* keeps losing the limiter race gets its turn once, since limiter slots   *)
(* are freed by every run that ends and by their TTL.  Nothing is assumed  *)
(* of producers, of the admin, of heartbeats, or of leases of rows that    *)
(* some run still holds.                                                   *)
(***************************************************************************)
Fairness ==
  /\ \A s \in Slots :
       /\ WF_vars(\E j \in Jobs : ClaimNext(s, j))
       /\ SF_vars(StartRun(s) \/ NoHandler(s))
       /\ WF_vars(HandlerReturns(s))
       /\ WF_vars(RecordOutcome(s) \/ RecordOutcomeError(s))
       /\ WF_vars(Leave(s))
  /\ \A j \in Jobs :
       /\ WF_vars(Orphaned(j) /\ LeaseExpires(j))
       /\ WF_vars(RunAtPasses(j))
  /\ \A p \in Pods : WF_vars(Exit(p)) /\ WF_vars(Restart(p))
  /\ WF_vars(ReapStaleRunning)

FairSpec == Spec /\ Fairness

-----------------------------------------------------------------------------
(* Properties.                                                             *)

\* Every start of a handler is paid for by an attempt that is never refunded:
\* the refund of Requeue (store.go) gives back only a claim that did not start.
StartsCharged ==
  \A j \in Jobs : starts[j] + Cardinality(Unstarted(j)) <= row[j].attempts

\* The attempt budget bounds the claims, although ClaimNext never compares the
\* two columns: a queued row always has an attempt left (exec.go's retry test,
\* the reaper's CASE and Requeue keep it so), and no row is over budget.
InBudget(r) ==
  /\ 1 <= r.maxAttempts
  /\ r.attempts <= r.maxAttempts
  /\ r.status = "queued" => r.attempts < r.maxAttempts

BudgetKept == \A j \in Jobs : InBudget(row[j])

\* max_attempts bounds how often a handler is really entered, whatever leases
\* expire, pods die and writes get lost (exec.go, store.go).
StartsBounded == \A j \in Jobs : starts[j] <= row[j].maxAttempts

\* The claim-owner guard of store.go singles out one run: a run that would pass
\* it holds the row's latest claim (its copy of attempts is the row's), and no
\* other run of the job would pass it.
Active(s, j) == run[s].pc # "idle" /\ run[s].job = j

GuardAdmitsLatestClaim ==
  \A j \in Jobs, s \in Slots :
    Active(s, j) /\ Owned(row[j], WorkerId(s)) =>
      /\ run[s].attempts = row[j].attempts
      /\ \A t \in Slots : Active(t, j) /\ Owned(row[j], WorkerId(t)) => t = s

\* A provider's cancels map never points at a finished run or at a run of
\* another job, so provider.Cancel(id) cannot interrupt a stranger (local.go).
CancelHitsItsJob ==
  \A p \in Pods, j \in Jobs :
    cancels[p][j] # NoSlot =>
      LET s == cancels[p][j] IN
        /\ PodOf[s] = p
        /\ run[s].job = j
        /\ run[s].pc \in {"running", "writing", "leaving"}

\* done, failed and cancelled are final: no late write of a stale worker, no
\* reaper sweep and no second cancel changes the row again (store.go).
TerminalIsFinal ==
  [][\A j \in Jobs : row[j].status \in Terminal => row'[j].status = row[j].status]_vars

\* A claim is only ended by its own run, by an admin cancel, or by the reaper
\* after its lease lapsed - never by another run's late Requeue, Complete or
\* Fail, which would hand a row that is being worked on to a third claimer
\* (the claim-owner guard of store.go).
OwnWrite(s, j) ==
  run[s].job = j /\ run[s].pc \in {"claimed", "writing"} /\ run'[s].pc # run[s].pc

ClaimsAreRespected ==
  [][\A j \in Jobs, s \in Slots :
       Owned(row[j], WorkerId(s)) /\ ~ Owned(row'[j], WorkerId(s)) =>
         row[j].stale \/ row'[j].status = "cancelled" \/ OwnWrite(s, j)]_vars

\* The queue implements the promise of JobLifecycle.
Phase(r) == IF r.status \in {"queued", "running"} THEN "open" ELSE r.status

Lifecycle == INSTANCE JobLifecycle WITH
  phase  <- [j \in Jobs |-> Phase(row[j])],
  budget <- [j \in Jobs |-> row[j].maxAttempts]

\* Refinement: a job is closed once, done only after a start, and started no
\* more often than its budget allows, through every path of local.go, exec.go
\* and reaper.go.
ImplementsLifecycle == Lifecycle!LifeSpec

\* Every submitted job reaches a terminal status: orphaned rows are reaped,
\* back-offs end, and each lease lost costs one of finitely many attempts.
EveryJobEnds ==
  \A j \in Jobs : row[j].status = "queued" ~> row[j].status \in Terminal

\* Run returns after a shutdown: every slot of the pod gets back to its loop.
ShutdownEnds == \A p \in Pods : power[p] = "stopping" ~> power[p] = "down"
=============================================================================
