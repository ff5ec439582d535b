---------------------------- MODULE JobDispatch ----------------------------
(***************************************************************************)
(* What decides when a job of a kind may run: the periodic scheduler       *)
(* (internal/jobs/scheduler.go) that turns due rows of `job_schedules`     *)
(* into rows of `jobs`, and the limiter (internal/jobs/limiter.go) that    *)
(* caps how many handlers of a kind run across all pods, composed with the *)
(* claim loop of internal/jobs/local.go.  Rows and the statements on them  *)
(* are those of JobStore; races of one row with its reaper are JobQueue's. *)
(*                                                                         *)
(* Time is relative and therefore unbounded: `next[k]` counts down to the  *)
(* next run of a schedule and `sem` holds the age of a semaphore member.   *)
(* A tick is slotRefreshInterval, so every tick the refresher of each held *)
(* slot stamps its member, unless that fails.                              *)
(*                                                                         *)
(* Job ids grow forever in the code; here an id is used again when its row *)
(* is terminal and nothing refers to it.                                   *)
(***************************************************************************)
EXTENDS JobStore, FiniteSets

CONSTANTS Jobs,      \* job ids
          NoJob,
          Pods,
          Slots,     \* goroutines of runLoop; also the values of locked_by
          PodOf,     \* [Slots -> Pods]
          Stable,    \* pods that are never stopped once they run
          Cap,       \* [Kinds -> Nat], Registry.Concurrency(); 0 is unlimited
          Periodic,  \* kinds with a schedule
          Every,     \* [Pods -> Nat], the interval a pod's configuration registers
          MaxAttempts, \* of the rows a scheduler inserts
          SemTTL,    \* semTTL in ticks
          MaxFaults, \* statements and Redis calls that may fail
          MaxAdmin   \* rows an admin may have pending

ASSUME DispatchAssumption ==
  /\ PodOf \in [Slots -> Pods]
  /\ WorkerIds = Slots
  /\ Stable \subseteq Pods
  /\ Cap \in [Kinds -> Nat]
  /\ Periodic \subseteq Kinds
  /\ Every \in [Pods -> Nat \ {0}]
  /\ SemTTL \in Nat \ {0}
  /\ MaxFaults \in Nat /\ MaxAdmin \in Nat /\ MaxAttempts \in Nat
  /\ IsFiniteSet(Slots) /\ IsFiniteSet(Pods) /\ IsFiniteSet(Jobs)
  /\ Kinds # {} /\ NoJob \notin Jobs

VARIABLES row,      \* [Jobs -> Job], the table `jobs`
          periodic, \* the ids whose latest row was inserted by a scheduler
          interval, \* [Periodic -> Nat], interval_seconds; 0 before the first INSERT
          next,     \* [Periodic -> Nat], ticks until next_run_at
          sem,      \* [Pods \X Jobs -> age], the sorted sets; Out if not a member
          up,       \* the pods that run
          slot,     \* [Slots -> the state of its loop]
          todo,     \* [Pods -> kinds `fire` has claimed and not yet looked at]
          going,    \* [Pods -> kinds that passed the pending check]
          faults,   \* failures so far
          loose,    \* history: kinds with a run outside the semaphore
          stacked   \* history: kinds enqueued by overlapping or blind schedulers

vars == <<row, periodic, interval, next, sem, up, slot, todo, going, faults,
          loose, stacked>>

Out == -1
Members == Pods \X Jobs
IdleSlot == [st |-> "idle", job |-> NoJob, held |-> FALSE]

Pending(r) == r.status \in {"queued", "running"}
HasPendingKind(k) == \E j \in Jobs : row[j].kind = k /\ Pending(row[j])

Busy(s) == slot[s].st = "running"
Running(k) == {s \in Slots : Busy(s) /\ row[slot[s].job].kind = k}
HolderOf(s) == <<PodOf[s], slot[s].job>>

\* An id that stands for the next value of the sequence.
Fresh(j) ==
  /\ ~Pending(row[j])
  /\ \A s \in Slots : slot[s].job # j
  /\ \A p \in Pods : sem[<<p, j>>] = Out

Fails == faults < MaxFaults /\ faults' = faults + 1

\* ZREMRANGEBYSCORE -inf (now - ttl) for one kind.
Pruned(k) ==
  [h \in Members |->
     IF row[h[2]].kind = k /\ sem[h] >= SemTTL THEN Out ELSE sem[h]]

\* Mutated form of Card: only the members of this tick count.
Card_Young(k, m) == Cardinality({h \in Members : m[h] = 0 /\ row[h[2]].kind = k})

Card(k, m) == Cardinality({h \in Members : m[h] # Out /\ row[h[2]].kind = k})

\* Runs whose member a prune is about to take away.
Evicted(m) ==
  {row[slot[s].job].kind : s \in {t \in Slots : /\ Busy(t)
                                                /\ slot[t].held
                                                /\ sem[HolderOf(t)] # Out
                                                /\ m[HolderOf(t)] = Out}}

Init ==
  /\ row = [j \in Jobs |-> Absent(CHOOSE k \in Kinds : TRUE)]
  /\ periodic = {}
  /\ interval = [k \in Periodic |-> 0]
  /\ next = [k \in Periodic |-> 0]
  /\ sem = [h \in Members |-> Out]
  /\ up = {}
  /\ slot = [s \in Slots |-> IdleSlot]
  /\ todo = [p \in Pods |-> {}]
  /\ going = [p \in Pods |-> {}]
  /\ faults = 0
  /\ loose = {}
  /\ stacked = {}

----------------------------------------------------------------------------
(* Schedules. *)

\* Mutated form of Rescheduled: a registration starts the period anew.
Rescheduled_Overwrite(k, p) == Every[p]

\* Mutated form of Rescheduled: every registration pulls the run forward.
Rescheduled_Earlier(k, p) == IF interval[k] = 0 THEN Every[p] ELSE next[k] - 1

\* The next_run_at UpsertSchedule leaves behind: LEAST of the old and the new.
Rescheduled(k, p) ==
  IF interval[k] = 0 \/ Every[p] < next[k] THEN Every[p] ELSE next[k]

\* A pod starts and registers its schedules before Run.
Boot(p) ==
  /\ p \notin up
  /\ up' = up \cup {p}
  /\ interval' = [k \in Periodic |-> Every[p]]
  /\ next' = [k \in Periodic |-> Rescheduled(k, p)]
  /\ UNCHANGED <<row, periodic, sem, slot, todo, going, faults, loose, stacked>>

Due(k) == interval[k] # 0 /\ next[k] = 0

\* The UPDATE ... RETURNING of ClaimDueSchedules, for every due kind at once.
ClaimDueSchedules(p) ==
  LET due == {k \in Periodic : Due(k)} IN
  /\ p \in up
  /\ todo[p] = {} /\ going[p] = {}
  /\ due # {}
  /\ next' = [k \in Periodic |-> IF k \in due THEN interval[k] ELSE next[k]]
  /\ todo' = [todo EXCEPT ![p] = due]
  \* Another scheduler has not finished with its claim of the period before.
  /\ stacked' = stacked \cup (due \cap UNION {todo[q] \cup going[q] : q \in Pods})
  /\ UNCHANGED <<row, periodic, interval, sem, up, slot, going, faults, loose>>

\* Mutated form of PendingSeen: only queued rows keep a period back.
PendingSeen_Queued(k) == \E j \in Jobs : row[j].kind = k /\ row[j].status = "queued"

PendingSeen(k) == HasPendingKind(k)

\* The check of `fire`; when the query fails the kind is enqueued anyway.
CheckPending(p, k) ==
  /\ k \in todo[p] /\ going[p] = {}
  /\ todo' = [todo EXCEPT ![p] = @ \ {k}]
  /\ \/ /\ going' = IF PendingSeen(k) THEN going ELSE [going EXCEPT ![p] = {k}]
        /\ UNCHANGED <<faults, stacked>>
     \/ /\ Fails
        /\ going' = [going EXCEPT ![p] = {k}]
        /\ stacked' = stacked \cup {k}
  /\ UNCHANGED <<row, periodic, interval, next, sem, up, slot, loose>>

\* Enqueue, or its failure: the period is skipped.
EnqueuePeriodic(p, k) ==
  /\ k \in going[p]
  /\ going' = [going EXCEPT ![p] = {}]
  /\ \/ \E j \in Jobs :
          /\ Fresh(j)
          /\ row' = [row EXCEPT ![j] = Enqueued(k, MaxAttempts, TRUE)]
          /\ periodic' = periodic \cup {j}
          /\ UNCHANGED faults
     \/ Fails /\ UNCHANGED <<row, periodic>>
  /\ UNCHANGED <<interval, next, sem, up, slot, todo, loose, stacked>>

\* POST /trigger and POST /:id/retry: a row of its own, without a check.
Trigger(k) ==
  /\ Cardinality({j \in Jobs \ periodic : Pending(row[j])}) < MaxAdmin
  /\ \E j \in Jobs :
       /\ Fresh(j)
       /\ row' = [row EXCEPT ![j] = Enqueued(k, 1, TRUE)]
       /\ periodic' = periodic \ {j}
  /\ UNCHANGED <<interval, next, sem, up, slot, todo, going, faults, loose, stacked>>

----------------------------------------------------------------------------
(* The claim loop and the semaphore. *)

\* One pass of runLoop up to the claim: claimExclude prunes, counts and lists
\* the kinds at their cap, and ClaimNext skips those.  When the count fails, or
\* a kind fills up behind it, a kind at its cap is claimed all the same.
ClaimNext(s) ==
  LET capped == {k \in Kinds : Cap[k] > 0}
      m == [h \in Members |-> Pruned(row[h[2]].kind)[h]]
      full == {k \in capped : Card(k, m) >= Cap[k]} IN
  /\ PodOf[s] \in up
  /\ slot[s].st = "idle"
  /\ \E excl \in {full, {}} :
       \/ \E j \in Jobs :
            /\ Claimable(row[j], {}, excl)
            /\ row' = [row EXCEPT ![j] = Claimed(@, s)]
            /\ slot' = [slot EXCEPT ![s] = [IdleSlot EXCEPT !.st = "claimed", !.job = j]]
       \/ /\ \A j \in Jobs : ~Claimable(row[j], {}, excl)
          /\ UNCHANGED <<row, slot>>
  /\ sem' = [h \in Members |-> IF row[h[2]].kind \in capped THEN m[h] ELSE sem[h]]
  /\ loose' = loose \cup Evicted(sem')
  /\ UNCHANGED <<periodic, interval, next, up, todo, going, faults, stacked>>

Starts(s, held) == slot' = [slot EXCEPT ![s].st = "running", ![s].held = held]

\* runJob up to execTracked: a kind without a cap runs at once; acquireScript
\* prunes, counts and adds in one step; a full kind gives its row back; and a
\* Redis error lets the job run unthrottled.
Acquire(s) ==
  LET j == slot[s].job
      k == row[j].kind
      m == Pruned(k) IN
  /\ slot[s].st = "claimed"
  /\ \/ /\ Cap[k] = 0 \/ Card(k, m) < Cap[k]
        /\ Starts(s, Cap[k] > 0)
        /\ sem' = IF Cap[k] = 0 THEN sem ELSE [m EXCEPT ![HolderOf(s)] = 0]
        /\ loose' = loose \cup (IF Cap[k] = 0 THEN {} ELSE Evicted(m))
        /\ UNCHANGED <<row, faults>>
     \/ /\ Cap[k] > 0 /\ Card(k, m) >= Cap[k]
        /\ row' = [row EXCEPT ![j] = Requeue(@, s)]
        /\ slot' = [slot EXCEPT ![s] = IdleSlot]
        /\ sem' = m
        /\ loose' = loose \cup Evicted(m)
        /\ UNCHANGED faults
     \/ /\ Cap[k] > 0 /\ Fails
        /\ Starts(s, FALSE)
        /\ loose' = loose \cup {k}
        /\ UNCHANGED <<row, sem>>
  /\ UNCHANGED <<periodic, interval, next, up, todo, going, stacked>>

\* ZREM of the holder.
Released(s) ==
  IF slot[s].held THEN [sem EXCEPT ![HolderOf(s)] = Out] ELSE sem

\* The handler returns, execute writes the outcome, and the deferred
\* stopRefresh and release follow; nobody notices when the release fails.
HandlerEnds(s) ==
  LET j == slot[s].job IN
  /\ slot[s].st = "running"
  /\ \/ row' = [row EXCEPT ![j] = Complete(@, s)]
     \/ row' = [row EXCEPT ![j] = IF @.attempts < @.maxAttempts
                                    THEN FailRetry(@, s) ELSE FailTerminal(@, s)]
  /\ \/ sem' = Released(s) /\ UNCHANGED faults
     \/ slot[s].held /\ Fails /\ UNCHANGED sem
  /\ slot' = [slot EXCEPT ![s] = IdleSlot]
  /\ UNCHANGED <<periodic, interval, next, up, todo, going, loose, stacked>>

----------------------------------------------------------------------------
(* Pods, leases and time. *)

\* The process is gone; with SIGTERM the handlers are interrupted and the
\* deferred releases still run, with SIGKILL the members stay.
Stop(p) ==
  LET mine == {s \in Slots : PodOf[s] = p}
      freed == {HolderOf(s) : s \in {t \in mine : Busy(t) /\ slot[t].held}} IN
  /\ p \in up \ Stable
  /\ up' = up \ {p}
  /\ slot' = [s \in Slots |-> IF s \in mine THEN IdleSlot ELSE slot[s]]
  /\ todo' = [todo EXCEPT ![p] = {}]
  /\ going' = [going EXCEPT ![p] = {}]
  /\ \/ sem' = [h \in Members |-> IF h \in freed THEN Out ELSE sem[h]]
     \/ UNCHANGED sem
  /\ UNCHANGED <<row, periodic, interval, next, faults, loose, stacked>>

RunBy(j) == {s \in Slots : slot[s].job = j /\ row[j].lockedBy = s}

\* The heartbeats of a row stop for the lease: its worker is gone, or it is
\* alive and its heartbeats failed.
LeaseExpires(j) ==
  /\ row[j].status = "running" /\ ~row[j].stale
  /\ row' = [row EXCEPT ![j].stale = TRUE]
  /\ \/ RunBy(j) = {} /\ UNCHANGED <<faults, loose>>
     \/ RunBy(j) # {} /\ Fails /\ loose' = loose \cup {row[j].kind}
  /\ UNCHANGED <<periodic, interval, next, sem, up, slot, todo, going, stacked>>

\* RunReaper on some pod.
ReapStaleRunning(j) ==
  /\ up # {}
  /\ Reapable(row[j])
  /\ row' = [row EXCEPT ![j] = Reaped(@)]
  /\ UNCHANGED <<periodic, interval, next, sem, up, slot, todo, going, faults, loose, stacked>>

\* Members the refreshers stamp in a tick (ZADD XX: only present ones).
Stamped(fails) ==
  {HolderOf(s) : s \in {t \in Slots \ fails : slot[t].st = "running" /\ slot[t].held}}

\* What a row is after a tick: a back-off has passed, and a terminal row that
\* nothing refers to is an unused id again.
Aged(j) ==
  IF Fresh(j) THEN Absent(CHOOSE k \in Kinds : TRUE)
  ELSE IF row[j].status = "queued" THEN [row[j] EXCEPT !.due = TRUE] ELSE row[j]

\* slotRefreshInterval passes.
Tick ==
  /\ \E fails \in SUBSET {s \in Slots : slot[s].st = "running" /\ slot[s].held} :
       /\ faults + Cardinality(fails) <= MaxFaults
       /\ faults' = faults + Cardinality(fails)
       /\ sem' = [h \in Members |->
                    CASE sem[h] = Out -> Out
                      [] sem[h] # Out /\ h \in Stamped(fails) -> 0
                      [] OTHER -> IF sem[h] < SemTTL THEN sem[h] + 1 ELSE SemTTL]
  /\ next' = [k \in Periodic |-> IF next[k] > 0 THEN next[k] - 1 ELSE 0]
  /\ row' = [j \in Jobs |-> Aged(j)]
  /\ periodic' = {j \in periodic : ~Fresh(j)}
  /\ UNCHANGED <<interval, up, slot, todo, going, loose, stacked>>

Next ==
  \/ \E p \in Pods : Boot(p) \/ Stop(p) \/ ClaimDueSchedules(p)
  \/ \E p \in Pods, k \in Periodic : CheckPending(p, k) \/ EnqueuePeriodic(p, k)
  \/ \E k \in Kinds : Trigger(k)
  \/ \E s \in Slots : ClaimNext(s) \/ Acquire(s) \/ HandlerEnds(s)
  \/ \E j \in Jobs : LeaseExpires(j) \/ ReapStaleRunning(j)
  \/ Tick

\* A live pod's loops and tickers run, handlers return, dead workers' leases
\* run out and time passes; a claim that keeps losing the race for the last
\* slot is made again and again.  Nothing is assumed of admins or of stops.
Fairness ==
  /\ \A p \in Pods :
       /\ WF_vars(Boot(p)) /\ SF_vars(ClaimDueSchedules(p))
       /\ WF_vars(\E k \in Periodic : CheckPending(p, k) \/ EnqueuePeriodic(p, k))
  /\ \A s \in Slots : SF_vars(ClaimNext(s)) /\ WF_vars(Acquire(s) \/ HandlerEnds(s))
  /\ \A j \in Jobs :
       WF_vars((RunBy(j) = {} /\ LeaseExpires(j)) \/ ReapStaleRunning(j))
  /\ WF_vars(Tick)

Spec == Init /\ [][Next]_vars
FairSpec == Spec /\ Fairness

----------------------------------------------------------------------------
(* Properties. *)

\* Every variable has its type.
TypeOK ==
  /\ row \in [Jobs -> Job]
  /\ periodic \subseteq Jobs
  /\ interval \in [Periodic -> Nat] /\ next \in [Periodic -> Nat]
  /\ sem \in [Members -> (0 .. SemTTL) \cup {Out}]
  /\ up \subseteq Pods
  /\ slot \in [Slots -> [st: {"idle", "claimed", "running"},
                         job: Jobs \cup {NoJob}, held: BOOLEAN]]
  /\ todo \in [Pods -> SUBSET Periodic] /\ going \in [Pods -> SUBSET Periodic]
  /\ faults \in 0 .. MaxFaults
  /\ loose \subseteq Kinds /\ stacked \subseteq Periodic

\* Handlers of a kind never exceed its cap across pods (KindLimiter), as long
\* as no limiter call failed open, no refresh failed for a whole TTL and no
\* live run lost its lease: a crashed pod, a restart under the same name, a
\* late exclude list and a retry never admit one too many.
CapIsKept ==
  \A k \in Kinds : Cap[k] > 0 /\ k \notin loose => Cardinality(Running(k)) <= Cap[k]

\* Schedulers on all pods together keep at most one periodic row of a kind
\* queued or running (fire's coalescing), unless a pending check failed or a
\* scheduler was still at work when the next period was claimed.
PeriodsCoalesce ==
  \A k \in Periodic \ stacked :
    Cardinality({j \in periodic : row[j].kind = k /\ Pending(row[j])}) <= 1

\* A periodic kind runs again and again, however often other pods restart and
\* register its schedule anew, lose a claimed period, or die while they hold
\* the kind's only slot.
PeriodicKindRuns == \A k \in Periodic : []<>(\E s \in Slots : Busy(s) /\ row[slot[s].job].kind = k)
=============================================================================
