------------------------------ MODULE JobStore ------------------------------
(***************************************************************************)
(* The rows of the `jobs` table and the SQL statements of jobs.Store that  *)
(* change one (internal/jobs/store.go).  Every statement is one atomic     *)
(* UPDATE, so each is a function from a row to the row it leaves behind;   *)
(* a statement whose WHERE clause does not match leaves the row alone.     *)
(*                                                                         *)
(* The four executor-side writes (Requeue, Complete, Fail, Heartbeat) are  *)
(* a compare-and-set on the pair (status = running, locked_by = worker):   *)
(* Owned below.  MarkCancelled and the reaper are not: they are meant to   *)
(* win over the executor.                                                  *)
(*                                                                         *)
(* Time is kept only as far as a WHERE clause can see it: `due` is         *)
(* run_at <= now(), `stale` is "the newest liveness stamp of the row is    *)
(* older than the lease".  Payload, error text and the started/finished    *)
(* stamps decide nothing and are left out.                                 *)
(***************************************************************************)
EXTENDS Integers

CONSTANTS Kinds,      \* the job kinds of the registry
          WorkerIds,  \* values of locked_by
          NoWorker    \* the empty locked_by

ASSUME NoWorkerAssumption == NoWorker \notin WorkerIds

Status == {"absent", "queued", "running", "done", "failed", "cancelled"}
Terminal == {"done", "failed", "cancelled"}

\* A row; "absent" is an id that has not been inserted yet.
Job == [status: Status, kind: Kinds, attempts: Nat, maxAttempts: Nat,
        lockedBy: WorkerIds \cup {NoWorker}, due: BOOLEAN, stale: BOOLEAN]

Absent(kind) ==
  [status |-> "absent", kind |-> kind, attempts |-> 0, maxAttempts |-> 1,
   lockedBy |-> NoWorker, due |-> FALSE, stale |-> FALSE]

\* The INSERT of Enqueue; a budget below one is raised to one, and the row is
\* due at once unless the caller asked for a later run_at (At, Delay).
Enqueued(kind, maxAttempts, due) ==
  [status |-> "queued", kind |-> kind, attempts |-> 0,
   maxAttempts |-> IF maxAttempts < 1 THEN 1 ELSE maxAttempts,
   lockedBy |-> NoWorker, due |-> due, stale |-> FALSE]

\* The WHERE clause of ClaimNext: which kinds a provider may claim.  An empty
\* include list means any kind.
KindAllowed(k, include, exclude) ==
  /\ include = {} \/ k \in include
  /\ k \notin exclude

Claimable(r, include, exclude) ==
  /\ r.status = "queued"
  /\ r.due
  /\ KindAllowed(r.kind, include, exclude)

\* The SET clause of ClaimNext.
Claimed(r, w) ==
  [r EXCEPT !.status = "running", !.attempts = @ + 1,
            !.lockedBy = w, !.stale = FALSE]

\* The claim-owner guard.
Owned(r, w) == r.status = "running" /\ r.lockedBy = w

\* Mutated form of Requeue: the guard forgets the owner.
Requeue_AnyOwner(r, w) ==
  IF r.status = "running"
    THEN [r EXCEPT !.status = "queued", !.lockedBy = NoWorker,
                   !.attempts = IF @ - 1 > 0 THEN @ - 1 ELSE 0]
    ELSE r

\* Give a just-claimed row back and refund the attempt its claim charged.
\* run_at is not touched, so the row is due at once.
Requeue(r, w) ==
  IF Owned(r, w)
    THEN [r EXCEPT !.status = "queued", !.lockedBy = NoWorker,
                   !.attempts = IF @ - 1 > 0 THEN @ - 1 ELSE 0]
    ELSE r

\* Mutated form of Complete: the guard forgets the status.
Complete_Unguarded(r, w) ==
  IF r.lockedBy \in {w, NoWorker} THEN [r EXCEPT !.status = "done"] ELSE r

\* locked_by stays on a done row.
Complete(r, w) ==
  IF Owned(r, w) THEN [r EXCEPT !.status = "done"] ELSE r

\* Fail with a retryAt: back to the queue, due only after the back-off.
FailRetry(r, w) ==
  IF Owned(r, w)
    THEN [r EXCEPT !.status = "queued", !.lockedBy = NoWorker, !.due = FALSE]
    ELSE r

\* Fail without one: terminal; locked_by stays.
FailTerminal(r, w) ==
  IF Owned(r, w) THEN [r EXCEPT !.status = "failed"] ELSE r

\* Mutated form of Cancellable: a cancel lands on any row.
Cancellable_Always(r) == r.status # "absent"

Cancellable(r) == r.status \in {"queued", "running"}

MarkCancelled(r) ==
  IF Cancellable(r)
    THEN [r EXCEPT !.status = "cancelled", !.lockedBy = NoWorker]
    ELSE r

Heartbeat(r, w) ==
  IF Owned(r, w) THEN [r EXCEPT !.stale = FALSE] ELSE r

\* Mutated form of Reapable: rows without budget are left to themselves.
Reapable_WithBudget(r) ==
  r.status = "running" /\ r.stale /\ r.attempts < r.maxAttempts

\* Mutated form of Reaped: a reclaimed row gets its attempt back.
Reaped_Refunding(r) ==
  IF r.status = "running" /\ r.stale
    THEN [r EXCEPT !.status = "queued", !.lockedBy = NoWorker,
                   !.due = TRUE, !.stale = FALSE, !.attempts = @ - 1]
    ELSE r

\* Mutated form of Reaped: every stale row goes back to the queue.
Reaped_Always(r) ==
  IF r.status = "running" /\ r.stale
    THEN [r EXCEPT !.status = "queued", !.lockedBy = NoWorker,
                   !.due = TRUE, !.stale = FALSE]
    ELSE r

\* The reaper's CASE: a row that still has budget goes back to the queue, due
\* now and without its lock; one that has none is failed and keeps its lock.
Reapable(r) == r.status = "running" /\ r.stale

Reaped(r) ==
  IF Reapable(r)
    THEN IF r.attempts < r.maxAttempts
           THEN [r EXCEPT !.status = "queued", !.lockedBy = NoWorker,
                          !.due = TRUE, !.stale = FALSE]
           ELSE [r EXCEPT !.status = "failed"]
    ELSE r
=============================================================================
