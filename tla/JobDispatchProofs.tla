------------------------- MODULE JobDispatchProofs -------------------------
(***************************************************************************)
(* The limiter and the scheduler, for any number of pods, slots, jobs and  *)
(* kinds, any caps and any number of failures.                             *)
(*                                                                         *)
(* CapIsKept is not inductive.  It follows from three facts: the row of a  *)
(* claimed job is locked by its slot as long as its kind is not loose, so  *)
(* no two slots run one job; every run of a capped kind has its member in  *)
(* the semaphore; and a semaphore never holds more members than its cap.   *)
(* Runs of a kind then map one to one to members of its semaphore.         *)
(*                                                                         *)
(* PeriodsCoalesce is not inductive either, since fire checks and inserts  *)
(* in two steps.  Coalesced adds who is between them: one scheduler of a   *)
(* kind at most, and no row of the kind once it is past its check.         *)
(***************************************************************************)
EXTENDS JobDispatch, FiniteSetTheorems, TLAPS

Slot == [st : {"idle", "claimed", "running"}, job : Jobs \cup {NoJob}, held : BOOLEAN]

Typed == TypeOK /\ \A s \in Slots : slot[s].st # "idle" => slot[s].job \in Jobs

-----------------------------------------------------------------------------
(* Rows.                                                                   *)

\* A statement keeps the kind of a row, and never makes a row pending that was
\* not.
SameRow(new, old) ==
  new \in Job /\ new.kind = old.kind /\ (Pending(new) => Pending(old))

\* Every statement of the executor is a SameRow, and leaves a row alone that
\* its worker does not own.
LEMMA ExecutorStatements ==
  ASSUME NEW r \in Job, NEW w \in WorkerIds
  PROVE  /\ SameRow(Requeue(r, w), r) /\ SameRow(Complete(r, w), r)
         /\ SameRow(FailRetry(r, w), r) /\ SameRow(FailTerminal(r, w), r)
         /\ ~Owned(r, w) => /\ Requeue(r, w) = r /\ Complete(r, w) = r
                            /\ FailRetry(r, w) = r /\ FailTerminal(r, w) = r
<1>1. CASE ~Owned(r, w)
  BY <1>1 DEF Requeue, Complete, FailRetry, FailTerminal, SameRow
<1>2. CASE Owned(r, w)
  <2>1. Pending(r)
    BY <1>2 DEF Owned, Pending
  <2> DEFINE n == IF r.attempts - 1 > 0 THEN r.attempts - 1 ELSE 0
             new == [r EXCEPT !.status = "queued", !.lockedBy = NoWorker, !.attempts = n]
  <2>2. n \in Nat /\ Requeue(r, w) = new
    BY <1>2 DEF Job, Requeue
  <2> HIDE DEF n
  <2>3. new \in Job /\ new.kind = r.kind
    BY <2>2 DEF Job, Status
  <2>4. Complete(r, w) \in Job /\ Complete(r, w).kind = r.kind
    BY DEF Complete, Job, Status
  <2>5. FailRetry(r, w) \in Job /\ FailRetry(r, w).kind = r.kind
    BY DEF FailRetry, Job, Status
  <2>6. FailTerminal(r, w) \in Job /\ FailTerminal(r, w).kind = r.kind
    BY DEF FailTerminal, Job, Status
  <2> QED BY <1>2, <2>1, <2>2, <2>3, <2>4, <2>5, <2>6 DEF SameRow
<1> QED BY <1>1, <1>2

\* The claim and the reaper are a SameRow of the rows they apply to, and so is
\* the end of a lease or of a back-off.
LEMMA OtherStatements ==
  ASSUME NEW r \in Job, NEW w \in WorkerIds
  PROVE  /\ r.status = "queued" => /\ SameRow(Claimed(r, w), r)
                                   /\ Owned(Claimed(r, w), w) /\ ~Claimed(r, w).stale
                                   /\ SameRow([r EXCEPT !.due = TRUE], r)
         /\ SameRow(Reaped(r), r)
         /\ SameRow([r EXCEPT !.stale = TRUE], r)
<1>1. ASSUME r.status = "queued"
      PROVE  /\ SameRow(Claimed(r, w), r) /\ Owned(Claimed(r, w), w) /\ ~Claimed(r, w).stale
  <2> DEFINE n == r.attempts + 1
             new == [r EXCEPT !.status = "running", !.attempts = n, !.lockedBy = w, !.stale = FALSE]
  <2>1. n \in Nat /\ Claimed(r, w) = new
    BY DEF Job, Claimed
  <2> HIDE DEF n
  <2>2. new \in Job /\ new.kind = r.kind /\ new.status = "running" /\ new.lockedBy = w
        /\ new.stale = FALSE
    BY <2>1 DEF Job, Status
  <2> QED BY <1>1, <2>1, <2>2 DEF SameRow, Pending, Owned
<1>2. SameRow(Reaped(r), r)
  BY DEF Reaped, Reapable, SameRow, Pending, Job, Status
<1>3. SameRow([r EXCEPT !.stale = TRUE], r)
  BY DEF SameRow, Pending, Job
<1>4. SameRow([r EXCEPT !.due = TRUE], r)
  BY DEF SameRow, Pending, Job
<1> QED BY <1>1, <1>2, <1>3, <1>4

\* The INSERT gives a row of its type.
LEMMA InsertedRow ==
  ASSUME NEW k \in Kinds, NEW m \in Nat
  PROVE  /\ Enqueued(k, m, TRUE) \in Job /\ Enqueued(k, m, TRUE).kind = k
         /\ Absent(CHOOSE x \in Kinds : TRUE) \in Job
         /\ ~Pending(Absent(CHOOSE x \in Kinds : TRUE))
<1>1. ASSUME NEW d \in BOOLEAN
      PROVE  Enqueued(k, m, d) \in Job /\ Enqueued(k, m, d).kind = k
  <2> DEFINE n == IF m < 1 THEN 1 ELSE m
  <2>1. n \in Nat
    OBVIOUS
  <2>2. Enqueued(k, m, d) =
          [status |-> "queued", kind |-> k, attempts |-> 0, maxAttempts |-> n,
           lockedBy |-> NoWorker, due |-> d, stale |-> FALSE]
    BY DEF Enqueued
  <2> HIDE DEF n
  <2>3. Enqueued(k, m, d) \in Job
    BY <2>1, <2>2 DEF Job, Status
  <2>4. Enqueued(k, m, d).kind = k
    BY <2>2
  <2> QED BY <2>3, <2>4
<1>3. Enqueued(k, m, TRUE) \in Job /\ Enqueued(k, m, TRUE).kind = k
  BY <1>1
<1>4. (CHOOSE x \in Kinds : TRUE) \in Kinds
  BY DispatchAssumption
<1> DEFINE c == CHOOSE x \in Kinds : TRUE
<1> HIDE DEF c
<1>5. c \in Kinds /\ Absent(c) \in Job /\ ~Pending(Absent(c))
  BY <1>4 DEF Absent, Job, Status, Pending, c
<1> QED BY <1>3, <1>5 DEF c

-----------------------------------------------------------------------------
(* Types.                                                                  *)

\* Only an id that nothing refers to changes what it stands for.
RowsKept == \A j \in Jobs : SameRow(row'[j], row[j]) \/ Fresh(j)

\* What a working slot refers to.
LEMMA WorkingSlot ==
  ASSUME Typed, NEW s \in Slots
  PROVE  /\ slot[s] \in Slot /\ PodOf[s] \in Pods /\ s \in WorkerIds
         /\ slot[s].st # "idle" =>
              /\ slot[s].job \in Jobs /\ row[slot[s].job] \in Job
              /\ row[slot[s].job].kind \in Kinds /\ HolderOf(s) \in Members
BY DispatchAssumption DEF Typed, TypeOK, Slot, HolderOf, Members, Job

\* A statement that fails leaves its count in range.
LEMMA FailsType ==
  ASSUME Typed, Fails
  PROVE  faults' \in 0 .. MaxFaults
BY DispatchAssumption DEF Fails, Typed, TypeOK

\* A prune takes members away and changes no other.
LEMMA PrunedFacts ==
  ASSUME Typed, NEW k
  PROVE  /\ Pruned(k) \in [Members -> (0 .. SemTTL) \cup {Out}]
         /\ \A h \in Members : Pruned(k)[h] # Out => Pruned(k)[h] = sem[h]
BY DEF Pruned, Typed, TypeOK

\* The kinds of evicted runs are kinds.
LEMMA EvictedType ==
  ASSUME Typed, NEW m
  PROVE  Evicted(m) \subseteq Kinds
BY WorkingSlot DEF Evicted, Busy

\* What a step of the claim loop does to its slot and to no other.
LEMMA SlotStep ==
  ASSUME Typed, NEW s \in Slots, NEW t \in Slot, t.st # "idle" => t.job \in Jobs,
         slot' = [slot EXCEPT ![s] = t]
  PROVE  /\ slot' \in [Slots -> Slot] /\ slot'[s] = t
         /\ \A q \in Slots \ {s} : slot'[q] = slot[q]
         /\ \A q \in Slots : slot'[q].st # "idle" => slot'[q].job \in Jobs
BY DEF Typed, TypeOK, Slot

\* An idle slot is a slot.
LEMMA IdleSlotType == IdleSlot \in Slot /\ IdleSlot.st = "idle"
BY DEF IdleSlot, Slot

\* The periodic scheduler and the enqueues keep the types and the rows of
\* others.
LEMMA ScheduleTyped ==
  ASSUME Typed, NEW p \in Pods,
         \/ Boot(p) \/ ClaimDueSchedules(p)
         \/ \E k \in Periodic : CheckPending(p, k) \/ EnqueuePeriodic(p, k)
         \/ \E k \in Kinds : Trigger(k)
  PROVE  Typed' /\ RowsKept
<1> USE DispatchAssumption DEF Typed, TypeOK
<1>0. \A j \in Jobs : SameRow(row[j], row[j])
  BY DEF SameRow
<1>1. CASE Boot(p)
  <2>1. interval' \in [Periodic -> Nat] /\ next' \in [Periodic -> Nat]
    BY <1>1 DEF Boot, Rescheduled
  <2> QED BY <1>0, <1>1, <2>1 DEF Boot, RowsKept
<1>2. CASE ClaimDueSchedules(p)
  <2>1. next' \in [Periodic -> Nat] /\ todo' \in [Pods -> SUBSET Periodic]
        /\ stacked' \subseteq Periodic
    BY <1>2 DEF ClaimDueSchedules
  <2> QED BY <1>0, <1>2, <2>1 DEF ClaimDueSchedules, RowsKept
<1>3. ASSUME NEW k \in Periodic, CheckPending(p, k) PROVE Typed' /\ RowsKept
  <2>1. todo' \in [Pods -> SUBSET Periodic] /\ going' \in [Pods -> SUBSET Periodic]
        /\ stacked' \subseteq Periodic
    BY <1>3 DEF CheckPending
  <2>2. faults' \in 0 .. MaxFaults
    BY <1>3, FailsType DEF CheckPending
  <2> QED BY <1>0, <1>3, <2>1, <2>2 DEF CheckPending, RowsKept
<1>4. ASSUME NEW k \in Kinds, NEW n \in Nat, NEW j \in Jobs, Fresh(j),
             row' = [row EXCEPT ![j] = Enqueued(k, n, TRUE)]
      PROVE  row' \in [Jobs -> Job] /\ RowsKept
  BY <1>0, <1>4, InsertedRow DEF RowsKept
<1>5. ASSUME NEW k \in Periodic, EnqueuePeriodic(p, k) PROVE Typed' /\ RowsKept
  <2>1. going' \in [Pods -> SUBSET Periodic]
    BY <1>5 DEF EnqueuePeriodic
  <2>2. faults' \in 0 .. MaxFaults
    BY <1>5, FailsType DEF EnqueuePeriodic
  <2>3. row' \in [Jobs -> Job] /\ RowsKept /\ periodic' \subseteq Jobs
    <3>1. k \in Kinds
      OBVIOUS
    <3>2. CASE UNCHANGED <<row, periodic>>
      BY <1>0, <3>2 DEF RowsKept
    <3>3. CASE \E j \in Jobs : /\ Fresh(j) /\ periodic' = periodic \cup {j}
                               /\ row' = [row EXCEPT ![j] = Enqueued(k, MaxAttempts, TRUE)]
      BY <1>4, <3>1, <3>3
    <3> QED BY <1>5, <3>2, <3>3 DEF EnqueuePeriodic
  <2> QED BY <1>5, <2>1, <2>2, <2>3 DEF EnqueuePeriodic
<1>6. ASSUME NEW k \in Kinds, Trigger(k) PROVE Typed' /\ RowsKept
  <2>1. row' \in [Jobs -> Job] /\ RowsKept /\ periodic' \subseteq Jobs
    BY <1>4, <1>6 DEF Trigger
  <2> QED BY <1>6, <2>1 DEF Trigger
<1> QED BY <1>1, <1>2, <1>3, <1>5, <1>6

\* Claiming keeps the types: the members that survive the prune of the exclude
\* list are those that were there.
LEMMA ClaimTyped ==
  ASSUME Typed, NEW s \in Slots, ClaimNext(s)
  PROVE  /\ Typed' /\ RowsKept
         /\ \A h \in Members : sem'[h] # Out => sem'[h] = sem[h]
         /\ loose' = loose \cup Evicted(sem')
         /\ \/ UNCHANGED <<row, slot>>
            \/ \E j \in Jobs : /\ row[j].status = "queued" /\ slot[s].st = "idle"
                               /\ row' = [row EXCEPT ![j] = Claimed(row[j], s)]
                               /\ slot'[s].st = "claimed" /\ slot'[s].job = j
                               /\ \A t \in Slots \ {s} : slot'[t] = slot[t]
<1> DEFINE capped == {k \in Kinds : Cap[k] > 0}
           m == [h \in Members |-> Pruned(row[h[2]].kind)[h]]
<1>1. /\ sem' = [h \in Members |-> IF row[h[2]].kind \in capped THEN m[h] ELSE sem[h]]
      /\ loose' = loose \cup Evicted(sem')
      /\ UNCHANGED <<periodic, interval, next, up, todo, going, faults, stacked>>
  BY DEF ClaimNext
<1>2. /\ m \in [Members -> (0 .. SemTTL) \cup {Out}]
      /\ \A h \in Members : m[h] # Out => m[h] = sem[h]
  BY PrunedFacts
<1> HIDE DEF m
<1>3. /\ sem' \in [Members -> (0 .. SemTTL) \cup {Out}]
      /\ \A h \in Members : sem'[h] # Out => sem'[h] = sem[h]
  BY <1>1, <1>2 DEF Typed, TypeOK
<1>4. loose' \subseteq Kinds
  BY <1>1, EvictedType DEF Typed, TypeOK
<1>5. CASE UNCHANGED <<row, slot>>
  <2>1. RowsKept
    BY <1>5 DEF RowsKept, SameRow, Typed, TypeOK
  <2> QED BY <1>1, <1>3, <1>4, <1>5, <2>1 DEF Typed, TypeOK
<1>6. ASSUME NEW j \in Jobs, NEW excl, Claimable(row[j], {}, excl),
             row' = [row EXCEPT ![j] = Claimed(@, s)],
             slot' = [slot EXCEPT ![s] = [IdleSlot EXCEPT !.st = "claimed", !.job = j]]
      PROVE  /\ Typed' /\ RowsKept /\ row[j].status = "queued"
             /\ row' = [row EXCEPT ![j] = Claimed(row[j], s)]
             /\ slot'[s].st = "claimed" /\ slot'[s].job = j
             /\ \A t \in Slots \ {s} : slot'[t] = slot[t]
  <2> DEFINE t == [IdleSlot EXCEPT !.st = "claimed", !.job = j]
  <2>1. t \in Slot /\ t.st = "claimed" /\ t.job = j
    BY IdleSlotType DEF Slot, IdleSlot
  <2>2. /\ slot' \in [Slots -> Slot] /\ slot'[s] = t
        /\ \A q \in Slots \ {s} : slot'[q] = slot[q]
        /\ \A q \in Slots : slot'[q].st # "idle" => slot'[q].job \in Jobs
    BY <1>6, <2>1, SlotStep
  <2>3. row[j].status = "queued" /\ row[j] \in Job /\ s \in WorkerIds
    BY <1>6, WorkingSlot DEF Claimable, Typed, TypeOK
  <2>4. /\ row' = [row EXCEPT ![j] = Claimed(row[j], s)] /\ row' \in [Jobs -> Job] /\ RowsKept
    <3>1. SameRow(Claimed(row[j], s), row[j])
      BY <2>3, OtherStatements
    <3>2. row' = [row EXCEPT ![j] = Claimed(row[j], s)]
      BY <1>6
    <3>3. row' \in [Jobs -> Job]
      BY <3>1, <3>2 DEF SameRow, Typed, TypeOK
    <3>4. RowsKept
      BY <3>1, <3>2 DEF RowsKept, SameRow, Typed, TypeOK
    <3> QED BY <3>2, <3>3, <3>4
  <2> HIDE DEF t
  <2> QED BY <1>1, <1>3, <1>4, <2>1, <2>2, <2>3, <2>4 DEF Typed, TypeOK, Slot
<1>7. slot[s].st = "idle"
  BY DEF ClaimNext
<1>8. \/ UNCHANGED <<row, slot>>
      \/ \E excl : \E j \in Jobs :
           /\ Claimable(row[j], {}, excl)
           /\ row' = [row EXCEPT ![j] = Claimed(@, s)]
           /\ slot' = [slot EXCEPT ![s] = [IdleSlot EXCEPT !.st = "claimed", !.job = j]]
  BY DEF ClaimNext
<1> QED BY <1>1, <1>3, <1>5, <1>6, <1>7, <1>8

\* A statement on one row that only its worker may change, or that is a
\* SameRow, keeps the table and the rows of others.
LEMMA StatementKept ==
  ASSUME Typed, NEW j \in Jobs, NEW new, SameRow(new, row[j]),
         row' = [row EXCEPT ![j] = new]
  PROVE  row' \in [Jobs -> Job] /\ RowsKept
BY DEF Typed, TypeOK, RowsKept, SameRow

\* A table that did not change keeps its rows.
LEMMA UnchangedKept ==
  ASSUME Typed, UNCHANGED row
  PROVE  row' \in [Jobs -> Job] /\ RowsKept
BY DEF Typed, TypeOK, RowsKept, SameRow

\* The three outcomes of Acquire.
Admits(s) ==
  LET k == row[slot[s].job].kind
      m == Pruned(k) IN
  /\ Cap[k] = 0 \/ Card(k, m) < Cap[k]
  /\ Starts(s, Cap[k] > 0)
  /\ sem' = IF Cap[k] = 0 THEN sem ELSE [m EXCEPT ![HolderOf(s)] = 0]
  /\ loose' = loose \cup (IF Cap[k] = 0 THEN {} ELSE Evicted(m))
  /\ UNCHANGED <<row, faults>>

GivesBack(s) ==
  LET j == slot[s].job
      k == row[j].kind
      m == Pruned(k) IN
  /\ row' = [row EXCEPT ![j] = Requeue(@, s)]
  /\ slot' = [slot EXCEPT ![s] = IdleSlot]
  /\ sem' = m
  /\ loose' = loose \cup Evicted(m)
  /\ UNCHANGED faults

FailsOpen(s) ==
  LET k == row[slot[s].job].kind IN
  /\ Fails
  /\ Starts(s, FALSE)
  /\ loose' = loose \cup {k}
  /\ UNCHANGED <<row, sem>>

\* Acquire is one of its outcomes.
LEMMA AcquireOutcomes ==
  ASSUME NEW s \in Slots, Acquire(s)
  PROVE  /\ slot[s].st = "claimed"
         /\ Admits(s) \/ GivesBack(s) \/ FailsOpen(s)
         /\ UNCHANGED <<periodic, interval, next, up, todo, going, stacked>>
BY DEF Acquire, Admits, GivesBack, FailsOpen

\* A slot that starts its handler keeps its job.
LEMMA StartedSlot ==
  ASSUME Typed, NEW s \in Slots, slot[s].st = "claimed", NEW held \in BOOLEAN, Starts(s, held)
  PROVE  /\ slot' \in [Slots -> Slot] /\ slot'[s].st = "running"
         /\ slot'[s].job = slot[s].job /\ slot'[s].held = held
         /\ \A q \in Slots \ {s} : slot'[q] = slot[q]
         /\ \A q \in Slots : slot'[q].st # "idle" => slot'[q].job \in Jobs
<1> DEFINE t == [[slot[s] EXCEPT !.st = "running"] EXCEPT !.held = held]
<1>1. t \in Slot /\ t.st = "running" /\ t.job = slot[s].job /\ t.held = held
  BY DEF Typed, TypeOK, Slot
<1>2. slot' = [slot EXCEPT ![s] = t]
  BY DEF Starts, Typed, TypeOK
<1>3. t.st # "idle" => t.job \in Jobs
  BY <1>1 DEF Typed
<1> HIDE DEF t
<1> QED BY <1>1, <1>2, <1>3, SlotStep

\* Acquiring keeps the types.
LEMMA AcquireTyped ==
  ASSUME Typed, NEW s \in Slots, Acquire(s)
  PROVE  Typed' /\ RowsKept
<1> DEFINE j == slot[s].job
           k == row[j].kind
<1>1. /\ j \in Jobs /\ row[j] \in Job /\ k \in Kinds /\ HolderOf(s) \in Members
      /\ s \in WorkerIds /\ slot[s].st = "claimed"
  BY AcquireOutcomes, WorkingSlot
<1>2. /\ Pruned(k) \in [Members -> (0 .. SemTTL) \cup {Out}] /\ Evicted(Pruned(k)) \subseteq Kinds
      /\ 0 \in 0 .. SemTTL
  BY PrunedFacts, EvictedType, DispatchAssumption
<1>3. CASE Admits(s)
  <2>1. UNCHANGED row /\ faults' \in 0 .. MaxFaults /\ loose' \subseteq Kinds
    BY <1>2, <1>3 DEF Admits, Typed, TypeOK
  <2>2. sem' \in [Members -> (0 .. SemTTL) \cup {Out}]
    BY <1>1, <1>2, <1>3 DEF Admits, Typed, TypeOK
  <2>3. slot' \in [Slots -> Slot] /\ \A q \in Slots : slot'[q].st # "idle" => slot'[q].job \in Jobs
    <3>1. Starts(s, Cap[k] > 0) /\ (Cap[k] > 0) \in BOOLEAN
      BY <1>3 DEF Admits
    <3> QED BY <1>1, <3>1, StartedSlot
  <2> QED BY <2>1, <2>2, <2>3, UnchangedKept, AcquireOutcomes DEF Typed, TypeOK, Slot
<1>4. CASE GivesBack(s)
  <2>1. row' \in [Jobs -> Job] /\ RowsKept
    <3>1. row' = [row EXCEPT ![j] = Requeue(row[j], s)]
      BY <1>4 DEF GivesBack
    <3>2. SameRow(Requeue(row[j], s), row[j])
      BY <1>1, ExecutorStatements
    <3> QED BY <1>1, <3>1, <3>2, StatementKept
  <2>2. /\ sem' \in [Members -> (0 .. SemTTL) \cup {Out}]
        /\ loose' \subseteq Kinds /\ faults' \in 0 .. MaxFaults
    BY <1>2, <1>4 DEF GivesBack, Typed, TypeOK
  <2>3. slot' \in [Slots -> Slot] /\ \A q \in Slots : slot'[q].st # "idle" => slot'[q].job \in Jobs
    BY <1>4, SlotStep, IdleSlotType DEF GivesBack
  <2> QED BY <2>1, <2>2, <2>3, AcquireOutcomes DEF Typed, TypeOK, Slot
<1>5. CASE FailsOpen(s)
  <2>1. UNCHANGED <<row, sem>> /\ faults' \in 0 .. MaxFaults
    BY <1>5, FailsType DEF FailsOpen
  <2>2. loose' \subseteq Kinds
    BY <1>1, <1>5 DEF FailsOpen, Typed, TypeOK
  <2>3. slot' \in [Slots -> Slot] /\ \A q \in Slots : slot'[q].st # "idle" => slot'[q].job \in Jobs
    BY <1>1, <1>5, StartedSlot DEF FailsOpen
  <2> QED BY <2>1, <2>2, <2>3, UnchangedKept, AcquireOutcomes DEF Typed, TypeOK, Slot
<1> QED BY <1>3, <1>4, <1>5, AcquireOutcomes

\* What the end of a handler leaves: its row by a statement of the executor,
\* its slot idle, and its member released or forgotten.
LEMMA HandlerEnded ==
  ASSUME Typed, NEW s \in Slots, HandlerEnds(s)
  PROVE  /\ Typed' /\ RowsKept /\ slot[s].st = "running" /\ slot'[s].st = "idle"
         /\ \A t \in Slots \ {s} : slot'[t] = slot[t]
         /\ \A j \in Jobs : j # slot[s].job \/ ~Owned(row[j], s) => row'[j] = row[j]
         /\ loose' = loose
         /\ \/ UNCHANGED sem
            \/ slot[s].held /\ sem' = [sem EXCEPT ![HolderOf(s)] = Out]
<1> DEFINE j == slot[s].job
<1>1. /\ slot[s].st = "running" /\ slot' = [slot EXCEPT ![s] = IdleSlot]
      /\ UNCHANGED <<periodic, interval, next, up, todo, going, loose, stacked>>
  BY DEF HandlerEnds
<1>2. /\ j \in Jobs /\ row[j] \in Job /\ HolderOf(s) \in Members /\ s \in WorkerIds
  BY <1>1, WorkingSlot
<1>3. PICK new : /\ row' = [row EXCEPT ![j] = new]
                 /\ new \in {Complete(row[j], s), FailRetry(row[j], s), FailTerminal(row[j], s)}
  BY DEF HandlerEnds
<1>4. SameRow(new, row[j]) /\ (~Owned(row[j], s) => new = row[j])
  BY <1>2, <1>3, ExecutorStatements
<1>5. row' \in [Jobs -> Job] /\ RowsKept
  BY <1>2, <1>3, <1>4, StatementKept
<1>6. \A i \in Jobs : i # slot[s].job \/ ~Owned(row[i], s) => row'[i] = row[i]
  BY <1>2, <1>3, <1>4 DEF Typed, TypeOK
<1>7. /\ slot' \in [Slots -> Slot] /\ slot'[s].st = "idle"
      /\ \A t \in Slots \ {s} : slot'[t] = slot[t]
      /\ \A q \in Slots : slot'[q].st # "idle" => slot'[q].job \in Jobs
  BY <1>1, SlotStep, IdleSlotType
<1>8. UNCHANGED sem \/ (slot[s].held /\ sem' = [sem EXCEPT ![HolderOf(s)] = Out])
  BY DEF HandlerEnds, Released
<1>9. sem' \in [Members -> (0 .. SemTTL) \cup {Out}]
  BY <1>2, <1>8 DEF Typed, TypeOK
<1>10. faults' \in 0 .. MaxFaults
  <2>1. faults' = faults \/ Fails
    BY DEF HandlerEnds
  <2> QED BY <2>1, FailsType DEF Typed, TypeOK
<1> QED BY <1>1, <1>5, <1>6, <1>7, <1>8, <1>9, <1>10 DEF Typed, TypeOK, Slot

\* A pod that stops keeps the table; its slots are idle, those of others as
\* they were, and it takes away no member but those of its own runs.
LEMMA Stopped ==
  ASSUME Typed, NEW p \in Pods, Stop(p)
  PROVE  /\ Typed' /\ UNCHANGED <<row, loose>>
         /\ \A s \in Slots : PodOf[s] = p => slot'[s].st = "idle"
         /\ \A s \in Slots : PodOf[s] # p => slot'[s] = slot[s]
         /\ \A h \in Members : \/ sem'[h] = sem[h]
                               \/ h[1] = p /\ sem'[h] = Out
<1> DEFINE mine == {s \in Slots : PodOf[s] = p}
           freed == {HolderOf(s) : s \in {t \in mine : Busy(t) /\ slot[t].held}}
<1>1. /\ slot' = [s \in Slots |-> IF s \in mine THEN IdleSlot ELSE slot[s]]
      /\ up' = up \ {p}
      /\ todo' = [todo EXCEPT ![p] = {}] /\ going' = [going EXCEPT ![p] = {}]
      /\ UNCHANGED <<row, periodic, interval, next, faults, loose, stacked>>
  BY DEF Stop
<1>2. \/ sem' = [h \in Members |-> IF h \in freed THEN Out ELSE sem[h]]
      \/ UNCHANGED sem
  BY DEF Stop
<1>3. \A h \in freed : h[1] = p
  BY DEF HolderOf
<1> HIDE DEF freed
<1>4. /\ sem' \in [Members -> (0 .. SemTTL) \cup {Out}]
      /\ \A h \in Members : \/ sem'[h] = sem[h]
                            \/ h[1] = p /\ sem'[h] = Out
  BY <1>2, <1>3 DEF Typed, TypeOK
<1>5. /\ slot' \in [Slots -> Slot]
      /\ \A q \in Slots : slot'[q].st # "idle" => slot'[q].job \in Jobs
      /\ \A s \in Slots : PodOf[s] = p => slot'[s].st = "idle"
      /\ \A s \in Slots : PodOf[s] # p => slot'[s] = slot[s]
  BY <1>1, IdleSlotType DEF Typed, TypeOK, Slot
<1>6. todo' \in [Pods -> SUBSET Periodic] /\ going' \in [Pods -> SUBSET Periodic]
  BY <1>1 DEF Typed, TypeOK
<1> QED BY <1>1, <1>4, <1>5, <1>6 DEF Typed, TypeOK, Slot

\* A lease that runs out and a row the reaper takes keep the types.
LEMMA RowTakenTyped ==
  ASSUME Typed, NEW j \in Jobs, LeaseExpires(j) \/ ReapStaleRunning(j)
  PROVE  Typed' /\ RowsKept
<1>0. row[j] \in Job
  BY DEF Typed, TypeOK
<1>1. ASSUME LeaseExpires(j) PROVE Typed' /\ RowsKept
  <2>1. row' = [row EXCEPT ![j] = [row[j] EXCEPT !.stale = TRUE]]
    BY <1>1 DEF LeaseExpires, Typed, TypeOK
  <2>2. SameRow([row[j] EXCEPT !.stale = TRUE], row[j])
    BY <1>0 DEF SameRow, Pending, Job
  <2>3. row' \in [Jobs -> Job] /\ RowsKept
    BY <2>1, <2>2, StatementKept
  <2>4. loose' \subseteq Kinds
    BY <1>1 DEF LeaseExpires, Typed, TypeOK, Job
  <2>5. faults' \in 0 .. MaxFaults
    <3>1. faults' = faults \/ Fails
      BY <1>1 DEF LeaseExpires
    <3> QED BY <3>1, FailsType DEF Typed, TypeOK
  <2> QED BY <1>1, <2>3, <2>4, <2>5 DEF LeaseExpires, Typed, TypeOK
<1>2. ASSUME ReapStaleRunning(j) PROVE Typed' /\ RowsKept
  <2>1. row' = [row EXCEPT ![j] = Reaped(row[j])]
    BY <1>2 DEF ReapStaleRunning
  <2>2. SameRow(Reaped(row[j]), row[j])
    BY <1>0 DEF Reaped, Reapable, SameRow, Pending, Job, Status
  <2>3. row' \in [Jobs -> Job] /\ RowsKept
    BY <2>1, <2>2, StatementKept
  <2> QED BY <1>2, <2>3 DEF ReapStaleRunning, Typed, TypeOK
<1> QED BY <1>1, <1>2

\* A tick ages rows, members and schedules and takes no member away.
LEMMA Ticked ==
  ASSUME Typed, Tick
  PROVE  /\ Typed' /\ RowsKept /\ UNCHANGED <<slot, loose, stacked, todo, going>>
         /\ row' = [j \in Jobs |-> Aged(j)]
         /\ periodic' \subseteq periodic
         /\ \A h \in Members : sem'[h] = Out <=> sem[h] = Out
<1>1. PICK fails \in SUBSET {s \in Slots : slot[s].st = "running" /\ slot[s].held} :
        /\ faults + Cardinality(fails) <= MaxFaults
        /\ faults' = faults + Cardinality(fails)
        /\ sem' = [h \in Members |->
                     CASE sem[h] = Out -> Out
                       [] sem[h] # Out /\ h \in Stamped(fails) -> 0
                       [] OTHER -> IF sem[h] < SemTTL THEN sem[h] + 1 ELSE SemTTL]
  BY DEF Tick
<1>2. /\ next' = [k \in Periodic |-> IF next[k] > 0 THEN next[k] - 1 ELSE 0]
      /\ row' = [j \in Jobs |-> Aged(j)]
      /\ periodic' = {j \in periodic : ~Fresh(j)}
      /\ UNCHANGED <<interval, up, slot, todo, going, loose, stacked>>
  BY DEF Tick
<1>3. faults' \in 0 .. MaxFaults
  <2>1. fails \in SUBSET Slots /\ IsFiniteSet(Slots)
    BY DispatchAssumption
  <2>2. IsFiniteSet(fails)
    BY <2>1, FS_Subset
  <2>3. Cardinality(fails) \in Nat
    BY <2>2, FS_CardinalityType
  <2> QED BY <1>1, <2>3, DispatchAssumption DEF Typed, TypeOK
<1> DEFINE stamped == Stamped(fails)
<1> HIDE DEF stamped
<1>4. /\ sem' \in [Members -> (0 .. SemTTL) \cup {Out}]
      /\ \A h \in Members : sem'[h] = Out <=> sem[h] = Out
  <2>1. \A h \in Members : sem[h] \in (0 .. SemTTL) \cup {Out}
    BY DEF Typed, TypeOK
  <2>2. \A h \in Members : sem'[h] \in IF sem[h] = Out THEN {Out} ELSE 0 .. SemTTL
    <3> SUFFICES ASSUME NEW h \in Members
                 PROVE  sem'[h] \in IF sem[h] = Out THEN {Out} ELSE 0 .. SemTTL
      OBVIOUS
    <3>1. CASE sem[h] = Out
      BY <1>1, <3>1
    <3>2. CASE sem[h] # Out /\ h \in Stamped(fails)
      BY <1>1, <3>2, DispatchAssumption
    <3>3. CASE sem[h] # Out /\ h \notin Stamped(fails)
      <4>1. sem'[h] = IF sem[h] < SemTTL THEN sem[h] + 1 ELSE SemTTL
        BY <1>1, <3>3
      <4> QED BY <2>1, <3>3, <4>1, DispatchAssumption
    <3> QED BY <3>1, <3>2, <3>3
  <2>3. Out \notin 0 .. SemTTL
    BY DEF Out
  <2>4. sem' = [h \in Members |-> sem'[h]]
    BY <1>1
  <2> QED BY <2>2, <2>3, <2>4
<1>5. next' \in [Periodic -> Nat]
  BY <1>2 DEF Typed, TypeOK
<1>6. \A j \in Jobs : Aged(j) \in Job /\ (SameRow(Aged(j), row[j]) \/ Fresh(j))
  <2> SUFFICES ASSUME NEW j \in Jobs
               PROVE  Aged(j) \in Job /\ (SameRow(Aged(j), row[j]) \/ Fresh(j))
    OBVIOUS
  <2>1. row[j] \in Job
    BY DEF Typed, TypeOK
  <2>2. CASE Fresh(j)
    <3>1. Absent(CHOOSE x \in Kinds : TRUE) \in Job
      BY InsertedRow, DispatchAssumption
    <3> QED BY <2>2, <3>1 DEF Aged
  <2>3. CASE ~Fresh(j) /\ row[j].status = "queued"
    <3>1. Aged(j) = [row[j] EXCEPT !.due = TRUE]
      BY <2>3 DEF Aged
    <3>2. SameRow([row[j] EXCEPT !.due = TRUE], row[j])
      BY <2>1 DEF SameRow, Pending, Job
    <3> QED BY <3>1, <3>2 DEF SameRow
  <2>4. CASE ~Fresh(j) /\ row[j].status # "queued"
    BY <2>1, <2>4 DEF Aged, SameRow
  <2> QED BY <2>2, <2>3, <2>4
<1>7. row' \in [Jobs -> Job] /\ RowsKept
  BY <1>2, <1>6 DEF RowsKept
<1> QED BY <1>2, <1>3, <1>4, <1>5, <1>7 DEF Typed, TypeOK

\* Every step keeps the types, and no step changes what a row stands for while
\* something refers to it.
LEMMA StepTyped ==
  ASSUME Typed, [Next]_vars
  PROVE  Typed' /\ RowsKept
<1>1. CASE UNCHANGED vars
  <2>1. RowsKept
    BY <1>1, UnchangedKept DEF vars
  <2> QED BY <1>1, <2>1 DEF vars, Typed, TypeOK
<1>2. CASE \E p \in Pods : Stop(p)
  BY <1>2, Stopped, UnchangedKept
<1>3. CASE \E p \in Pods :
             \/ Boot(p) \/ ClaimDueSchedules(p)
             \/ \E k \in Periodic : CheckPending(p, k) \/ EnqueuePeriodic(p, k)
  BY <1>3, ScheduleTyped
<1>4. CASE \E k \in Kinds : Trigger(k)
  <2>1. CASE Pods # {}
    BY <1>4, <2>1, ScheduleTyped
  <2>2. CASE Pods = {}
    \* Without pods the INSERT is the same step.
    <3>1. PICK k \in Kinds : Trigger(k)
      BY <1>4
    <3>2. PICK j \in Jobs : /\ Fresh(j) /\ row' = [row EXCEPT ![j] = Enqueued(k, 1, TRUE)]
                            /\ periodic' = periodic \ {j}
      BY <3>1 DEF Trigger
    <3>3. Enqueued(k, 1, TRUE) \in Job
      BY InsertedRow
    <3>4. row' \in [Jobs -> Job] /\ RowsKept /\ periodic' \subseteq Jobs
      BY <3>2, <3>3 DEF RowsKept, SameRow, Typed, TypeOK
    <3> QED BY <3>1, <3>4 DEF Trigger, Typed, TypeOK
  <2> QED BY <2>1, <2>2
<1>5. CASE \E s \in Slots : ClaimNext(s)
  BY <1>5, ClaimTyped
<1>6. CASE \E s \in Slots : Acquire(s)
  BY <1>6, AcquireTyped
<1>7. CASE \E s \in Slots : HandlerEnds(s)
  BY <1>7, HandlerEnded
<1>8. CASE \E j \in Jobs : LeaseExpires(j) \/ ReapStaleRunning(j)
  BY <1>8, RowTakenTyped
<1>9. CASE Tick
  BY <1>9, Ticked
<1> QED BY <1>1, <1>2, <1>3, <1>4, <1>5, <1>6, <1>7, <1>8, <1>9 DEF Next

\* The first state is typed.
LEMMA InitTyped == Init => Typed
<1> SUFFICES ASSUME Init PROVE Typed
  OBVIOUS
<1>1. row \in [Jobs -> Job]
  <2>1. PICK k \in Kinds : TRUE
    BY DispatchAssumption
  <2>2. Absent(CHOOSE x \in Kinds : TRUE) \in Job
    BY InsertedRow, DispatchAssumption
  <2> QED BY <2>2 DEF Init
<1>2. sem \in [Members -> (0 .. SemTTL) \cup {Out}]
  BY DEF Init
<1>3. slot \in [Slots -> Slot] /\ \A s \in Slots : slot[s].st = "idle"
  BY IdleSlotType DEF Init
<1>4. /\ interval \in [Periodic -> Nat] /\ next \in [Periodic -> Nat]
      /\ todo \in [Pods -> SUBSET Periodic] /\ going \in [Pods -> SUBSET Periodic]
  BY DEF Init
<1>5. /\ periodic \subseteq Jobs /\ up \subseteq Pods /\ faults \in 0 .. MaxFaults
      /\ loose \subseteq Kinds /\ stacked \subseteq Periodic
  <2>1. periodic = {} /\ up = {} /\ loose = {} /\ stacked = {} /\ faults = 0
    BY DEF Init
  <2>2. MaxFaults \in Nat
    BY DispatchAssumption
  <2> QED BY <2>1, <2>2
<1>6. TypeOK
  BY <1>1, <1>2, <1>3, <1>4, <1>5 DEF TypeOK, Slot
<1> QED BY <1>3, <1>6 DEF Typed

\* Rows, members, slots, schedules and the counter of failures keep their
\* types, and a slot that works has a job.
THEOREM DispatchTypes == Spec => []TypeOK
<1>1. Typed /\ [Next]_vars => Typed'
  BY StepTyped
<1>2. Typed => TypeOK
  BY DEF Typed
<1> QED BY InitTyped, <1>1, <1>2, PTL DEF Spec

-----------------------------------------------------------------------------
(* The cap.                                                                *)

KindOf(s) == row[slot[s].job].kind

\* The row of a claimed job is locked by its slot and its lease is fresh.
Leased(s) ==
  slot[s].st # "idle" /\ KindOf(s) \notin loose =>
    Owned(row[slot[s].job], s) /\ ~row[slot[s].job].stale

\* The run of a capped kind has its member.
Holding(s) ==
  Busy(s) /\ KindOf(s) \notin loose /\ Cap[KindOf(s)] > 0 =>
    slot[s].held /\ sem[HolderOf(s)] # Out

\* A semaphore is never fuller than its cap.
WithinCap(k) == Cap[k] > 0 => Card(k, sem) <= Cap[k]

Accounted ==
  /\ \A s \in Slots : Leased(s) /\ Holding(s)
  /\ \A k \in Kinds : WithinCap(k)

MembersOf(k, m) == {h \in Members : m[h] # Out /\ row[h[2]].kind = k}

\* The members of a kind are finitely many.
LEMMA MembersFinite ==
  ASSUME NEW k, NEW m
  PROVE  /\ IsFiniteSet(MembersOf(k, m)) /\ Card(k, m) = Cardinality(MembersOf(k, m))
         /\ Card(k, m) \in Nat
<1>1. IsFiniteSet(Members)
  BY FS_Product, DispatchAssumption DEF Members
<1>2. MembersOf(k, m) \in SUBSET Members
  BY DEF MembersOf
<1>3. IsFiniteSet(MembersOf(k, m))
  BY <1>1, <1>2, FS_Subset
<1>4. Card(k, m) = Cardinality(MembersOf(k, m))
  BY DEF Card, MembersOf
<1> QED BY <1>3, <1>4, FS_CardinalityType

\* A semaphore from which members only go away has no more than before.
LEMMA FewerMembers ==
  ASSUME NEW k, NEW m, NEW n, \A h \in Members : m[h] # Out => n[h] # Out
  PROVE  Card(k, m) <= Card(k, n)
<1>1. MembersOf(k, m) \in SUBSET MembersOf(k, n)
  BY DEF MembersOf
<1> QED BY <1>1, MembersFinite, FS_Subset

\* A step that adds no member keeps every semaphore within its cap: a row
\* whose kind changes is of an id without members.
LEMMA CapKept ==
  ASSUME Typed, RowsKept, NEW k \in Kinds, WithinCap(k),
         \A h \in Members : sem'[h] # Out => sem[h] # Out
  PROVE  WithinCap(k)'
<1>1. \A h \in Members : sem'[h] # Out => row'[h[2]].kind = row[h[2]].kind
  <2> SUFFICES ASSUME NEW h \in Members, sem'[h] # Out
               PROVE  row'[h[2]].kind = row[h[2]].kind
    OBVIOUS
  <2>1. sem[h] # Out /\ h = <<h[1], h[2]>> /\ h[1] \in Pods /\ h[2] \in Jobs
    BY DEF Members
  <2>2. ~Fresh(h[2])
    BY <2>1 DEF Fresh
  <2> QED BY <2>1, <2>2 DEF RowsKept, SameRow
<1>2. MembersOf(k, sem)' \in SUBSET MembersOf(k, sem)
  BY <1>1 DEF MembersOf, Members
<1>3. IsFiniteSet(MembersOf(k, sem)) /\ Card(k, sem) = Cardinality(MembersOf(k, sem))
  BY MembersFinite
<1>4. Card(k, sem)' = Cardinality(MembersOf(k, sem)')
  BY DEF Card, MembersOf, Members
<1>5. Card(k, sem)' <= Card(k, sem)
  BY <1>2, <1>3, <1>4, FS_Subset
<1>6. Card(k, sem) \in Nat /\ Card(k, sem)' \in Nat /\ Cap[k] \in Nat
  <2>1. IsFiniteSet(MembersOf(k, sem)')
    BY <1>2, <1>3, FS_Subset
  <2> QED BY <1>4, <2>1, MembersFinite, FS_CardinalityType, DispatchAssumption
<1> QED BY <1>5, <1>6 DEF WithinCap

\* A slot that does not move refers to an id that is in use, so its kind stays.
LEMMA KindStays ==
  ASSUME Typed, RowsKept, NEW s \in Slots, slot[s].st # "idle", slot'[s].job = slot[s].job
  PROVE  /\ KindOf(s)' = KindOf(s) /\ KindOf(s) \in Kinds /\ HolderOf(s)' = HolderOf(s)
         /\ HolderOf(s) \in Members /\ slot[s].job \in Jobs /\ ~Fresh(slot[s].job)
<1>1. slot[s].job \in Jobs /\ KindOf(s) \in Kinds /\ HolderOf(s) \in Members
  BY WorkingSlot DEF KindOf
<1>2. ~Fresh(slot[s].job)
  BY DEF Fresh
<1> QED BY <1>1, <1>2 DEF RowsKept, SameRow, KindOf, HolderOf

\* A slot that does not move keeps its lease when its row stays as it is.
LEMMA LeaseKept ==
  ASSUME Typed, RowsKept, NEW s \in Slots, Leased(s), slot'[s] = slot[s],
         loose \subseteq loose',
         \/ row'[slot[s].job] = row[slot[s].job]
         \/ slot[s].st = "idle" \/ KindOf(s) \in loose'
  PROVE  Leased(s)'
<1>1. CASE slot[s].st = "idle"
  BY <1>1 DEF Leased
<1>2. CASE slot[s].st # "idle"
  BY <1>2, KindStays DEF Leased
<1> QED BY <1>1, <1>2

\* A slot that does not move keeps its member unless its kind becomes loose.
LEMMA HoldingKept ==
  ASSUME Typed, RowsKept, NEW s \in Slots, Holding(s), slot'[s] = slot[s],
         loose \subseteq loose',
         \/ sem[HolderOf(s)] # Out => sem'[HolderOf(s)] # Out
         \/ KindOf(s) \in loose'
  PROVE  Holding(s)'
<1>1. CASE slot[s].st = "running"
  BY <1>1, KindStays DEF Holding, Busy, HolderOf
<1>2. CASE slot[s].st # "running"
  BY <1>2 DEF Holding, Busy
<1> QED BY <1>1, <1>2

\* A run whose member a prune takes away is of a kind that becomes loose.
LEMMA PruneIsSeen ==
  ASSUME NEW s \in Slots, Holding(s), Busy(s), NEW m, loose' = loose \cup Evicted(m),
         Cap[KindOf(s)] > 0, m[HolderOf(s)] = Out
  PROVE  KindOf(s) \in loose'
BY DEF Holding, Evicted, KindOf

\* One job is never the job of two slots, as long as its kind is not loose.
LEMMA OneSlotPerJob ==
  ASSUME NEW s \in Slots, NEW t \in Slots, Leased(s), Leased(t),
         slot[s].st # "idle", slot[t].st # "idle", slot[s].job = slot[t].job,
         KindOf(s) \notin loose
  PROVE  s = t
BY DEF Leased, KindOf, Owned

\* A slot that does not move keeps its member through a prune, or its kind
\* becomes loose.
LEMMA PruneKept ==
  ASSUME Typed, RowsKept, NEW s \in Slots, Holding(s), slot'[s] = slot[s],
         NEW m, loose' = loose \cup Evicted(m),
         m[HolderOf(s)] # Out => sem'[HolderOf(s)] # Out
  PROVE  Holding(s)'
<1>1. CASE Busy(s) /\ Cap[KindOf(s)] > 0 /\ m[HolderOf(s)] = Out
  <2>1. KindOf(s) \in loose'
    BY <1>1, PruneIsSeen
  <2> QED BY <2>1, HoldingKept
<1>2. CASE Busy(s) /\ Cap[KindOf(s)] > 0 /\ m[HolderOf(s)] # Out
  BY <1>2, HoldingKept
<1>3. CASE Busy(s) /\ ~(Cap[KindOf(s)] > 0)
  <2>1. slot[s].st # "idle" /\ slot'[s].job = slot[s].job
    BY <1>3 DEF Busy
  <2>2. KindOf(s)' = KindOf(s)
    BY <2>1, KindStays
  <2> QED BY <1>3, <2>2 DEF Holding
<1>4. CASE ~Busy(s)
  BY <1>4 DEF Holding, Busy
<1> QED BY <1>1, <1>2, <1>3, <1>4

\* Steps that touch no slot and no member keep the account when the rows they
\* change are nobody's, or of kinds that become loose.
LEMMA QuietKept ==
  ASSUME Typed, RowsKept, Accounted, UNCHANGED slot, loose \subseteq loose',
         \A h \in Members : sem'[h] = Out <=> sem[h] = Out,
         \A s \in Slots : \/ row'[slot[s].job] = row[slot[s].job]
                          \/ slot[s].st = "idle" \/ KindOf(s) \in loose'
  PROVE  Accounted'
<1>1. ASSUME NEW s \in Slots PROVE Leased(s)' /\ Holding(s)'
  <2>1. Leased(s) /\ Holding(s) /\ slot'[s] = slot[s]
    BY DEF Accounted
  <2>2. Leased(s)'
    BY <2>1, LeaseKept
  <2>3. CASE slot[s].st # "idle"
    <3>1. HolderOf(s) \in Members
      BY <2>3, WorkingSlot
    <3> QED BY <2>1, <3>1, HoldingKept, <2>2
  <2>4. CASE slot[s].st = "idle"
    BY <2>1, <2>2, <2>4 DEF Holding, Busy
  <2> QED BY <2>3, <2>4
<1>2. ASSUME NEW k \in Kinds PROVE WithinCap(k)'
  BY CapKept DEF Accounted
<1> QED BY <1>1, <1>2 DEF Accounted

\* The rows a scheduler, an admin, the reaper or a tick changes.
LEMMA QuietSteps ==
  ASSUME Typed, RowsKept, Accounted,
         \/ UNCHANGED vars
         \/ \E p \in Pods : Boot(p) \/ ClaimDueSchedules(p)
         \/ \E p \in Pods, k \in Periodic : CheckPending(p, k) \/ EnqueuePeriodic(p, k)
         \/ \E k \in Kinds : Trigger(k)
         \/ \E j \in Jobs : LeaseExpires(j) \/ ReapStaleRunning(j)
         \/ Tick
  PROVE  Accounted'
<1>1. ASSUME UNCHANGED <<slot, sem>>, loose \subseteq loose',
             \A s \in Slots : \/ row'[slot[s].job] = row[slot[s].job]
                              \/ slot[s].st = "idle" \/ KindOf(s) \in loose'
      PROVE  Accounted'
  BY <1>1, QuietKept
<1>2. ASSUME UNCHANGED <<slot, sem, loose>>, NEW j \in Jobs, Fresh(j), NEW new,
             row' = [row EXCEPT ![j] = new]
      PROVE  Accounted'
  <2>1. \A s \in Slots : row'[slot[s].job] = row[slot[s].job]
    BY <1>2 DEF Fresh, Typed, TypeOK
  <2> QED BY <1>1, <1>2, <2>1
<1>3. CASE UNCHANGED vars
  BY <1>1, <1>3 DEF vars
<1>4. CASE \E p \in Pods : Boot(p) \/ ClaimDueSchedules(p)
  BY <1>1, <1>4 DEF Boot, ClaimDueSchedules
<1>5. CASE \E p \in Pods, k \in Periodic : CheckPending(p, k)
  BY <1>1, <1>5 DEF CheckPending
<1>6. CASE \E p \in Pods, k \in Periodic : EnqueuePeriodic(p, k)
  BY <1>1, <1>2, <1>6 DEF EnqueuePeriodic
<1>7. CASE \E k \in Kinds : Trigger(k)
  BY <1>2, <1>7 DEF Trigger
<1>8. ASSUME NEW j \in Jobs, LeaseExpires(j) PROVE Accounted'
  <2>1. \A s \in Slots : \/ row'[slot[s].job] = row[slot[s].job]
                         \/ slot[s].st = "idle" \/ KindOf(s) \in loose'
    <3> SUFFICES ASSUME NEW s \in Slots, slot[s].st # "idle", slot[s].job = j,
                        KindOf(s) \notin loose
                 PROVE  KindOf(s) \in loose'
      BY <1>8 DEF LeaseExpires, Typed, TypeOK
    <3>1. s \in RunBy(j)
      BY DEF RunBy, Accounted, Leased, Owned
    <3> QED BY <1>8, <3>1 DEF LeaseExpires, KindOf
  <2> QED BY <1>1, <1>8, <2>1 DEF LeaseExpires
<1>9. ASSUME NEW j \in Jobs, ReapStaleRunning(j) PROVE Accounted'
  <2>1. \A s \in Slots : \/ row'[slot[s].job] = row[slot[s].job]
                         \/ slot[s].st = "idle" \/ KindOf(s) \in loose'
    BY <1>9 DEF ReapStaleRunning, Reapable, Accounted, Leased, Typed, TypeOK, KindOf
  <2> QED BY <1>1, <1>9, <2>1 DEF ReapStaleRunning
<1>10. CASE Tick
  <2>1. /\ UNCHANGED <<slot, loose>> /\ row' = [j \in Jobs |-> Aged(j)]
        /\ \A h \in Members : sem'[h] = Out <=> sem[h] = Out
    BY <1>10, Ticked
  <2>2. \A s \in Slots : \/ row'[slot[s].job] = row[slot[s].job]
                         \/ slot[s].st = "idle" \/ KindOf(s) \in loose'
    <3> SUFFICES ASSUME NEW s \in Slots, slot[s].st # "idle", KindOf(s) \notin loose
                 PROVE  row'[slot[s].job] = row[slot[s].job]
      BY <2>1
    <3>1. slot[s].job \in Jobs /\ ~Fresh(slot[s].job)
      BY WorkingSlot DEF Fresh
    <3>2. row[slot[s].job].status = "running"
      BY DEF Accounted, Leased, Owned
    <3> QED BY <2>1, <3>1, <3>2 DEF Aged
  <2> QED BY <2>1, <2>2, QuietKept
<1> QED BY <1>3, <1>4, <1>5, <1>6, <1>7, <1>8, <1>9, <1>10

\* A claim takes a queued row, which is nobody's, and its prunes are seen.
LEMMA ClaimAccounted ==
  ASSUME Typed, RowsKept, Accounted, NEW s \in Slots, ClaimNext(s)
  PROVE  Accounted'
<1>1. /\ \A h \in Members : sem'[h] # Out => sem'[h] = sem[h]
      /\ loose' = loose \cup Evicted(sem')
  BY ClaimTyped
<1>2. \A k \in Kinds : WithinCap(k)'
  BY <1>1, CapKept DEF Accounted
<1>3. ASSUME NEW t \in Slots, slot'[t] = slot[t],
             row'[slot[t].job] = row[slot[t].job] \/ slot[t].st = "idle" \/ KindOf(t) \in loose
      PROVE  Leased(t)' /\ Holding(t)'
  <2>1. Leased(t) /\ Holding(t)
    BY DEF Accounted
  <2>2. Leased(t)'
    BY <1>1, <1>3, <2>1, LeaseKept
  <2>3. Holding(t)'
    BY <1>1, <1>3, <2>1, PruneKept
  <2> QED BY <2>2, <2>3
<1>4. CASE UNCHANGED <<row, slot>>
  BY <1>2, <1>3, <1>4 DEF Accounted
<1>5. CASE \E j \in Jobs : /\ row[j].status = "queued" /\ slot[s].st = "idle"
                           /\ row' = [row EXCEPT ![j] = Claimed(row[j], s)]
                           /\ slot'[s].st = "claimed" /\ slot'[s].job = j
                           /\ \A t \in Slots \ {s} : slot'[t] = slot[t]
  <2>1. PICK j \in Jobs : /\ row[j].status = "queued" /\ slot[s].st = "idle"
                          /\ row' = [row EXCEPT ![j] = Claimed(row[j], s)]
                          /\ slot'[s].st = "claimed" /\ slot'[s].job = j
                          /\ \A t \in Slots \ {s} : slot'[t] = slot[t]
    BY <1>5
  <2>2. row[j] \in Job /\ s \in WorkerIds
    BY WorkingSlot DEF Typed, TypeOK
  <2>3. Owned(Claimed(row[j], s), s) /\ ~Claimed(row[j], s).stale
    BY <2>1, <2>2, OtherStatements
  <2>4. row'[slot'[s].job] = Claimed(row[j], s)
    BY <2>1 DEF Typed, TypeOK
  <2>5. Leased(s)' /\ Holding(s)'
    BY <2>1, <2>3, <2>4 DEF Leased, Holding, Busy
  <2>6. ASSUME NEW t \in Slots \ {s} PROVE Leased(t)' /\ Holding(t)'
    <3>1. row'[slot[t].job] = row[slot[t].job] \/ slot[t].st = "idle" \/ KindOf(t) \in loose
      <4> SUFFICES ASSUME slot[t].st # "idle", KindOf(t) \notin loose
                   PROVE  row'[slot[t].job] = row[slot[t].job]
        OBVIOUS
      <4>1. row[slot[t].job].status = "running"
        BY DEF Accounted, Leased, Owned
      <4>2. slot[t].job # j
        BY <2>1, <4>1
      <4> QED BY <2>1, <4>2 DEF Typed, TypeOK
    <3> QED BY <1>3, <2>1, <3>1
  <2> QED BY <1>2, <2>5, <2>6 DEF Accounted
<1> QED BY <1>4, <1>5, ClaimTyped

\* One more member is admitted only below the cap, and in no other semaphore.
LEMMA AdmittedWithinCap ==
  ASSUME Typed, NEW s \in Slots, slot[s].st = "claimed", NEW m \in [Members -> (0 .. SemTTL) \cup {Out}],
         \A h \in Members : m[h] # Out => sem[h] # Out,
         UNCHANGED row, sem' = [m EXCEPT ![HolderOf(s)] = 0],
         Card(KindOf(s), m) < Cap[KindOf(s)], NEW k \in Kinds, WithinCap(k)
  PROVE  WithinCap(k)'
<1>1. HolderOf(s) \in Members /\ row[HolderOf(s)[2]].kind = KindOf(s) /\ KindOf(s) \in Kinds
  BY WorkingSlot DEF HolderOf, KindOf
<1>2. Card(k, sem)' = Card(k, sem')
  BY DEF Card, Members
<1>3. CASE k = KindOf(s)
  <2>1. MembersOf(k, sem') \in SUBSET (MembersOf(k, m) \cup {HolderOf(s)})
    BY <1>1 DEF MembersOf
  <2>2. /\ IsFiniteSet(MembersOf(k, m)) /\ Card(k, m) = Cardinality(MembersOf(k, m))
        /\ Card(k, m) \in Nat
    BY MembersFinite
  <2>3. /\ IsFiniteSet(MembersOf(k, m) \cup {HolderOf(s)})
        /\ Cardinality(MembersOf(k, m) \cup {HolderOf(s)}) <= Card(k, m) + 1
    BY <2>2, FS_AddElement
  <2>4. /\ Cardinality(MembersOf(k, sem')) <= Cardinality(MembersOf(k, m) \cup {HolderOf(s)})
    BY <2>1, <2>3, FS_Subset
  <2>5. Card(k, sem') = Cardinality(MembersOf(k, sem')) /\ Card(k, sem') \in Nat
    BY MembersFinite
  <2>6. Cardinality(MembersOf(k, m) \cup {HolderOf(s)}) \in Nat
    BY <2>3, FS_CardinalityType
  <2>7. Cap[k] \in Nat /\ Card(k, m) < Cap[k]
    BY <1>3, DispatchAssumption
  <2> QED BY <1>2, <2>2, <2>3, <2>4, <2>5, <2>6, <2>7 DEF WithinCap
<1>4. CASE k # KindOf(s)
  <2>1. MembersOf(k, sem') \in SUBSET MembersOf(k, sem)
    BY <1>1, <1>4 DEF MembersOf
  <2>2. /\ IsFiniteSet(MembersOf(k, sem)) /\ Card(k, sem) = Cardinality(MembersOf(k, sem))
        /\ Card(k, sem) \in Nat
    BY MembersFinite
  <2>3. Cardinality(MembersOf(k, sem')) <= Cardinality(MembersOf(k, sem))
    BY <2>1, <2>2, FS_Subset
  <2>4. Card(k, sem') = Cardinality(MembersOf(k, sem')) /\ Card(k, sem') \in Nat
    BY MembersFinite
  <2>5. Card(k, sem') <= Card(k, sem) /\ Cap[k] \in Nat
    BY <2>2, <2>3, <2>4, DispatchAssumption
  <2> QED BY <1>2, <2>2, <2>4, <2>5 DEF WithinCap
<1> QED BY <1>3, <1>4

\* Acquire: a run that is admitted has its member, a row that is given back is
\* nobody's any more, and a run that fails open makes its kind loose.
LEMMA AcquireAccounted ==
  ASSUME Typed, RowsKept, Accounted, NEW s \in Slots, Acquire(s)
  PROVE  Accounted'
<1> DEFINE j == slot[s].job
           k == KindOf(s)
           m == Pruned(k)
<1>1. /\ slot[s].st = "claimed" /\ j \in Jobs /\ row[j] \in Job /\ k \in Kinds
      /\ HolderOf(s) \in Members /\ s \in WorkerIds
  BY AcquireOutcomes, WorkingSlot DEF KindOf
<1>2. /\ m \in [Members -> (0 .. SemTTL) \cup {Out}]
      /\ \A h \in Members : m[h] # Out => sem[h] # Out
  BY PrunedFacts
<1>3. \A t \in Slots : Leased(t) /\ Holding(t)
  BY DEF Accounted
<1> HIDE DEF m
<1>4. CASE Admits(s)
  <2>1. /\ UNCHANGED row /\ Starts(s, Cap[k] > 0)
        /\ loose \subseteq loose'
        /\ Cap[k] = 0 \/ Card(k, m) < Cap[k]
        /\ sem' = IF Cap[k] = 0 THEN sem ELSE [m EXCEPT ![HolderOf(s)] = 0]
        /\ loose' = loose \cup (IF Cap[k] = 0 THEN {} ELSE Evicted(m))
    BY <1>4 DEF Admits, KindOf, m
  <2>2. /\ slot'[s].st = "running" /\ slot'[s].job = j /\ slot'[s].held = (Cap[k] > 0)
        /\ \A q \in Slots \ {s} : slot'[q] = slot[q]
    <3>1. (Cap[k] > 0) \in BOOLEAN
      OBVIOUS
    <3> QED BY <1>1, <2>1, <3>1, StartedSlot
  <2>3. KindOf(s)' = k /\ HolderOf(s)' = HolderOf(s)
    BY <2>1, <2>2 DEF KindOf, HolderOf
  <2>4. Leased(s)'
    BY <1>1, <1>3, <2>1, <2>2, <2>3 DEF Leased
  <2>5. Holding(s)'
    <3> SUFFICES ASSUME Cap[k] > 0 PROVE slot'[s].held /\ sem'[HolderOf(s)] # Out
      BY <2>3 DEF Holding
    <3>1. sem' = [m EXCEPT ![HolderOf(s)] = 0]
      BY <1>1, <2>1, DispatchAssumption
    <3>2. sem'[HolderOf(s)] # Out
      BY <1>1, <1>2, <3>1 DEF Out
    <3>3. slot'[s].held
      BY <2>2
    <3> QED BY <3>2, <3>3
  <2>6. ASSUME NEW t \in Slots \ {s} PROVE Leased(t)' /\ Holding(t)'
    <3>1. slot'[t] = slot[t] /\ Leased(t) /\ Holding(t) /\ row'[slot[t].job] = row[slot[t].job]
      BY <1>3, <2>1, <2>2
    <3>2. Leased(t)'
      BY <2>1, <3>1, LeaseKept
    <3>3. CASE Cap[k] = 0
      BY <2>1, <3>1, <3>2, <3>3, HoldingKept
    <3>4. CASE Cap[k] # 0
      <4>1. loose' = loose \cup Evicted(m) /\ sem' = [m EXCEPT ![HolderOf(s)] = 0]
        BY <2>1, <3>4
      <4>2. CASE slot[t].st = "idle"
        BY <3>1, <3>2, <4>2 DEF Holding, Busy
      <4>3. CASE slot[t].st # "idle"
        <5>1. HolderOf(t) \in Members
          BY <4>3, WorkingSlot
        <5>2. m[HolderOf(t)] # Out => sem'[HolderOf(t)] # Out
          BY <1>1, <1>2, <4>1, <5>1 DEF Out
        <5> QED BY <3>1, <3>2, <4>1, <5>2, PruneKept
      <4> QED BY <3>2, <4>2, <4>3
    <3> QED BY <3>2, <3>3, <3>4
  <2>7. ASSUME NEW k2 \in Kinds PROVE WithinCap(k2)'
    <3>1. WithinCap(k2)
      BY DEF Accounted
    <3>2. CASE Cap[k] = 0
      BY <2>1, <3>1, <3>2, CapKept
    <3>3. CASE Cap[k] # 0
      <4>1. Card(k, m) < Cap[k] /\ sem' = [m EXCEPT ![HolderOf(s)] = 0]
        BY <2>1, <3>3
      <4> QED BY <1>1, <1>2, <2>1, <3>1, <4>1, AdmittedWithinCap
    <3> QED BY <3>2, <3>3
  <2> QED BY <2>4, <2>5, <2>6, <2>7 DEF Accounted
<1>5. CASE GivesBack(s)
  <2>1. /\ row' = [row EXCEPT ![j] = Requeue(row[j], s)]
        /\ slot' = [slot EXCEPT ![s] = IdleSlot]
        /\ sem' = m /\ loose' = loose \cup Evicted(m)
    BY <1>5 DEF GivesBack, KindOf, m
  <2>2. /\ slot'[s].st = "idle" /\ \A q \in Slots \ {s} : slot'[q] = slot[q]
    BY <2>1, IdleSlotType, SlotStep
  <2>3. Leased(s)' /\ Holding(s)'
    BY <2>2 DEF Leased, Holding, Busy
  <2>4. ASSUME NEW t \in Slots \ {s} PROVE Leased(t)' /\ Holding(t)'
    <3>1. slot'[t] = slot[t] /\ Leased(t) /\ Holding(t) /\ Leased(s)
      BY <1>3, <2>2
    <3>2. row'[slot[t].job] = row[slot[t].job] \/ slot[t].st = "idle" \/ KindOf(t) \in loose'
      <4> SUFFICES ASSUME slot[t].st # "idle", KindOf(t) \notin loose
                   PROVE  row'[slot[t].job] = row[slot[t].job]
        BY <2>1
      <4>1. slot[t].job # j
        BY <1>1, <3>1, OneSlotPerJob
      <4> QED BY <2>1, <4>1 DEF Typed, TypeOK
    <3>3. Leased(t)'
      BY <2>1, <3>1, <3>2, LeaseKept
    <3>4. Holding(t)'
      BY <2>1, <3>1, PruneKept
    <3> QED BY <3>3, <3>4
  <2>5. \A k2 \in Kinds : WithinCap(k2)'
    BY <1>2, <2>1, CapKept DEF Accounted
  <2> QED BY <2>3, <2>4, <2>5 DEF Accounted
<1>6. CASE FailsOpen(s)
  <2>1. /\ UNCHANGED <<row, sem>> /\ Starts(s, FALSE) /\ loose' = loose \cup {k}
    BY <1>6 DEF FailsOpen, KindOf
  <2>2. /\ slot'[s].st = "running" /\ slot'[s].job = j
        /\ \A q \in Slots \ {s} : slot'[q] = slot[q]
    BY <1>1, <2>1, StartedSlot
  <2>3. KindOf(s)' \in loose'
    BY <2>1, <2>2 DEF KindOf
  <2>4. Leased(s)' /\ Holding(s)'
    BY <2>3 DEF Leased, Holding
  <2>5. ASSUME NEW t \in Slots \ {s} PROVE Leased(t)' /\ Holding(t)'
    <3>1. /\ slot'[t] = slot[t] /\ Leased(t) /\ Holding(t) /\ loose \subseteq loose'
          /\ row'[slot[t].job] = row[slot[t].job] /\ sem' = sem
      BY <1>3, <2>1, <2>2
    <3>2. Leased(t)'
      BY <3>1, LeaseKept
    <3>3. Holding(t)'
      BY <3>1, HoldingKept
    <3> QED BY <3>2, <3>3
  <2>6. \A k2 \in Kinds : WithinCap(k2)'
    BY <2>1, CapKept DEF Accounted
  <2> QED BY <2>4, <2>5, <2>6 DEF Accounted
<1> QED BY <1>4, <1>5, <1>6, AcquireOutcomes

\* A handler that ends writes its own row and takes away its own member.
LEMMA HandlerAccounted ==
  ASSUME Typed, RowsKept, Accounted, NEW s \in Slots, HandlerEnds(s)
  PROVE  Accounted'
<1>1. /\ slot[s].st = "running" /\ slot'[s].st = "idle"
      /\ \A t \in Slots \ {s} : slot'[t] = slot[t]
      /\ \A j \in Jobs : j # slot[s].job \/ ~Owned(row[j], s) => row'[j] = row[j]
      /\ loose' = loose
      /\ \/ UNCHANGED sem
         \/ slot[s].held /\ sem' = [sem EXCEPT ![HolderOf(s)] = Out]
  BY HandlerEnded
<1>2. Leased(s)' /\ Holding(s)'
  BY <1>1 DEF Leased, Holding, Busy
<1>3. ASSUME NEW t \in Slots \ {s} PROVE Leased(t)' /\ Holding(t)'
  <2>1. slot'[t] = slot[t] /\ Leased(t) /\ Holding(t) /\ Leased(s)
    BY <1>1 DEF Accounted
  <2>2. CASE slot[t].st = "idle" \/ KindOf(t) \in loose
    <3>1. Leased(t)'
      BY <1>1, <2>1, <2>2, LeaseKept
    <3>2. CASE slot[t].st = "idle"
      BY <2>1, <3>1, <3>2 DEF Holding, Busy
    <3>3. CASE KindOf(t) \in loose
      BY <1>1, <2>1, <3>1, <3>3, HoldingKept
    <3> QED BY <2>2, <3>2, <3>3
  <2>3. CASE slot[t].st # "idle" /\ KindOf(t) \notin loose
    <3>1. slot[t].job # slot[s].job
      BY <1>1, <2>1, <2>3, OneSlotPerJob
    <3>2. slot[t].job \in Jobs /\ HolderOf(t) \in Members /\ HolderOf(s) # HolderOf(t)
      BY <2>3, <3>1, WorkingSlot DEF HolderOf
    <3>3. row'[slot[t].job] = row[slot[t].job] /\ sem'[HolderOf(t)] = sem[HolderOf(t)]
      BY <1>1, <3>1, <3>2 DEF Typed, TypeOK
    <3>4. Leased(t)'
      BY <1>1, <2>1, <3>3, LeaseKept
    <3>5. Holding(t)'
      BY <1>1, <2>1, <3>3, HoldingKept
    <3> QED BY <3>4, <3>5
  <2> QED BY <2>2, <2>3
<1>4. ASSUME NEW k \in Kinds PROVE WithinCap(k)'
  <2>1. \A h \in Members : sem'[h] # Out => sem[h] # Out
    BY <1>1 DEF Typed, TypeOK
  <2> QED BY <2>1, CapKept DEF Accounted
<1> QED BY <1>2, <1>3, <1>4 DEF Accounted

\* A pod that stops takes away its own members, with its own runs.
LEMMA StopAccounted ==
  ASSUME Typed, RowsKept, Accounted, NEW p \in Pods, Stop(p)
  PROVE  Accounted'
<1>1. /\ UNCHANGED <<row, loose>>
      /\ \A s \in Slots : PodOf[s] = p => slot'[s].st = "idle"
      /\ \A s \in Slots : PodOf[s] # p => slot'[s] = slot[s]
      /\ \A h \in Members : \/ sem'[h] = sem[h]
                            \/ h[1] = p /\ sem'[h] = Out
  BY Stopped
<1>2. ASSUME NEW s \in Slots, PodOf[s] = p PROVE Leased(s)' /\ Holding(s)'
  BY <1>1, <1>2 DEF Leased, Holding, Busy
<1>3. ASSUME NEW s \in Slots, PodOf[s] # p PROVE Leased(s)' /\ Holding(s)'
  <2>1. /\ slot'[s] = slot[s] /\ Leased(s) /\ Holding(s) /\ row'[slot[s].job] = row[slot[s].job]
        /\ loose \subseteq loose'
    BY <1>1, <1>3 DEF Accounted
  <2>2. Leased(s)'
    BY <2>1, LeaseKept
  <2>3. CASE slot[s].st = "idle"
    BY <2>1, <2>2, <2>3 DEF Holding, Busy
  <2>4. CASE slot[s].st # "idle"
    <3>1. HolderOf(s) \in Members /\ HolderOf(s)[1] # p
      BY <1>3, <2>4, WorkingSlot DEF HolderOf
    <3>2. sem'[HolderOf(s)] = sem[HolderOf(s)]
      BY <1>1, <3>1
    <3> QED BY <2>1, <2>2, <3>2, HoldingKept
  <2> QED BY <2>3, <2>4
<1>4. ASSUME NEW k \in Kinds PROVE WithinCap(k)'
  <2>1. \A h \in Members : sem'[h] # Out => sem[h] # Out
    BY <1>1
  <2> QED BY <2>1, CapKept DEF Accounted
<1> QED BY <1>2, <1>3, <1>4 DEF Accounted

\* Every step keeps the account.
LEMMA StepAccounted ==
  ASSUME Typed, Accounted, [Next]_vars
  PROVE  Accounted'
<1>1. RowsKept
  BY StepTyped
<1>2. CASE \E p \in Pods : Stop(p)
  BY <1>1, <1>2, StopAccounted
<1>3. CASE \E s \in Slots : ClaimNext(s)
  BY <1>1, <1>3, ClaimAccounted
<1>4. CASE \E s \in Slots : Acquire(s)
  BY <1>1, <1>4, AcquireAccounted
<1>5. CASE \E s \in Slots : HandlerEnds(s)
  BY <1>1, <1>5, HandlerAccounted
<1>6. CASE \/ UNCHANGED vars
           \/ \E p \in Pods : Boot(p) \/ ClaimDueSchedules(p)
           \/ \E p \in Pods, k \in Periodic : CheckPending(p, k) \/ EnqueuePeriodic(p, k)
           \/ \E k \in Kinds : Trigger(k)
           \/ \E j \in Jobs : LeaseExpires(j) \/ ReapStaleRunning(j)
           \/ Tick
  BY <1>1, <1>6, QuietSteps
<1> QED BY <1>2, <1>3, <1>4, <1>5, <1>6 DEF Next

\* At first nothing runs and nobody is a member.
LEMMA InitAccounted == Init => Accounted
<1> SUFFICES ASSUME Init PROVE Accounted
  OBVIOUS
<1>1. \A s \in Slots : Leased(s) /\ Holding(s)
  BY IdleSlotType DEF Init, Leased, Holding, Busy
<1>2. ASSUME NEW k \in Kinds PROVE WithinCap(k)
  <2>1. MembersOf(k, sem) = {}
    BY DEF Init, MembersOf
  <2>2. Card(k, sem) = 0
    BY <2>1, MembersFinite, FS_EmptySet
  <2> QED BY <2>2, DispatchAssumption DEF WithinCap
<1> QED BY <1>1, <1>2 DEF Accounted

\* The runs of a kind that is not loose map one to one to its members.
LEMMA AccountedMeansCapped == Typed /\ Accounted => CapIsKept
<1> SUFFICES ASSUME Typed, Accounted, NEW k \in Kinds, Cap[k] > 0, k \notin loose
             PROVE  Cardinality(Running(k)) <= Cap[k]
  BY DEF CapIsKept
<1> DEFINE f == [s \in Running(k) |-> HolderOf(s)]
<1>1. \A s \in Running(k) : /\ s \in Slots /\ Busy(s) /\ KindOf(s) = k
                            /\ slot[s].st # "idle"
                            /\ HolderOf(s) \in MembersOf(k, sem)
  <2> SUFFICES ASSUME NEW s \in Running(k)
               PROVE  /\ s \in Slots /\ Busy(s) /\ KindOf(s) = k
                      /\ slot[s].st # "idle"
                      /\ HolderOf(s) \in MembersOf(k, sem)
    OBVIOUS
  <2>1. s \in Slots /\ Busy(s) /\ KindOf(s) = k /\ slot[s].st # "idle"
    BY DEF Running, KindOf, Busy
  <2>2. sem[HolderOf(s)] # Out
    BY <2>1 DEF Accounted, Holding
  <2>3. HolderOf(s) \in Members /\ row[HolderOf(s)[2]].kind = k
    BY <2>1, WorkingSlot DEF HolderOf, KindOf
  <2> QED BY <2>1, <2>2, <2>3 DEF MembersOf
<1>2. \A s, t \in Running(k) : HolderOf(s) = HolderOf(t) => s = t
  <2> SUFFICES ASSUME NEW s \in Running(k), NEW t \in Running(k), HolderOf(s) = HolderOf(t)
               PROVE  s = t
    OBVIOUS
  <2>1. slot[s].job = slot[t].job
    BY DEF HolderOf
  <2>2. Leased(s) /\ Leased(t)
    BY <1>1 DEF Accounted
  <2> QED BY <1>1, <2>1, <2>2, OneSlotPerJob
<1>3. f \in Injection(Running(k), MembersOf(k, sem))
  BY <1>1, <1>2 DEF Injection, IsInjective
<1>4. IsFiniteSet(MembersOf(k, sem)) /\ Card(k, sem) = Cardinality(MembersOf(k, sem))
  BY MembersFinite
<1>5. /\ IsFiniteSet(Running(k))
      /\ Cardinality(Running(k)) <= Cardinality(MembersOf(k, sem))
  BY <1>3, <1>4, FS_Injection
<1>6. Cardinality(Running(k)) \in Nat /\ Card(k, sem) \in Nat /\ Cap[k] \in Nat
  BY <1>5, FS_CardinalityType, MembersFinite, DispatchAssumption
<1>7. Card(k, sem) <= Cap[k]
  BY DEF Accounted, WithinCap
<1> QED BY <1>4, <1>5, <1>6, <1>7

\* However pods crash, restart, prune and retry, and with any number of pods,
\* slots, kinds and failures, the handlers of a kind with a cap never exceed
\* it, unless a limiter call failed open, the refreshes of a run failed for a
\* whole TTL, or a live run lost its lease.
THEOREM CapHolds == Spec => []CapIsKept
<1>1. Typed /\ [Next]_vars => Typed'
  BY StepTyped
<1>2. Typed /\ Accounted /\ [Next]_vars => Accounted'
  BY StepAccounted
<1>3. Spec => [](Typed /\ Accounted)
  BY InitTyped, InitAccounted, <1>1, <1>2, PTL DEF Spec
<1> QED BY <1>3, AccountedMeansCapped, PTL

-----------------------------------------------------------------------------
(* The periods.                                                            *)

\* The pending rows of a kind that a scheduler inserted.
Kept(k) == {j \in periodic : row[j].kind = k /\ Pending(row[j])}

\* A scheduler between its claim of a period and its INSERT.
At(p, k) == k \in todo[p] \cup going[p]

\* PeriodsCoalesce is not inductive: the check and the INSERT of fire are two
\* steps.  At most one scheduler is between them, and as long as one is past
\* its check there is no row.
Coalesced(k) ==
  /\ \A p, q \in Pods : At(p, k) /\ At(q, k) => p = q
  /\ \A p \in Pods : k \in going[p] => Kept(k) = {}
  /\ \A i, j \in Kept(k) : i = j

PeriodsApart == \A k \in Periodic \ stacked : Coalesced(k)

\* What keeps a kind coalesced: nobody joins its schedulers, nobody passes the
\* check beside a row, and no row is added.
LEMMA CoalescedKept ==
  ASSUME NEW k, Coalesced(k), Kept(k)' \subseteq Kept(k),
         \A p \in Pods : At(p, k)' => At(p, k),
         \A p \in Pods : k \in going'[p] => k \in going[p] \/ Kept(k) = {}
  PROVE  Coalesced(k)'
BY DEF Coalesced

\* Steps that only work on rows that are in use add no row.
LEMMA NoRowAdded ==
  ASSUME Typed, RowsKept, periodic' \subseteq periodic, NEW k,
         \A j \in periodic' : Fresh(j) => row'[j] = row[j]
  PROVE  Kept(k)' \subseteq Kept(k)
<1> SUFFICES ASSUME NEW j \in Kept(k)' PROVE j \in Kept(k)
  OBVIOUS
<1>1. j \in periodic' /\ j \in periodic /\ j \in Jobs /\ row'[j].kind = k /\ Pending(row'[j])
  BY DEF Kept, Pending, Typed, TypeOK
<1>2. SameRow(row'[j], row[j]) \/ row'[j] = row[j]
  BY <1>1 DEF RowsKept
<1> QED BY <1>1, <1>2 DEF Kept, SameRow

\* The steps of slots, leases and the reaper work on rows that are in use, and
\* leave the schedulers alone.
LEMMA WorkAddsNoRow ==
  ASSUME Typed,
         \/ UNCHANGED vars
         \/ \E p \in Pods : Boot(p)
         \/ \E s \in Slots : ClaimNext(s) \/ Acquire(s) \/ HandlerEnds(s)
         \/ \E j \in Jobs : LeaseExpires(j) \/ ReapStaleRunning(j)
  PROVE  /\ UNCHANGED <<periodic, todo, going, stacked>>
         /\ \A j \in Jobs : Fresh(j) => row'[j] = row[j]
<1>1. CASE UNCHANGED vars
  BY <1>1 DEF vars
<1>2. CASE \E p \in Pods : Boot(p)
  BY <1>2 DEF Boot
<1>3. ASSUME NEW s \in Slots, ClaimNext(s)
      PROVE  /\ UNCHANGED <<periodic, todo, going, stacked>>
             /\ \A j \in Jobs : Fresh(j) => row'[j] = row[j]
  <2>1. UNCHANGED <<periodic, todo, going, stacked>>
    BY <1>3 DEF ClaimNext
  <2>2. CASE UNCHANGED <<row, slot>>
    BY <2>1, <2>2
  <2>3. ASSUME NEW i \in Jobs, row[i].status = "queued",
               row' = [row EXCEPT ![i] = Claimed(row[i], s)]
        PROVE  \A j \in Jobs : Fresh(j) => row'[j] = row[j]
    BY <2>3 DEF Fresh, Pending, Typed, TypeOK
  <2> QED BY <1>3, <2>1, <2>2, <2>3, ClaimTyped
<1>4. ASSUME NEW s \in Slots, Acquire(s)
      PROVE  /\ UNCHANGED <<periodic, todo, going, stacked>>
             /\ \A j \in Jobs : Fresh(j) => row'[j] = row[j]
  <2>1. UNCHANGED <<periodic, todo, going, stacked>>
    BY <1>4, AcquireOutcomes
  <2>2. row' = row \/ row' = [row EXCEPT ![slot[s].job] = Requeue(row[slot[s].job], s)]
    BY <1>4, AcquireOutcomes DEF Admits, GivesBack, FailsOpen
  <2> QED BY <2>1, <2>2 DEF Fresh, Typed, TypeOK
<1>5. ASSUME NEW s \in Slots, HandlerEnds(s)
      PROVE  /\ UNCHANGED <<periodic, todo, going, stacked>>
             /\ \A j \in Jobs : Fresh(j) => row'[j] = row[j]
  <2>1. UNCHANGED <<periodic, todo, going, stacked>>
    BY <1>5 DEF HandlerEnds
  <2>2. \A j \in Jobs : j # slot[s].job => row'[j] = row[j]
    BY <1>5, HandlerEnded
  <2> QED BY <2>1, <2>2 DEF Fresh
<1>6. ASSUME NEW i \in Jobs, LeaseExpires(i)
      PROVE  /\ UNCHANGED <<periodic, todo, going, stacked>>
             /\ \A j \in Jobs : Fresh(j) => row'[j] = row[j]
  BY <1>6 DEF LeaseExpires, Fresh, Pending, Typed, TypeOK
<1>7. ASSUME NEW i \in Jobs, ReapStaleRunning(i)
      PROVE  /\ UNCHANGED <<periodic, todo, going, stacked>>
             /\ \A j \in Jobs : Fresh(j) => row'[j] = row[j]
  BY <1>7 DEF ReapStaleRunning, Reapable, Fresh, Pending, Typed, TypeOK
<1> QED BY <1>1, <1>2, <1>3, <1>4, <1>5, <1>6, <1>7

\* A claim of a period that another scheduler is still at makes the kind
\* stacked; a check that fails does too; the INSERT is of a kind without a row.
LEMMA SchedulerCoalesces ==
  ASSUME Typed, RowsKept, PeriodsApart, NEW p \in Pods, NEW k \in Periodic \ stacked'
  PROVE  /\ ClaimDueSchedules(p) => Coalesced(k)'
         /\ \A x \in Periodic : CheckPending(p, x) \/ EnqueuePeriodic(p, x) => Coalesced(k)'
         /\ Stop(p) => Coalesced(k)'
<1>1. ASSUME ClaimDueSchedules(p) PROVE Coalesced(k)'
  <2> DEFINE due == {x \in Periodic : Due(x)}
  <2>1. /\ todo[p] = {} /\ going[p] = {} /\ todo' = [todo EXCEPT ![p] = due]
        /\ stacked' = stacked \cup (due \cap UNION {todo[q] \cup going[q] : q \in Pods})
        /\ UNCHANGED <<row, periodic, going>>
    BY <1>1 DEF ClaimDueSchedules
  <2> HIDE DEF due
  <2>2. Coalesced(k) /\ Kept(k)' = Kept(k)
    BY <2>1 DEF PeriodsApart, Kept
  <2>3. todo'[p] = due /\ \A q \in Pods \ {p} : todo'[q] = todo[q]
    BY <2>1 DEF Typed, TypeOK
  <2>4. CASE k \notin due
    BY <2>1, <2>2, <2>3, <2>4, CoalescedKept DEF At
  <2>5. CASE k \in due
    <3>1. \A q \in Pods : ~At(q, k)
      BY <2>1, <2>5 DEF At
    <3>2. \A q \in Pods : At(q, k)' => q = p
      BY <2>1, <2>3, <3>1 DEF At
    <3> QED BY <2>1, <2>2, <3>1, <3>2 DEF Coalesced, At
  <2> QED BY <2>4, <2>5
<1>2. ASSUME NEW x \in Periodic, CheckPending(p, x) PROVE Coalesced(k)'
  <2>1. /\ x \in todo[p] /\ going[p] = {} /\ todo' = [todo EXCEPT ![p] = todo[p] \ {x}]
        /\ UNCHANGED <<row, periodic>>
    BY <1>2 DEF CheckPending
  <2>2. \/ /\ going' = IF PendingSeen(x) THEN going ELSE [going EXCEPT ![p] = {x}]
           /\ stacked' = stacked
        \/ /\ going' = [going EXCEPT ![p] = {x}]
           /\ stacked' = stacked \cup {x}
    BY <1>2 DEF CheckPending
  <2>3. Coalesced(k) /\ Kept(k)' = Kept(k)
    BY <2>1, <2>2 DEF PeriodsApart, Kept
  <2>4. \A q \in Pods : At(q, k)' => At(q, k)
    BY <2>1, <2>2 DEF At, Typed, TypeOK
  <2>5. ASSUME NEW q \in Pods, k \in going'[q] PROVE k \in going[q] \/ Kept(k) = {}
    <3>1. CASE going' = going
      BY <2>5, <3>1
    <3>2. CASE going' # going
      <4>1. going' = [going EXCEPT ![p] = {x}]
        BY <2>2, <3>2
      <4>2. k \in going[q] \/ (k = x /\ q = p)
        BY <2>5, <4>1 DEF Typed, TypeOK
      <4>3. ASSUME k = x PROVE Kept(k) = {}
        <5>1. ~PendingSeen(k)
          BY <2>2, <3>2, <4>3
        <5> QED BY <5>1 DEF PendingSeen, HasPendingKind, Kept, Typed, TypeOK
      <4> QED BY <4>2, <4>3
    <3> QED BY <3>1, <3>2
  <2> QED BY <2>3, <2>4, <2>5, CoalescedKept
<1>3. ASSUME NEW x \in Periodic, EnqueuePeriodic(p, x) PROVE Coalesced(k)'
  <2>1. x \in going[p] /\ going' = [going EXCEPT ![p] = {}] /\ UNCHANGED <<todo, stacked>>
    BY <1>3 DEF EnqueuePeriodic
  <2>2. \A q \in Pods : /\ At(q, k)' => At(q, k)
                        /\ k \in going'[q] => k \in going[q] /\ q # p
    BY <2>1 DEF At, Typed, TypeOK
  <2>3. Coalesced(k)
    BY <2>1 DEF PeriodsApart
  <2>4. CASE UNCHANGED <<row, periodic>>
    <3>1. Kept(k)' = Kept(k)
      BY <2>4 DEF Kept
    <3> QED BY <2>2, <2>3, <3>1, CoalescedKept
  <2>5. ASSUME NEW j \in Jobs, Fresh(j), periodic' = periodic \cup {j},
               row' = [row EXCEPT ![j] = Enqueued(x, MaxAttempts, TRUE)]
        PROVE  Coalesced(k)'
    <3>1. Enqueued(x, MaxAttempts, TRUE).kind = x
      BY InsertedRow, DispatchAssumption
    <3>2. Kept(k)' \subseteq Kept(k) \cup {j} /\ (x # k => Kept(k)' \subseteq Kept(k))
      BY <2>5, <3>1 DEF Kept, Typed, TypeOK
    <3>3. CASE x # k
      BY <2>2, <2>3, <3>2, <3>3, CoalescedKept
    <3>4. CASE x = k
      <4>1. Kept(k) = {}
        BY <2>1, <2>3, <3>4 DEF Coalesced
      <4>2. \A q \in Pods : k \notin going'[q]
        BY <2>1, <2>2, <2>3, <3>4 DEF Coalesced, At
      <4>3. \A i, l \in Kept(k)' : i = l
        BY <3>2, <4>1
      <4>4. \A q, r \in Pods : At(q, k)' /\ At(r, k)' => q = r
        BY <2>2, <2>3 DEF Coalesced
      <4> QED BY <4>2, <4>3, <4>4 DEF Coalesced
    <3> QED BY <3>3, <3>4
  <2> QED BY <1>3, <2>4, <2>5 DEF EnqueuePeriodic
<1>4. ASSUME Stop(p) PROVE Coalesced(k)'
  <2>1. /\ todo' = [todo EXCEPT ![p] = {}] /\ going' = [going EXCEPT ![p] = {}]
        /\ UNCHANGED <<row, periodic, stacked>>
    BY <1>4 DEF Stop
  <2>2. Coalesced(k) /\ Kept(k)' = Kept(k)
    BY <2>1 DEF PeriodsApart, Kept
  <2>3. \A q \in Pods : (At(q, k)' => At(q, k)) /\ (k \in going'[q] => k \in going[q])
    BY <2>1 DEF At, Typed, TypeOK
  <2> QED BY <2>2, <2>3, CoalescedKept
<1> QED BY <1>1, <1>2, <1>3, <1>4

\* Every step keeps the periods apart.
LEMMA StepKeepsPeriodsApart ==
  ASSUME Typed, PeriodsApart, [Next]_vars
  PROVE  PeriodsApart'
<1>0. RowsKept
  BY StepTyped
<1>1. ASSUME UNCHANGED <<todo, going, stacked>>, periodic' \subseteq periodic,
             \A j \in periodic' : Fresh(j) => row'[j] = row[j]
      PROVE  PeriodsApart'
  <2> SUFFICES ASSUME NEW k \in Periodic \ stacked PROVE Coalesced(k)'
    BY <1>1 DEF PeriodsApart
  <2>1. Coalesced(k) /\ Kept(k)' \subseteq Kept(k)
    BY <1>0, <1>1, NoRowAdded DEF PeriodsApart
  <2>2. \A p \in Pods : (At(p, k)' => At(p, k)) /\ (k \in going'[p] => k \in going[p])
    BY <1>1 DEF At
  <2> QED BY <2>1, <2>2, CoalescedKept
<1>2. CASE \/ UNCHANGED vars
           \/ \E p \in Pods : Boot(p)
           \/ \E s \in Slots : ClaimNext(s) \/ Acquire(s) \/ HandlerEnds(s)
           \/ \E j \in Jobs : LeaseExpires(j) \/ ReapStaleRunning(j)
  <2>1. /\ UNCHANGED <<periodic, todo, going, stacked>> /\ periodic \subseteq Jobs
        /\ \A j \in Jobs : Fresh(j) => row'[j] = row[j]
    BY <1>2, WorkAddsNoRow DEF Typed, TypeOK
  <2> QED BY <1>1, <2>1
<1>3. CASE \/ \E p \in Pods : Stop(p) \/ ClaimDueSchedules(p)
           \/ \E p \in Pods, k \in Periodic : CheckPending(p, k) \/ EnqueuePeriodic(p, k)
  BY <1>0, <1>3, SchedulerCoalesces DEF PeriodsApart
<1>4. CASE \E k \in Kinds : Trigger(k)
  <2>1. PICK k \in Kinds, j \in Jobs :
          /\ row' = [row EXCEPT ![j] = Enqueued(k, 1, TRUE)]
          /\ periodic' = periodic \ {j}
          /\ UNCHANGED <<todo, going, stacked>>
    BY <1>4 DEF Trigger
  <2> QED BY <1>1, <2>1 DEF Typed, TypeOK
<1>5. CASE Tick
  <2>1. periodic' = {j \in periodic : ~Fresh(j)} /\ UNCHANGED <<todo, going, stacked>>
    BY <1>5 DEF Tick
  <2> QED BY <1>1, <2>1
<1> QED BY <1>2, <1>3, <1>4, <1>5 DEF Next

\* With any number of pods, schedules and failures, the schedulers keep at most
\* one row of a periodic kind queued or running, unless a pending check failed
\* or a scheduler was still at work when the next period was claimed.
THEOREM PeriodsHold == Spec => []PeriodsCoalesce
<1>1. Init => PeriodsApart
  BY DEF Init, PeriodsApart, Coalesced, Kept, At
<1>2. Typed /\ [Next]_vars => Typed'
  BY StepTyped
<1>3. Typed /\ PeriodsApart /\ [Next]_vars => PeriodsApart'
  BY StepKeepsPeriodsApart
<1>4. PeriodsApart => PeriodsCoalesce
  <2> SUFFICES ASSUME PeriodsApart, NEW k \in Periodic \ stacked
               PROVE  Cardinality({j \in periodic : row[j].kind = k /\ Pending(row[j])}) <= 1
    BY DEF PeriodsCoalesce
  <2>1. \A i, j \in Kept(k) : i = j
    BY DEF PeriodsApart, Coalesced
  <2>2. Kept(k) = {} \/ \E j : Kept(k) = {j}
    BY <2>1
  <2>3. CASE Kept(k) = {}
    <3>1. Cardinality(Kept(k)) = 0
      BY <2>3, FS_EmptySet
    <3> QED BY <3>1 DEF Kept
  <2>4. CASE \E j : Kept(k) = {j}
    <3>1. Cardinality(Kept(k)) = 1
      BY <2>4, FS_Singleton
    <3> QED BY <3>1 DEF Kept
  <2> QED BY <2>2, <2>3, <2>4
<1> QED BY InitTyped, <1>1, <1>2, <1>3, <1>4, PTL DEF Spec
=============================================================================
