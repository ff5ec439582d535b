----------------------------- MODULE AudibleSync -----------------------------
(***************************************************************************)
(* The sync of one reader's Audible account (internal/books/ingest/audible *)
(* audiobooks.go): SyncUser, run by the schedule and by the books-sync-all *)
(* pipeline, and BackfillUser, jobs of different kinds that may overlap.   *)
(* Each sweeps the library, then the list of finished books, then saves    *)
(* its cursors in book_sync_state.                                         *)
(*                                                                         *)
(* Audible is external: `heard` is its library, `finishes` its list of     *)
(* finish events with their times.  A player that is offline uploads an    *)
(* event later, under the time it happened.  start_date is inclusive.      *)
(* Listening aggregates, written as absolute values, are left out; so is   *)
(* the purchase cursor: the books are owned from the start.                *)
(***************************************************************************)
EXTENDS Naturals, FiniteSetsExt

CONSTANTS Books,
          SyncJobs,     \* {"sync", "chain", "backfill"} or some of them
          MaxFinishes,  \* finish events
          MaxUpsets     \* books started again, and runs that fail

ASSUME AudibleAssumption ==
  /\ SyncJobs \subseteq {"sync", "chain", "backfill"}
  /\ MaxFinishes \in Nat /\ MaxUpsets \in Nat

VARIABLES heard,     \* [Books -> "started" | "done"]
          finishes,  \* events Audible lists
          offline,   \* events of a player that has not synced yet
          shelved,   \* [Books -> the row: "absent" | "unfinished" | "finished"]
          cursor,    \* last_finished_cursor
          fresh,     \* last_forward_at lies in this UTC day
          job,       \* [SyncJobs -> where the run is]
          clock, relistens, misses,
          announced, \* history: [Books -> book.finished notifications, 2 for more]
          crossed,   \* history: runs have overlapped
          overdue    \* history: books done at the last midnight that fell between runs

audibleVars == <<heard, finishes, offline, shelved, cursor, fresh, job, clock,
                 relistens, misses, announced, crossed, overdue>>

NoPrev == [of |-> {}, row |-> "absent"]
Event == [book : Books, time : Nat]
NoJob == [at |-> "idle", since |-> 0, page |-> {}, marks |-> {},
          prev |-> NoPrev, newest |-> 0, events |-> {}]
Emits(j) == j # "backfill"

-----------------------------------------------------------------------------
\* ----- the reader

FinishListening(b) ==
  /\ heard[b] = "started"
  /\ clock < MaxFinishes /\ clock' = clock + 1
  /\ LET e == [book |-> b, time |-> clock + 1]
     IN  \/ /\ heard' = [heard EXCEPT ![b] = "done"]
            /\ finishes' = finishes \union {e} /\ UNCHANGED offline
         \/ /\ offline = {} /\ offline' = {e} /\ UNCHANGED <<heard, finishes>>
  /\ UNCHANGED <<overdue, shelved, cursor, fresh, job, relistens, misses, announced, crossed>>

Upload ==
  /\ offline # {}
  /\ heard' = [b \in Books |-> IF \E e \in offline : e.book = b THEN "done" ELSE heard[b]]
  /\ finishes' = finishes \union offline
  /\ offline' = {}
  /\ UNCHANGED <<overdue, shelved, cursor, fresh, job, clock, relistens, misses, announced, crossed>>

ListenAgain(b) ==
  /\ heard[b] = "done"
  /\ relistens + misses < MaxUpsets /\ relistens' = relistens + 1
  /\ heard' = [heard EXCEPT ![b] = "started"]
  /\ overdue' = overdue \ {b}
  /\ UNCHANGED <<finishes, offline, shelved, cursor, fresh, job, clock, misses, announced,
                 crossed>>

NewDay ==
  /\ fresh /\ fresh' = FALSE
  /\ overdue' = IF \E j \in SyncJobs : job[j].at # "idle" THEN {}
                ELSE {b \in Books : heard[b] = "done"}
  /\ UNCHANGED <<heard, finishes, offline, shelved, cursor, job, clock, relistens, misses,
                 announced, crossed>>

-----------------------------------------------------------------------------
\* ----- a run

\* Mutant: only a backfill lists titles it knows.
DueForFullSweep_Never(j) == j = "backfill"

\* dueForFullLibrarySweep: the first forward run of a UTC day, and a backfill.
DueForFullSweep(j) == j = "backfill" \/ ~fresh

\* The credential, the sync state and the page: all titles, or those not seen
\* before.  A backfill lists the finishes of all time.
StartSync(j) ==
  /\ job[j].at = "idle"
  /\ LET listed == {b \in Books : DueForFullSweep(j) \/ shelved[b] = "absent"}
     IN  job' = [job EXCEPT ![j] =
           [NoJob EXCEPT !.at = "fetched", !.page = {<<b, heard[b]>> : b \in listed},
                         !.since = IF j = "backfill" THEN 0 ELSE cursor]]
  /\ crossed' = (crossed \/ \E k \in SyncJobs : job[k].at # "idle")
  /\ UNCHANGED <<overdue, heard, finishes, offline, shelved, cursor, fresh, clock, relistens, misses,
                 announced>>

\* toReadingItem and UpsertReadingItem for each title of the page: the row takes
\* what the page said.  Rows of different titles do not touch each other.  Then
\* the list of finishes from the cursor on.
SweepLibrary(j) ==
  /\ job[j].at = "fetched"
  /\ shelved' = [b \in Books |->
                   IF <<b, "done">> \in job[j].page THEN "finished"
                   ELSE IF <<b, "started">> \in job[j].page THEN "unfinished"
                   ELSE shelved[b]]
  /\ job' = [job EXCEPT ![j].at = "marks", ![j].page = {},
                        ![j].marks = {e \in finishes : e.time >= job[j].since}]
  /\ UNCHANGED <<overdue, heard, finishes, offline, cursor, fresh, clock, relistens, misses, announced,
                 crossed>>

\* MarkReadingItemFinished is one statement whose CTE reads the row before its
\* UPDATE has waited for the row's lock.
ReadPrev(j, e) ==
  /\ job[j].at = "marks" /\ e \in job[j].marks
  /\ \A d \in job[j].marks : e.time <= d.time
  /\ job' = [job EXCEPT ![j].at = "marking", ![j].prev = [of |-> {e}, row |-> shelved[e.book]]]
  /\ UNCHANGED <<overdue, heard, finishes, offline, shelved, cursor, fresh, clock, relistens, misses,
                 announced, crossed>>

\* Mutant: every listed event counts as a transition.
Transition_Always(j) == job[j].prev.row # "absent"

\* The row was there and not finished.
Transition(j) == job[j].prev.row = "unfinished"

MarkReadingItemFinished(j, e) ==
  /\ job[j].at = "marking" /\ job[j].prev.of = {e}
  /\ shelved' = [shelved EXCEPT ![e.book] = IF @ = "absent" THEN @ ELSE "finished"]
  /\ job' = [job EXCEPT ![j].at = "marks",
                        ![j].prev = NoPrev,
                        ![j].marks = @ \ {e},
                        ![j].newest = Max({@, e.time}),
                        ![j].events = IF Emits(j) /\ Transition(j) THEN @ \union {e} ELSE @]
  /\ UNCHANGED <<overdue, heard, finishes, offline, cursor, fresh, clock, relistens, misses, announced,
                 crossed>>

\* announceFinished for every transition of the sweep.
AnnounceFinished(j) ==
  /\ job[j].at = "marks" /\ job[j].marks = {}
  /\ announced' = [b \in Books |->
       Min({2, announced[b] + Cardinality({e \in job[j].events : e.book = b})})]
  /\ job' = [job EXCEPT ![j].at = "save", ![j].events = {}]
  /\ UNCHANGED <<overdue, heard, finishes, offline, shelved, cursor, fresh, clock, relistens, misses,
                 crossed>>

\* SetBookSyncState: the cursor moves to the newest event seen, if any; else
\* the value read at the start is written back.
SetBookSyncState(j) ==
  /\ job[j].at = "save"
  /\ cursor' = IF job[j].newest # 0 THEN job[j].newest
               ELSE IF j = "backfill" THEN cursor ELSE job[j].since
  /\ fresh' = TRUE
  /\ job' = [job EXCEPT ![j] = NoJob]
  /\ UNCHANGED <<overdue, heard, finishes, offline, shelved, clock, relistens, misses, announced,
                 crossed>>

\* A request or a statement fails, or the process dies: nothing is saved.
SyncFails(j) ==
  /\ job[j].at # "idle"
  /\ relistens + misses < MaxUpsets /\ misses' = misses + 1
  /\ job' = [job EXCEPT ![j] = NoJob]
  /\ UNCHANGED <<overdue, heard, finishes, offline, shelved, cursor, fresh, clock, relistens,
                 announced, crossed>>

-----------------------------------------------------------------------------
AudibleInit ==
  /\ heard = [b \in Books |-> "started"]
  /\ finishes = {} /\ offline = {}
  /\ shelved = [b \in Books |-> "absent"]
  /\ cursor = 0 /\ fresh = FALSE
  /\ job = [j \in SyncJobs |-> NoJob]
  /\ clock = 0 /\ relistens = 0 /\ misses = 0
  /\ announced = [b \in Books |-> 0]
  /\ crossed = FALSE
  /\ overdue = {}

SyncStep(j) ==
  \/ StartSync(j) \/ SweepLibrary(j)
  \/ \E e \in finishes : ReadPrev(j, e) \/ MarkReadingItemFinished(j, e)
  \/ AnnounceFinished(j) \/ SetBookSyncState(j)

AudibleNext ==
  \/ \E b \in Books : FinishListening(b) \/ ListenAgain(b)
  \/ Upload \/ NewDay
  \/ \E j \in SyncJobs : SyncStep(j) \/ SyncFails(j)

AudibleSpec == AudibleInit /\ [][AudibleNext]_audibleVars

AudibleTypeOK ==
  /\ heard \in [Books -> {"started", "done"}]
  /\ finishes \union offline \subseteq Event
  /\ shelved \in [Books -> {"absent", "unfinished", "finished"}]
  /\ {cursor, clock, relistens, misses} \subseteq Nat
  /\ announced \in [Books -> Nat]
  /\ \A j \in SyncJobs : job[j].events \subseteq Event

\* A finish is announced at most once, although its event is listed again by
\* every sweep until a newer one moves the cursor, and runs fail at any point
\* (the false-to-true edge of MarkReadingItemFinished), unless runs overlapped
\* or the book was started again.
AnnouncedOnce == ~crossed /\ relistens = 0 => \A b \in Books : announced[b] <= 1

\* The first run of a day catches up with everything that was finished before
\* it, also with an event that was uploaded behind the cursor and is in no list
\* of finishes any more (dueForFullLibrarySweep); runs may fail and overlap, but
\* one that began before midnight passes for the new day's (last_forward_at).
DayIsCaughtUp == fresh => \A b \in overdue : shelved[b] = "finished"
=============================================================================
