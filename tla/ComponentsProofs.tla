-------------------------- MODULE ComponentsProofs --------------------------
(***************************************************************************)
(* The components of MCComponents, each for every instance of it.          *)
(*                                                                         *)
(* Audible.  CaughtUp follows the books that were done at midnight through *)
(* the first run of the day.  It holds also when runs overlap, since none  *)
(* of them fetched its page before midnight.  Once follows a finish from   *)
(* the list to the notification, as long as runs take turns and nothing is *)
(* started again: the row is what stops a second announcement, and no page *)
(* is old enough to take the row back.                                     *)
(*                                                                         *)
(* Caches.  Shown: whatever is cached, or may still be stored, shows what  *)
(* the last invalidation found committed; the reads that do not are the    *)
(* ones that keep it from raising the floor.  Timed: a read shows every    *)
(* write that was committed before it began, so an entry shows every write *)
(* that is older than itself by the time one read takes.                   *)
(*                                                                         *)
(* Kindle.  SessionsCount: what composeSessions writes for a day is the    *)
(* number of instants of it at which the samples say the book was read.    *)
(* Reading time only grows with the samples, so the row is right as soon   *)
(* as one poll saw the last of them; and the counter adds nothing that is  *)
(* not between two samples, the later of which is the one it stands at.    *)
(*                                                                         *)
(* Streaks.  Whatever was entered for another calendar begins no later     *)
(* than the last change, so the rows after it are those of the periods     *)
(* that were hit, one each (RowsAreOfHits, HitsHaveRows).  They are the    *)
(* newest of the ledger, and WalkIsOverSlots shows that the walk goes over *)
(* them exactly as long as none is missing.                                *)
(***************************************************************************)
EXTENDS MCComponents, LiberationProofs, FiniteSums, WellFoundedInduction

ShelfRows == {"absent", "unfinished", "finished"}

SyncRun == [at : {"idle", "fetched", "marks", "marking", "save"}, since : Nat,
        page : SUBSET (Books \X {"started", "done"}), marks : SUBSET Event,
        prev : [of : SUBSET Event, row : ShelfRows], newest : Nat, events : SUBSET Event]

\* A run has a page until it has swept the library, and transitions between
\* the sweep of finishes and the announcement.
SyncRunShape(t) ==
  /\ t.at # "fetched" => t.page = {}
  /\ t.at \notin {"marks", "marking"} => t.events = {} /\ t.marks = {}

\* What run t holds was listed by Audible.
Lists(t, listed) == t.marks \subseteq listed /\ t.events \subseteq listed

SyncTyped ==
  /\ heard \in [Books -> {"started", "done"}]
  /\ finishes \subseteq Event /\ offline \subseteq Event
  /\ IsFiniteSet(finishes) /\ IsFiniteSet(offline)
  /\ shelved \in [Books -> ShelfRows]
  /\ cursor \in Nat /\ clock \in Nat /\ relistens \in Nat /\ misses \in Nat
  /\ fresh \in BOOLEAN /\ crossed \in BOOLEAN
  /\ announced \in [Books -> Nat]
  /\ overdue \subseteq Books
  /\ job \in [SyncJobs -> SyncRun]
  /\ \A j \in SyncJobs : SyncRunShape(job[j]) /\ Lists(job[j], finishes)

\* What run t knows of book b, which was done at midnight.
SweepsUp(t, b, row, today) ==
  /\ <<b, "started">> \notin t.page
  /\ ~ today /\ t.at = "fetched" => <<b, "done">> \in t.page
  /\ ~ today /\ t.at \in {"marks", "marking", "save"} => row = "finished"

CaughtUp ==
  \A b \in overdue :
    /\ heard[b] = "done"
    /\ fresh => shelved[b] = "finished"
    /\ \A j \in SyncJobs : SweepsUp(job[j], b, shelved[b], fresh)

\* Runs take turns.
InTurn == \A i, j \in SyncJobs : job[i].at # "idle" /\ job[j].at # "idle" => i = j

Calm == ~ crossed /\ relistens = 0

\* Nothing is finished but what has been heard to its end.
HeardOut ==
  /\ \A e \in finishes : heard[e.book] = "done"
  /\ \A b \in Books : shelved[b] = "finished" => heard[b] = "done"

\* Nothing that run t holds is out of date.
UpToDate(t) ==
  /\ \A b \in Books :
       /\ <<b, "done">> \in t.page => heard[b] = "done"
       /\ <<b, "started">> \in t.page => shelved[b] # "finished"
  /\ t.at = "marking" => \A e \in t.prev.of : t.prev.row = shelved[e.book]

\* The transitions of run t are of books that have not been announced.
NotYetTold(t) ==
  /\ \A e \in t.events : shelved[e.book] = "finished" /\ announced[e.book] = 0
  /\ \A d, e \in t.events : d.book = e.book => d = e

Once ==
  /\ ~ crossed => InTurn
  /\ Calm =>
       /\ HeardOut
       /\ \A j \in SyncJobs : UpToDate(job[j]) /\ NotYetTold(job[j])
       /\ \A b \in Books : announced[b] <= 1 /\ (announced[b] = 1 => shelved[b] = "finished")

AudibleInv == SyncTyped /\ CaughtUp /\ Once


-----------------------------------------------------------------------------
(* Helpers.                                                                *)

\* The greater and the smaller of two numbers.
LEMMA OfTwo ==
  ASSUME NEW m \in Nat, NEW n \in Nat
  PROVE  /\ Max({m, n}) \in {m, n} /\ Max({m, n}) >= m /\ Max({m, n}) >= n
         /\ Min({m, n}) \in {m, n} /\ Min({m, n}) <= m /\ Min({m, n}) <= n
<1>1. \E x \in {m, n} : \A y \in {m, n} : x >= y
  <2>1. CASE m >= n
    BY <2>1
  <2>2. CASE n >= m
    BY <2>2
  <2> QED BY <2>1, <2>2
<1>2. \E x \in {m, n} : \A y \in {m, n} : x <= y
  <2>1. CASE m >= n
    BY <2>1
  <2>2. CASE n >= m
    BY <2>2
  <2> QED BY <2>1, <2>2
<1>3. /\ Max({m, n}) \in {m, n} /\ \A y \in {m, n} : Max({m, n}) >= y
  BY <1>1 DEF Max
<1>4. /\ Min({m, n}) \in {m, n} /\ \A y \in {m, n} : Min({m, n}) <= y
  BY <1>2 DEF Min
<1> QED BY <1>3, <1>4

\* The model's count of announcements stops at two.
LEMMA Capped ==
  ASSUME NEW m \in Nat, NEW k \in Nat
  PROVE  /\ Min({2, m + k}) \in {2, m + k}
         /\ m + k <= 2 => Min({2, m + k}) = m + k
<1> DEFINE s == m + k
<1>1. s \in Nat
  OBVIOUS
<1> HIDE DEF s
<1>2. Min({2, s}) \in {2, s} /\ Min({2, s}) <= s /\ Min({2, s}) <= 2
  BY <1>1, OfTwo
<1>3. Min({2, s}) \in {2, s} /\ (s <= 2 => Min({2, s}) = s)
  BY <1>1, <1>2
<1> QED BY <1>3 DEF s

\* A run that is over.
LEMMA NoJobIsARun ==
  /\ NoJob \in SyncRun /\ SyncRunShape(NoJob) /\ NoJob.at = "idle" /\ NoJob.page = {}
  /\ NoJob.marks = {} /\ NoJob.events = {}
<1>1. NoPrev \in [of : SUBSET Event, row : ShelfRows]
  BY DEF NoPrev, ShelfRows
<1> QED BY <1>1 DEF NoJob, SyncRun, SyncRunShape

\* One run moves.
LEMMA RunMoves ==
  ASSUME SyncTyped, NEW j \in SyncJobs, NEW t \in SyncRun, job' = [job EXCEPT ![j] = t],
         SyncRunShape(t), Lists(t, finishes), UNCHANGED finishes
  PROVE  /\ job' \in [SyncJobs -> SyncRun] /\ job'[j] = t
         /\ \A i \in SyncJobs \ {j} : job'[i] = job[i]
         /\ \A i \in SyncJobs : SyncRunShape(job'[i]) /\ Lists(job'[i], finishes')
<1>1. /\ job' \in [SyncJobs -> SyncRun] /\ job'[j] = t
      /\ \A i \in SyncJobs \ {j} : job'[i] = job[i]
  BY DEF SyncTyped
<1>2. ASSUME NEW i \in SyncJobs PROVE SyncRunShape(job'[i]) /\ Lists(job'[i], finishes')
  <2>1. CASE i = j
    BY <1>1, <2>1
  <2>2. CASE i # j
    <3>1. job'[i] = job[i]
      BY <1>1, <2>2
    <3> QED BY <3>1 DEF SyncTyped
  <2> QED BY <2>1, <2>2
<1> QED BY <1>1, <1>2

\* While runs take turns, the others hold nothing.
LEMMA OthersHoldNothing ==
  ASSUME SyncTyped, InTurn, NEW j \in SyncJobs, job[j].at # "idle", NEW i \in SyncJobs, i # j
  PROVE  job[i].at = "idle" /\ job[i].page = {} /\ job[i].events = {}
<1>1. job[i].at = "idle" /\ SyncRunShape(job[i])
  BY DEF InTurn, SyncTyped
<1> QED BY <1>1 DEF SyncRunShape

-----------------------------------------------------------------------------
(* The steps of a run.                                                     *)

\* A run starts with a page of what is there now.
LEMMA StartKeeps ==
  ASSUME AudibleInv, NEW j \in SyncJobs, StartSync(j)
  PROVE  AudibleInv'
<1> DEFINE listed == {b \in Books : DueForFullSweep(j) \/ shelved[b] = "absent"}
           listing == {<<b, heard[b]>> : b \in listed}
           since == IF j = "backfill" THEN 0 ELSE cursor
           t == [NoJob EXCEPT !.at = "fetched", !.page = listing, !.since = since]
<1>0. /\ heard \in [Books -> {"started", "done"}] /\ shelved \in [Books -> ShelfRows] /\ cursor \in Nat
      /\ SyncTyped /\ overdue \subseteq Books
  BY DEF AudibleInv, SyncTyped
<1>1. /\ \A b \in Books : /\ <<b, "done">> \in listing => heard[b] = "done"
                          /\ <<b, "started">> \in listing => heard[b] = "started"
                          /\ ~ fresh => <<b, heard[b]>> \in listing
      /\ listing \subseteq Books \X {"started", "done"} /\ since \in Nat
  BY <1>0 DEF DueForFullSweep
<1>2. job' = [job EXCEPT ![j] = t]
  BY DEF StartSync
<1> HIDE DEF listing, since
<1>3. /\ t \in SyncRun /\ t.at = "fetched" /\ t.page = listing /\ t.marks = {} /\ t.events = {}
  BY <1>1, NoJobIsARun DEF SyncRun
<1> HIDE DEF t
<1>4. /\ job' \in [SyncJobs -> SyncRun] /\ job'[j] = t
      /\ \A i \in SyncJobs \ {j} : job'[i] = job[i]
      /\ \A i \in SyncJobs : SyncRunShape(job'[i]) /\ Lists(job'[i], finishes')
  BY <1>0, <1>2, <1>3, RunMoves DEF SyncRunShape, Lists, StartSync
<1>5. /\ UNCHANGED <<overdue, heard, finishes, offline, shelved, cursor, fresh, clock, relistens,
                     misses, announced>>
      /\ crossed' = (crossed \/ \E k \in SyncJobs : job[k].at # "idle")
  BY DEF StartSync
<1>6. SyncTyped'
  BY <1>0, <1>4, <1>5 DEF SyncTyped
<1>7. CaughtUp'
  <2> SUFFICES ASSUME NEW b \in overdue
               PROVE  /\ heard[b] = "done" /\ (fresh => shelved[b] = "finished")
                      /\ \A i \in SyncJobs : SweepsUp(job'[i], b, shelved[b], fresh)
    BY <1>5 DEF CaughtUp
  <2>1. /\ heard[b] = "done" /\ (fresh => shelved[b] = "finished") /\ b \in Books
        /\ \A i \in SyncJobs : SweepsUp(job[i], b, shelved[b], fresh)
    BY <1>0 DEF AudibleInv, CaughtUp
  <2>2. SweepsUp(t, b, shelved[b], fresh)
    BY <1>1, <1>3, <2>1 DEF SweepsUp
  <2> QED BY <1>4, <2>1, <2>2
<1>8. Once'
  <2>1. ASSUME ~ crossed' PROVE ~ crossed /\ InTurn'
    <3>1. ~ crossed /\ \A i \in SyncJobs : job[i].at = "idle"
      BY <1>5, <2>1
    <3> QED BY <1>4, <3>1 DEF InTurn
  <2>2. ASSUME Calm'
        PROVE  /\ HeardOut'
               /\ \A i \in SyncJobs : UpToDate(job[i])' /\ NotYetTold(job[i])'
               /\ \A b \in Books : announced'[b] <= 1 /\ (announced'[b] = 1 => shelved'[b] = "finished")
    <3>1. Calm
      BY <1>5, <2>1, <2>2 DEF Calm
    <3>2. HeardOut
      BY <3>1 DEF AudibleInv, Once
    <3>3. UpToDate(t) /\ NotYetTold(t)
      BY <1>0, <1>1, <1>3, <3>2 DEF UpToDate, NotYetTold, HeardOut
    <3>4. ASSUME NEW i \in SyncJobs PROVE UpToDate(job'[i]) /\ NotYetTold(job'[i])
      <4>1. UpToDate(job[i]) /\ NotYetTold(job[i])
        BY <3>1 DEF AudibleInv, Once
      <4> QED BY <1>4, <3>3, <4>1
    <3>5. \A i \in SyncJobs : UpToDate(job[i])' /\ NotYetTold(job[i])'
      BY <1>5, <3>4 DEF UpToDate, NotYetTold
    <3> QED BY <1>5, <3>1, <3>2, <3>5 DEF AudibleInv, Once, HeardOut
  <2> QED BY <2>1, <2>2 DEF Once
<1> QED BY <1>6, <1>7, <1>8 DEF AudibleInv


\* What a run fetched is put on the shelf; a page holds nothing out of date.
LEMMA SweepKeeps ==
  ASSUME AudibleInv, NEW j \in SyncJobs, SweepLibrary(j)
  PROVE  AudibleInv'
<1> DEFINE u == job[j]
           ms == {e \in finishes : e.time >= u.since}
           t == [u EXCEPT !.at = "marks", !.page = {}, !.marks = ms]
<1>0. /\ SyncTyped /\ u \in SyncRun /\ u.at = "fetched" /\ u.events = {} /\ shelved \in [Books -> ShelfRows]
      /\ ms \subseteq finishes /\ finishes \subseteq Event /\ overdue \subseteq Books
  BY DEF AudibleInv, SyncTyped, SweepLibrary, SyncRunShape
<1>1. job' = [job EXCEPT ![j] = t]
  BY DEF SweepLibrary, SyncTyped
<1>2. ms \in SUBSET Event
  BY <1>0
<1> HIDE DEF ms
<1>3. /\ t \in SyncRun /\ t.at = "marks" /\ t.page = {} /\ t.marks = ms /\ t.events = {}
  BY <1>0, <1>2 DEF SyncRun
<1> HIDE DEF t
<1>4. /\ job' \in [SyncJobs -> SyncRun] /\ job'[j] = t
      /\ \A i \in SyncJobs \ {j} : job'[i] = job[i]
      /\ \A i \in SyncJobs : SyncRunShape(job'[i]) /\ Lists(job'[i], finishes')
  BY <1>0, <1>1, <1>3, RunMoves DEF SyncRunShape, Lists, SweepLibrary
<1>5. UNCHANGED <<overdue, heard, finishes, offline, cursor, fresh, clock, relistens, misses,
                  announced, crossed>>
  BY DEF SweepLibrary
<1>6. /\ shelved' \in [Books -> ShelfRows]
      /\ \A b \in Books : shelved'[b] = IF <<b, "done">> \in u.page THEN "finished"
                                        ELSE IF <<b, "started">> \in u.page THEN "unfinished"
                                        ELSE shelved[b]
  BY <1>0 DEF SweepLibrary, ShelfRows
<1>7. SyncTyped'
  BY <1>4, <1>5, <1>6 DEF AudibleInv, SyncTyped
<1>8. CaughtUp'
  <2> SUFFICES ASSUME NEW b \in overdue
               PROVE  /\ heard[b] = "done" /\ (fresh => shelved'[b] = "finished")
                      /\ \A i \in SyncJobs : SweepsUp(job'[i], b, shelved'[b], fresh)
    BY <1>5 DEF CaughtUp
  <2>1. /\ heard[b] = "done" /\ (fresh => shelved[b] = "finished") /\ b \in Books
        /\ \A i \in SyncJobs : SweepsUp(job[i], b, shelved[b], fresh)
    BY <1>0 DEF AudibleInv, CaughtUp
  <2>2. /\ shelved[b] = "finished" => shelved'[b] = "finished"
        /\ ~ fresh => shelved'[b] = "finished"
    BY <1>0, <1>6, <2>1 DEF SweepsUp
  <2>3. SweepsUp(t, b, shelved'[b], fresh)
    BY <1>3, <2>2 DEF SweepsUp
  <2>4. \A i \in SyncJobs \ {j} : SweepsUp(job[i], b, shelved'[b], fresh)
    BY <2>1, <2>2 DEF SweepsUp
  <2> QED BY <1>4, <2>1, <2>2, <2>3, <2>4
<1>9. Once'
  <2>1. ASSUME ~ crossed' PROVE ~ crossed /\ InTurn /\ InTurn'
    <3>1. ~ crossed /\ InTurn
      BY <1>5, <2>1 DEF AudibleInv, Once
    <3> QED BY <1>0, <1>4, <3>1 DEF InTurn
  <2>2. ASSUME Calm'
        PROVE  /\ HeardOut'
               /\ \A i \in SyncJobs : UpToDate(job[i])' /\ NotYetTold(job[i])'
               /\ \A b \in Books : announced'[b] <= 1 /\ (announced'[b] = 1 => shelved'[b] = "finished")
    <3>1. Calm /\ InTurn
      BY <1>5, <2>1, <2>2 DEF Calm
    <3>2. /\ HeardOut /\ UpToDate(u)
          /\ \A b \in Books : announced[b] <= 1 /\ (announced[b] = 1 => shelved[b] = "finished")
      BY <3>1 DEF AudibleInv, Once
    <3>3. \A b \in Books : /\ shelved'[b] = "finished" => heard[b] = "done"
                           /\ shelved[b] = "finished" => shelved'[b] = "finished"
      BY <1>6, <3>2 DEF HeardOut, UpToDate
    <3>4. HeardOut'
      BY <1>5, <3>2, <3>3 DEF HeardOut
    <3>5. ASSUME NEW i \in SyncJobs
          PROVE  job'[i].at # "marking" /\ job'[i].page = {} /\ job'[i].events = {}
      BY <1>0, <1>3, <1>4, <3>1, OthersHoldNothing
    <3>6. \A i \in SyncJobs : UpToDate(job[i])' /\ NotYetTold(job[i])'
      BY <3>5 DEF UpToDate, NotYetTold
    <3> QED BY <1>5, <3>2, <3>3, <3>4, <3>6
  <2> QED BY <2>1, <2>2 DEF Once
<1> QED BY <1>7, <1>8, <1>9 DEF AudibleInv

\* The row of the next event is read.
LEMMA ReadPrevKeeps ==
  ASSUME AudibleInv, NEW j \in SyncJobs, NEW e \in finishes, ReadPrev(j, e)
  PROVE  AudibleInv'
<1> DEFINE u == job[j]
           p == [of |-> {e}, row |-> shelved[e.book]]
           t == [u EXCEPT !.at = "marking", !.prev = p]
<1>0. /\ SyncTyped /\ u \in SyncRun /\ u.at = "marks" /\ shelved \in [Books -> ShelfRows] /\ e \in Event
      /\ e.book \in Books /\ overdue \subseteq Books /\ Lists(u, finishes) /\ u.page = {}
  BY DEF AudibleInv, SyncTyped, ReadPrev, SyncRunShape, Event
<1>1. job' = [job EXCEPT ![j] = t]
  BY DEF ReadPrev, SyncTyped
<1>2. p \in [of : SUBSET Event, row : ShelfRows] /\ p.of = {e} /\ p.row = shelved[e.book]
  BY <1>0
<1> HIDE DEF p
<1>3. /\ t \in SyncRun /\ t.at = "marking" /\ t.page = {} /\ t.marks = u.marks /\ t.events = u.events
      /\ t.prev = p
  BY <1>0, <1>2 DEF SyncRun
<1> HIDE DEF t
<1>4. /\ job' \in [SyncJobs -> SyncRun] /\ job'[j] = t
      /\ \A i \in SyncJobs \ {j} : job'[i] = job[i]
      /\ \A i \in SyncJobs : SyncRunShape(job'[i]) /\ Lists(job'[i], finishes')
  BY <1>0, <1>1, <1>3, RunMoves DEF SyncRunShape, Lists, ReadPrev
<1>5. UNCHANGED <<overdue, heard, finishes, offline, shelved, cursor, fresh, clock, relistens,
                  misses, announced, crossed>>
  BY DEF ReadPrev
<1>6. SyncTyped'
  BY <1>4, <1>5 DEF AudibleInv, SyncTyped
<1>7. CaughtUp'
  <2>1. \A b \in overdue : SweepsUp(t, b, shelved[b], fresh)
    BY <1>0, <1>3 DEF AudibleInv, CaughtUp, SweepsUp
  <2> QED BY <1>4, <1>5, <2>1 DEF AudibleInv, CaughtUp
<1>8. Once'
  <2>1. ASSUME ~ crossed' PROVE InTurn'
    BY <1>0, <1>4, <1>5, <2>1 DEF AudibleInv, Once, InTurn
  <2>2. ASSUME Calm'
        PROVE  \A i \in SyncJobs : UpToDate(job'[i]) /\ NotYetTold(job'[i])
    <3>1. Calm /\ \A i \in SyncJobs : UpToDate(job[i]) /\ NotYetTold(job[i])
      BY <1>5, <2>2 DEF AudibleInv, Once, Calm
    <3>2. UpToDate(t) /\ NotYetTold(t)
      BY <1>2, <1>3, <3>1 DEF UpToDate, NotYetTold
    <3> QED BY <1>4, <3>1, <3>2
  <2>3. ASSUME Calm'
        PROVE  \A i \in SyncJobs : UpToDate(job[i])' /\ NotYetTold(job[i])'
    BY <1>5, <2>2, <2>3 DEF UpToDate, NotYetTold
  <2>4. Calm' => Calm
    BY <1>5 DEF Calm
  <2> QED BY <1>5, <2>1, <2>3, <2>4 DEF AudibleInv, Once, HeardOut
<1> QED BY <1>6, <1>7, <1>8 DEF AudibleInv

\* A row that was unfinished when it was read still is, so its transition is
\* the first.
LEMMA MarkKeeps ==
  ASSUME AudibleInv, NEW j \in SyncJobs, NEW e \in finishes, MarkReadingItemFinished(j, e)
  PROVE  AudibleInv'
<1> DEFINE u == job[j]
           new == IF Emits(j) /\ Transition(j) THEN u.events \union {e} ELSE u.events
           most == Max({u.newest, e.time})
           t == [u EXCEPT !.at = "marks", !.prev = NoPrev, !.marks = u.marks \ {e},
                          !.newest = most, !.events = new]
           row == IF shelved[e.book] = "absent" THEN "absent" ELSE "finished"
<1>0. /\ SyncTyped /\ u \in SyncRun /\ u.at = "marking" /\ u.prev.of = {e} /\ shelved \in [Books -> ShelfRows]
      /\ e \in Event /\ e.book \in Books /\ e.time \in Nat /\ overdue \subseteq Books
      /\ Lists(u, finishes) /\ u.page = {} /\ u.newest \in Nat /\ announced \in [Books -> Nat]
  BY DEF AudibleInv, SyncTyped, MarkReadingItemFinished, SyncRunShape, Event, SyncRun
<1>1. job' = [job EXCEPT ![j] = t]
  BY DEF MarkReadingItemFinished, SyncTyped
<1>2. most \in Nat /\ new \in SUBSET Event /\ u.marks \ {e} \in SUBSET Event
      /\ NoPrev \in [of : SUBSET Event, row : ShelfRows]
  BY <1>0, OfTwo DEF SyncRun, NoPrev, ShelfRows
<1>3. /\ new \subseteq u.events \union {e}
      /\ e \in new => e \in u.events \/ u.prev.row = "unfinished"
  BY DEF Transition
<1> HIDE DEF most, new
<1>4. /\ t \in SyncRun /\ t.at = "marks" /\ t.page = {} /\ t.marks = u.marks \ {e} /\ t.events = new
  BY <1>0, <1>2 DEF SyncRun
<1> HIDE DEF t
<1>5. /\ job' \in [SyncJobs -> SyncRun] /\ job'[j] = t
      /\ \A i \in SyncJobs \ {j} : job'[i] = job[i]
      /\ \A i \in SyncJobs : SyncRunShape(job'[i]) /\ Lists(job'[i], finishes')
  <2>1. Lists(t, finishes)
    BY <1>0, <1>3, <1>4 DEF Lists
  <2>2. SyncRunShape(t) /\ UNCHANGED finishes
    BY <1>4 DEF SyncRunShape, MarkReadingItemFinished
  <2> QED BY <1>0, <1>1, <1>4, <2>1, <2>2, RunMoves
<1>6. UNCHANGED <<overdue, heard, finishes, offline, cursor, fresh, clock, relistens, misses,
                  announced, crossed>>
  BY DEF MarkReadingItemFinished
<1>7. /\ shelved' = [shelved EXCEPT ![e.book] = row] /\ row \in ShelfRows
      /\ shelved[e.book] # "absent" => row = "finished"
  BY <1>0 DEF MarkReadingItemFinished, ShelfRows
<1>8. /\ shelved' \in [Books -> ShelfRows] /\ shelved'[e.book] = row
      /\ \A b \in Books \ {e.book} : shelved'[b] = shelved[b]
      /\ \A b \in Books : shelved[b] = "finished" => shelved'[b] = "finished"
  BY <1>0, <1>7
<1>9. SyncTyped'
  BY <1>5, <1>6, <1>8 DEF AudibleInv, SyncTyped
<1>10. CaughtUp'
  <2> SUFFICES ASSUME NEW b \in overdue
               PROVE  /\ heard[b] = "done" /\ (fresh => shelved'[b] = "finished")
                      /\ \A i \in SyncJobs : SweepsUp(job'[i], b, shelved'[b], fresh)
    BY <1>6 DEF CaughtUp
  <2>1. /\ heard[b] = "done" /\ (fresh => shelved[b] = "finished") /\ b \in Books
        /\ \A i \in SyncJobs : SweepsUp(job[i], b, shelved[b], fresh)
    BY <1>0 DEF AudibleInv, CaughtUp
  <2>2. SweepsUp(t, b, shelved'[b], fresh)
    BY <1>0, <1>4, <1>8, <2>1 DEF SweepsUp
  <2>3. \A i \in SyncJobs \ {j} : SweepsUp(job[i], b, shelved'[b], fresh)
    BY <1>8, <2>1 DEF SweepsUp
  <2> QED BY <1>5, <1>8, <2>1, <2>2, <2>3
<1>11. Once'
  <2>1. ASSUME ~ crossed' PROVE ~ crossed /\ InTurn /\ InTurn'
    <3>1. ~ crossed /\ InTurn
      BY <1>6, <2>1 DEF AudibleInv, Once
    <3> QED BY <1>0, <1>5, <3>1 DEF InTurn
  <2>2. ASSUME Calm'
        PROVE  /\ HeardOut'
               /\ \A i \in SyncJobs : UpToDate(job[i])' /\ NotYetTold(job[i])'
               /\ \A b \in Books : announced'[b] <= 1 /\ (announced'[b] = 1 => shelved'[b] = "finished")
    <3>1. Calm /\ InTurn
      BY <1>6, <2>1, <2>2 DEF Calm
    <3>2. /\ HeardOut /\ UpToDate(u) /\ NotYetTold(u)
          /\ \A b \in Books : announced[b] <= 1 /\ (announced[b] = 1 => shelved[b] = "finished")
      BY <3>1 DEF AudibleInv, Once
    <3>3. HeardOut'
      <4>1. heard[e.book] = "done"
        BY <3>2 DEF HeardOut
      <4> QED BY <1>6, <1>8, <3>2, <4>1 DEF HeardOut
    <3>4. /\ t.events \subseteq u.events \union {e}
          /\ e \in t.events => e \in u.events \/ shelved[e.book] = "unfinished"
      BY <1>0, <1>3, <1>4, <3>2 DEF UpToDate
    <3>5. /\ \A d \in t.events : shelved'[d.book] = "finished" /\ announced[d.book] = 0
          /\ \A c, d \in t.events : c.book = d.book => c = d
      <4>1. \A d \in u.events : d.book \in Books
        BY <1>0 DEF SyncRun, Event
      <4>2. CASE e \notin t.events \/ e \in u.events
        <5>1. t.events \subseteq u.events
          BY <3>4, <4>2
        <5> QED BY <1>8, <3>2, <4>1, <5>1 DEF NotYetTold
      <4>3. CASE shelved[e.book] = "unfinished"
        <5>1. /\ \A d \in u.events : d.book # e.book
              /\ shelved'[e.book] = "finished" /\ announced[e.book] = 0
          BY <1>0, <1>7, <1>8, <3>2, <4>3 DEF NotYetTold
        <5> QED BY <1>8, <3>2, <3>4, <4>1, <5>1 DEF NotYetTold
      <4> QED BY <3>4, <4>2, <4>3
    <3>6. ASSUME NEW i \in SyncJobs
          PROVE  /\ job'[i].at # "marking" /\ job'[i].page = {}
                 /\ i # j => job'[i].events = {}
      BY <1>0, <1>4, <1>5, <3>1, OthersHoldNothing
    <3>7. ASSUME NEW i \in SyncJobs PROVE UpToDate(job[i])' /\ NotYetTold(job[i])'
      <4>1. UpToDate(job[i])'
        BY <3>6 DEF UpToDate
      <4>2. CASE i = j
        BY <1>5, <1>6, <3>5, <4>1, <4>2 DEF NotYetTold
      <4>3. CASE i # j
        BY <3>6, <4>1, <4>3 DEF NotYetTold
      <4> QED BY <4>2, <4>3
    <3> QED BY <1>6, <1>8, <3>2, <3>3, <3>7
  <2> QED BY <2>1, <2>2 DEF Once
<1> QED BY <1>9, <1>10, <1>11 DEF AudibleInv


\* What is announced has not been announced before.
LEMMA AnnounceKeeps ==
  ASSUME AudibleInv, NEW j \in SyncJobs, AnnounceFinished(j)
  PROVE  AudibleInv'
<1> DEFINE u == job[j]
           Of(b) == {e \in u.events : e.book = b}
           t == [u EXCEPT !.at = "save", !.events = {}]
<1>0. /\ SyncTyped /\ u \in SyncRun /\ u.at = "marks" /\ u.marks = {} /\ u.page = {}
      /\ overdue \subseteq Books /\ announced \in [Books -> Nat] /\ IsFiniteSet(finishes)
      /\ u.events \subseteq finishes
  BY DEF AudibleInv, SyncTyped, AnnounceFinished, SyncRunShape, Lists
<1>1. job' = [job EXCEPT ![j] = t]
  BY DEF AnnounceFinished, SyncTyped
<1>2. /\ t \in SyncRun /\ t.at = "save" /\ t.page = {} /\ t.marks = {} /\ t.events = {}
  BY <1>0 DEF SyncRun
<1> HIDE DEF t
<1>3. /\ job' \in [SyncJobs -> SyncRun] /\ job'[j] = t
      /\ \A i \in SyncJobs \ {j} : job'[i] = job[i]
      /\ \A i \in SyncJobs : SyncRunShape(job'[i]) /\ Lists(job'[i], finishes')
  BY <1>0, <1>1, <1>2, RunMoves DEF SyncRunShape, Lists, AnnounceFinished
<1>4. UNCHANGED <<overdue, heard, finishes, offline, shelved, cursor, fresh, clock, relistens,
                  misses, crossed>>
  BY DEF AnnounceFinished
<1>5. announced' = [b \in Books |-> Min({2, announced[b] + Cardinality(Of(b))})]
  BY DEF AnnounceFinished
<1>6. \A b \in Books : IsFiniteSet(Of(b)) /\ Cardinality(Of(b)) \in Nat
  <2> SUFFICES ASSUME NEW b \in Books PROVE IsFiniteSet(Of(b)) /\ Cardinality(Of(b)) \in Nat
    OBVIOUS
  <2>1. Of(b) \in SUBSET finishes
    BY <1>0
  <2> QED BY <1>0, <2>1, FS_Subset, FS_CardinalityType
<1> HIDE DEF Of
<1>7. \A b \in Books : announced'[b] \in {2, announced[b] + Cardinality(Of(b))}
  <2> SUFFICES ASSUME NEW b \in Books
               PROVE  announced'[b] \in {2, announced[b] + Cardinality(Of(b))}
    OBVIOUS
  <2>1. announced[b] \in Nat /\ Cardinality(Of(b)) \in Nat
    BY <1>0, <1>6
  <2>2. announced'[b] = Min({2, announced[b] + Cardinality(Of(b))})
    BY <1>5
  <2> QED BY <2>1, <2>2, Capped
<1>8. \A b \in Books : announced[b] + Cardinality(Of(b)) <= 2 =>
        announced'[b] = announced[b] + Cardinality(Of(b))
  <2> SUFFICES ASSUME NEW b \in Books, announced[b] + Cardinality(Of(b)) <= 2
               PROVE  announced'[b] = announced[b] + Cardinality(Of(b))
    OBVIOUS
  <2>1. announced[b] \in Nat /\ Cardinality(Of(b)) \in Nat
    BY <1>0, <1>6
  <2>2. announced'[b] = Min({2, announced[b] + Cardinality(Of(b))})
    BY <1>5
  <2> QED BY <2>1, <2>2, Capped
<1>9. announced' \in [Books -> Nat]
  BY <1>0, <1>5, <1>6, <1>7
<1>10. SyncTyped'
  BY <1>3, <1>4, <1>9 DEF AudibleInv, SyncTyped
<1>11. CaughtUp'
  <2>1. \A b \in overdue : SweepsUp(t, b, shelved[b], fresh)
    BY <1>0, <1>2 DEF AudibleInv, CaughtUp, SweepsUp
  <2> QED BY <1>3, <1>4, <2>1 DEF AudibleInv, CaughtUp
<1>12. Once'
  <2>1. ASSUME ~ crossed' PROVE ~ crossed /\ InTurn /\ InTurn'
    <3>1. ~ crossed /\ InTurn
      BY <1>4, <2>1 DEF AudibleInv, Once
    <3> QED BY <1>0, <1>2, <1>3, <3>1 DEF InTurn
  <2>2. ASSUME Calm'
        PROVE  /\ HeardOut'
               /\ \A i \in SyncJobs : UpToDate(job[i])' /\ NotYetTold(job[i])'
               /\ \A b \in Books : announced'[b] <= 1 /\ (announced'[b] = 1 => shelved'[b] = "finished")
    <3>1. Calm /\ InTurn
      BY <1>4, <2>1, <2>2 DEF Calm
    <3>2. /\ HeardOut /\ NotYetTold(u)
          /\ \A b \in Books : announced[b] <= 1 /\ (announced[b] = 1 => shelved[b] = "finished")
      BY <3>1 DEF AudibleInv, Once
    <3>3. ASSUME NEW i \in SyncJobs
          PROVE  job'[i].at # "marking" /\ job'[i].page = {} /\ job'[i].events = {}
      BY <1>0, <1>2, <1>3, <3>1, OthersHoldNothing
    <3>4. \A i \in SyncJobs : UpToDate(job[i])' /\ NotYetTold(job[i])'
      BY <3>3 DEF UpToDate, NotYetTold
    <3>5. ASSUME NEW b \in Books
          PROVE  announced'[b] <= 1 /\ (announced'[b] = 1 => shelved[b] = "finished")
      <4>1. CASE Of(b) = {}
        <5>1. Cardinality(Of(b)) = 0 /\ announced[b] \in Nat /\ announced[b] <= 1
          BY <1>0, <3>2, <4>1, FS_EmptySet
        <5>2. announced'[b] = announced[b]
          BY <1>8, <5>1
        <5> QED BY <3>2, <5>2
      <4>2. CASE Of(b) # {}
        <5>1. PICK e \in u.events : e.book = b
          BY <4>2 DEF Of
        <5>2. Of(b) = {e} /\ shelved[b] = "finished" /\ announced[b] = 0
          BY <3>2, <5>1 DEF NotYetTold, Of
        <5>3. Cardinality(Of(b)) = 1
          BY <5>2, FS_Singleton
        <5>4. announced'[b] = 1
          BY <1>8, <5>2, <5>3
        <5> QED BY <5>2, <5>4
      <4> QED BY <4>1, <4>2
    <3> QED BY <1>4, <3>2, <3>4, <3>5 DEF HeardOut
  <2> QED BY <2>1, <2>2 DEF Once
<1> QED BY <1>10, <1>11, <1>12 DEF AudibleInv

\* A run ends, saved or not.
LEMMA EndKeeps ==
  ASSUME AudibleInv, NEW j \in SyncJobs, SetBookSyncState(j) \/ SyncFails(j)
  PROVE  AudibleInv'
<1>0. SyncTyped /\ job[j].at # "idle" /\ overdue \subseteq Books /\ job[j].since \in Nat
      /\ job[j].newest \in Nat
  BY DEF AudibleInv, SyncTyped, SetBookSyncState, SyncFails, SyncRun
<1>1. /\ job' = [job EXCEPT ![j] = NoJob]
      /\ UNCHANGED <<overdue, heard, finishes, offline, shelved, clock, relistens, announced,
                     crossed>>
  BY DEF SetBookSyncState, SyncFails
<1>2. /\ job' \in [SyncJobs -> SyncRun] /\ job'[j] = NoJob
      /\ \A i \in SyncJobs \ {j} : job'[i] = job[i]
      /\ \A i \in SyncJobs : SyncRunShape(job'[i]) /\ Lists(job'[i], finishes')
  BY <1>0, <1>1, NoJobIsARun, RunMoves DEF Lists
<1>3. cursor' \in Nat /\ fresh' \in BOOLEAN /\ misses' \in Nat
  <2>1. cursor \in Nat /\ fresh \in BOOLEAN /\ misses \in Nat
    BY <1>0 DEF SyncTyped
  <2>2. CASE SetBookSyncState(j)
    <3>1. cursor' \in {job[j].newest, cursor, job[j].since} /\ fresh' = TRUE /\ misses' = misses
      BY <2>2 DEF SetBookSyncState
    <3> QED BY <1>0, <2>1, <3>1
  <2>3. CASE SyncFails(j)
    <3>1. cursor' = cursor /\ fresh' = fresh /\ misses' = misses + 1
      BY <2>3 DEF SyncFails
    <3> QED BY <2>1, <3>1
  <2> QED BY <2>2, <2>3
<1>4. fresh' = fresh \/ (fresh' = TRUE /\ job[j].at = "save")
  BY DEF SetBookSyncState, SyncFails
<1>5. SyncTyped'
  <2>1. /\ heard' \in [Books -> {"started", "done"}]
        /\ finishes' \subseteq Event /\ offline' \subseteq Event
        /\ IsFiniteSet(finishes') /\ IsFiniteSet(offline')
        /\ shelved' \in [Books -> ShelfRows] /\ announced' \in [Books -> Nat]
    BY <1>0, <1>1 DEF SyncTyped
  <2>2. clock' \in Nat /\ relistens' \in Nat /\ crossed' \in BOOLEAN /\ overdue' \subseteq Books
    BY <1>0, <1>1 DEF SyncTyped
  <2>3. cursor' \in Nat /\ fresh' \in BOOLEAN /\ misses' \in Nat
    BY <1>3
  <2>4. job' \in [SyncJobs -> SyncRun] /\ \A i \in SyncJobs : SyncRunShape(job[i])' /\ Lists(job[i], finishes)'
    BY <1>2 DEF SyncRunShape, Lists
  <2> QED BY <2>1, <2>2, <2>3, <2>4 DEF SyncTyped
<1>6. CaughtUp'
  <2> SUFFICES ASSUME NEW b \in overdue
               PROVE  /\ heard[b] = "done" /\ (fresh' => shelved[b] = "finished")
                      /\ \A i \in SyncJobs : SweepsUp(job'[i], b, shelved[b], fresh')
    BY <1>1 DEF CaughtUp
  <2>1. /\ heard[b] = "done" /\ (fresh => shelved[b] = "finished") /\ b \in Books
        /\ \A i \in SyncJobs : SweepsUp(job[i], b, shelved[b], fresh)
    BY <1>0 DEF AudibleInv, CaughtUp
  <2>2. fresh' => shelved[b] = "finished"
    BY <1>0, <1>4, <2>1 DEF SweepsUp, SyncTyped
  <2>3. SweepsUp(NoJob, b, shelved[b], fresh')
    BY NoJobIsARun DEF SweepsUp
  <2>4. \A i \in SyncJobs : SweepsUp(job[i], b, shelved[b], fresh')
    BY <1>4, <2>1 DEF SweepsUp
  <2> QED BY <1>2, <2>1, <2>2, <2>3, <2>4
<1>7. Once'
  <2>1. ASSUME ~ crossed' PROVE InTurn'
    BY <1>1, <1>2, <2>1, NoJobIsARun DEF AudibleInv, Once, InTurn
  <2>2. ASSUME Calm'
        PROVE  Calm /\ \A i \in SyncJobs : UpToDate(job'[i]) /\ NotYetTold(job'[i])
    <3>1. Calm /\ \A i \in SyncJobs : UpToDate(job[i]) /\ NotYetTold(job[i])
      BY <1>1, <2>2 DEF AudibleInv, Once, Calm
    <3>2. UpToDate(NoJob) /\ NotYetTold(NoJob)
      BY NoJobIsARun DEF UpToDate, NotYetTold
    <3> QED BY <1>2, <3>1, <3>2
  <2>3. ASSUME Calm'
        PROVE  \A i \in SyncJobs : UpToDate(job[i])' /\ NotYetTold(job[i])'
    BY <1>1, <2>2, <2>3 DEF UpToDate, NotYetTold
  <2> QED BY <1>1, <2>1, <2>2, <2>3 DEF AudibleInv, Once, HeardOut
<1> QED BY <1>5, <1>6, <1>7 DEF AudibleInv

-----------------------------------------------------------------------------
(* The steps of the reader and the clock.                                  *)

\* Books are heard to their end, events reach Audible.
LEMMA ReaderKeeps ==
  ASSUME AudibleInv, Upload \/ \E b \in Books : FinishListening(b)
  PROVE  AudibleInv'
<1>0. /\ SyncTyped /\ clock \in Nat /\ heard \in [Books -> {"started", "done"}] /\ overdue \subseteq Books
      /\ IsFiniteSet(finishes) /\ IsFiniteSet(offline)
      /\ finishes \subseteq Event /\ offline \subseteq Event
  BY DEF AudibleInv, SyncTyped
<1>1. UNCHANGED <<overdue, shelved, cursor, fresh, job, relistens, misses, announced, crossed>>
  BY DEF Upload, FinishListening
<1>2. /\ heard' \in [Books -> {"started", "done"}] /\ clock' \in Nat
      /\ \A b \in Books : heard[b] = "done" => heard'[b] = "done"
      /\ finishes' \subseteq Event /\ offline' \subseteq Event
      /\ IsFiniteSet(finishes') /\ IsFiniteSet(offline')
      /\ finishes \subseteq finishes'
      /\ \A e \in finishes' \ finishes : heard'[e.book] = "done"
  <2>1. CASE Upload
    <3>1. /\ UNCHANGED clock /\ finishes' = finishes \union offline /\ offline' = {}
          /\ heard' = [b \in Books |-> IF \E e \in offline : e.book = b THEN "done" ELSE heard[b]]
      BY <2>1 DEF Upload
    <3>2. IsFiniteSet(finishes') /\ IsFiniteSet(offline')
      BY <1>0, <3>1, FS_Union, FS_EmptySet
    <3>3. \A e \in offline : e.book \in Books
      BY <1>0 DEF Event
    <3> QED BY <1>0, <3>1, <3>2, <3>3
  <2>2. ASSUME NEW b \in Books, FinishListening(b)
        PROVE  /\ heard' \in [Books -> {"started", "done"}] /\ clock' \in Nat
               /\ \A a \in Books : heard[a] = "done" => heard'[a] = "done"
               /\ finishes' \subseteq Event /\ offline' \subseteq Event
               /\ IsFiniteSet(finishes') /\ IsFiniteSet(offline')
               /\ finishes \subseteq finishes'
               /\ \A e \in finishes' \ finishes : heard'[e.book] = "done"
    <3> DEFINE e == [book |-> b, time |-> clock + 1]
    <3>1. e \in Event /\ e.book = b
      BY <1>0 DEF Event
    <3>2. /\ clock' = clock + 1
          /\ \/ /\ heard' = [heard EXCEPT ![b] = "done"]
                /\ finishes' = finishes \union {e} /\ UNCHANGED offline
             \/ offline = {} /\ offline' = {e} /\ UNCHANGED <<heard, finishes>>
      BY <2>2 DEF FinishListening
    <3> HIDE DEF e
    <3>3. IsFiniteSet(finishes \union {e}) /\ IsFiniteSet({e})
      BY <1>0, FS_AddElement, FS_Singleton
    <3> QED BY <1>0, <3>1, <3>2, <3>3
  <2> QED BY <2>1, <2>2
<1>3. SyncTyped'
  BY <1>0, <1>1, <1>2 DEF SyncTyped, Lists
<1>4. CaughtUp'
  BY <1>0, <1>1, <1>2 DEF AudibleInv, CaughtUp
<1>5. Once'
  <2>1. Calm' => Calm
    BY <1>1 DEF Calm
  <2>2. ASSUME Calm PROVE HeardOut'
    <3>1. HeardOut /\ \A e \in finishes : e.book \in Books
      BY <1>0, <2>2 DEF AudibleInv, Once, Event
    <3> QED BY <1>1, <1>2, <3>1 DEF HeardOut
  <2>3. ASSUME Calm, NEW j \in SyncJobs PROVE UpToDate(job[j])' /\ NotYetTold(job[j])'
    <3>1. UpToDate(job[j]) /\ NotYetTold(job[j])
      BY <2>3 DEF AudibleInv, Once
    <3> QED BY <1>1, <1>2, <3>1 DEF UpToDate, NotYetTold
  <2> QED BY <1>1, <2>1, <2>2, <2>3 DEF AudibleInv, Once, InTurn
<1> QED BY <1>3, <1>4, <1>5 DEF AudibleInv

\* A book is started again: it is not overdue any more.
LEMMA ListenAgainKeeps ==
  ASSUME AudibleInv, NEW b \in Books, ListenAgain(b)
  PROVE  AudibleInv'
<1>1. /\ heard' = [heard EXCEPT ![b] = "started"] /\ relistens' = relistens + 1
      /\ overdue' = overdue \ {b} /\ relistens \in Nat
      /\ UNCHANGED <<finishes, offline, shelved, cursor, fresh, job, clock, misses, announced,
                     crossed>>
  BY DEF ListenAgain, AudibleInv, SyncTyped
<1>2. SyncTyped'
  BY <1>1 DEF AudibleInv, SyncTyped
<1>3. CaughtUp'
  BY <1>1 DEF AudibleInv, SyncTyped, CaughtUp
<1>4. Once'
  <2>1. ~ Calm'
    BY <1>1 DEF Calm
  <2> QED BY <1>1, <2>1 DEF AudibleInv, Once, InTurn
<1> QED BY <1>2, <1>3, <1>4 DEF AudibleInv

\* Midnight: what is done now is overdue, unless a run is under way.
LEMMA NewDayKeeps ==
  ASSUME AudibleInv, NewDay
  PROVE  AudibleInv'
<1>1. /\ fresh' = FALSE
      /\ UNCHANGED <<heard, finishes, offline, shelved, cursor, job, clock, relistens, misses,
                     announced, crossed>>
      /\ overdue' = IF \E j \in SyncJobs : job[j].at # "idle" THEN {}
                    ELSE {b \in Books : heard[b] = "done"}
  BY DEF NewDay
<1>2. SyncTyped'
  BY <1>1 DEF AudibleInv, SyncTyped
<1>3. CaughtUp'
  <2> SUFFICES ASSUME NEW b \in overdue'
               PROVE  /\ heard[b] = "done"
                      /\ \A j \in SyncJobs : SweepsUp(job[j], b, shelved[b], FALSE)
    BY <1>1 DEF CaughtUp
  <2>1. heard[b] = "done" /\ \A j \in SyncJobs : job[j].at = "idle"
    BY <1>1
  <2>2. \A j \in SyncJobs : job[j].page = {}
    BY <2>1 DEF AudibleInv, SyncTyped, SyncRunShape
  <2> QED BY <2>1, <2>2 DEF SweepsUp
<1>4. Once'
  BY <1>1 DEF AudibleInv, Once, InTurn, Calm, HeardOut, UpToDate, NotYetTold
<1> QED BY <1>2, <1>3, <1>4 DEF AudibleInv

-----------------------------------------------------------------------------
\* In the first state nothing has been listened to, listed or announced.
LEMMA InitAudible == AudibleInit => AudibleInv
<1> SUFFICES ASSUME AudibleInit PROVE AudibleInv
  OBVIOUS
<1>1. \A j \in SyncJobs : job[j] = NoJob
  BY DEF AudibleInit
<1>2. SyncTyped
  BY NoJobIsARun, FS_EmptySet DEF AudibleInit, SyncTyped, ShelfRows, Lists
<1>3. CaughtUp
  BY DEF AudibleInit, CaughtUp
<1>4. Once
  <2>1. InTurn
    BY <1>1, NoJobIsARun DEF InTurn
  <2>2. HeardOut
    BY DEF AudibleInit, HeardOut
  <2>3. \A j \in SyncJobs : UpToDate(job[j]) /\ NotYetTold(job[j])
    BY <1>1, NoJobIsARun DEF UpToDate, NotYetTold
  <2> QED BY <2>1, <2>2, <2>3 DEF AudibleInit, Once
<1> QED BY <1>2, <1>3, <1>4 DEF AudibleInv

\* Every step keeps them.
LEMMA NextAudible == AudibleInv /\ [AudibleNext]_audibleVars => AudibleInv'
<1> SUFFICES ASSUME AudibleInv, [AudibleNext]_audibleVars PROVE AudibleInv'
  OBVIOUS
<1>1. CASE AudibleNext
  <2>1. ASSUME NEW j \in SyncJobs, SyncStep(j) \/ SyncFails(j) PROVE AudibleInv'
    BY <2>1, StartKeeps, SweepKeeps, ReadPrevKeeps, MarkKeeps, AnnounceKeeps, EndKeeps
    DEF SyncStep
  <2> QED BY <1>1, <2>1, ReaderKeeps, ListenAgainKeeps, NewDayKeeps DEF AudibleNext
<1>2. CASE UNCHANGED audibleVars
  <2>1. UNCHANGED <<heard, finishes, offline, shelved, cursor, fresh, job, clock, relistens, misses,
                    announced, crossed, overdue>>
    BY <1>2 DEF audibleVars
  <2>2. SyncTyped' /\ CaughtUp'
    BY <2>1 DEF AudibleInv, SyncTyped, CaughtUp
  <2>3. Once'
    BY <2>1 DEF AudibleInv, Once, InTurn, Calm, HeardOut, UpToDate, NotYetTold
  <2> QED BY <2>2, <2>3 DEF AudibleInv
<1> QED BY <1>1, <1>2

\* The invariants hold in every behaviour of the sync.
THEOREM AudibleCorrect == AudibleSpec => []AudibleInv
BY InitAudible, NextAudible, PTL DEF AudibleSpec

\* A finish is announced at most once (the false-to-true edge of
\* MarkReadingItemFinished), however often its event is listed again and
\* wherever runs fail, for any number of books and events, as long as runs take
\* turns and no book is started again.
THEOREM FinishesAreAnnouncedOnce == AudibleSpec => []AnnouncedOnce
<1>1. AudibleInv => AnnouncedOnce
  BY DEF AudibleInv, Once, Calm, AnnouncedOnce
<1> QED BY <1>1, AudibleCorrect, PTL

\* The first run of a day puts everything on the shelf that was finished before
\* midnight (dueForFullLibrarySweep, last_forward_at), for any number of books,
\* jobs that overlap and runs that fail.
THEOREM DaysAreCaughtUp == AudibleSpec => []DayIsCaughtUp
<1>1. AudibleInv => DayIsCaughtUp
  BY DEF AudibleInv, CaughtUp, DayIsCaughtUp
<1> QED BY <1>1, AudibleCorrect, PTL

\* Rows, events and cursors have their shape, for every value of the constants.
THEOREM AudibleTypes == AudibleSpec => []AudibleTypeOK
<1>1. AudibleInv => AudibleTypeOK
  BY DEF AudibleInv, SyncTyped, AudibleTypeOK, ShelfRows, SyncRun
<1> QED BY <1>1, AudibleCorrect, PTL
-----------------------------------------------------------------------------

Stages == {"idle", "looked", "loaded", "computed", "answered"}

Log == [count : 0 .. MaxWrites, at : [1 .. MaxWrites -> 0 .. MaxNow]]

CachesTyped ==
  /\ now \in 0 .. MaxNow /\ cache \in {"stats", "goals"}
  /\ rules \in Log /\ activity \in Log
  /\ entry \in CacheEntry
  /\ request \in [Requests -> Read]
  /\ pending \in Nat
  /\ floor \in Payload

\* Payload a shows what b shows.
AtLeast(a, b) == a.rules >= b.rules /\ a.beats >= b.beats

\* What read t is bound to show, with the floor f, in cache c.
ReadShown(t, f, c) ==
  /\ AtLeast(f, t.floor)
  /\ t.at = "looked" /\ t.seen.present => AtLeast(t.seen.shows, t.floor)
  /\ t.at = "looked" /\ c = "goals" => t.shows.rules >= f.rules
  /\ t.at \in {"loaded", "computed"} => t.shows.rules >= f.rules
  /\ t.at = "computed" => t.shows.beats >= f.beats
  /\ t.at = "answered" => AtLeast(t.shows, t.floor)

Shown ==
  /\ rules.count >= floor.rules /\ activity.count >= floor.beats
  /\ entry.present => AtLeast(entry.shows, floor)
  /\ \A q \in Requests : ReadShown(request[q], floor, cache)

\* The version n of w shows every write that was committed before t.
Covers(w, n, t) == \A i \in 1 .. w.count : w.at[i] < t => i <= n

\* With the settings r, the activity a and the time n: what was stored at e.at
\* was read by someone who began no earlier than the time one read takes before.
EntryTimed(e, r, a, n) ==
  e.present => /\ e.at <= n
               /\ Covers(r, e.shows.rules, e.at - Slowest)
               /\ Covers(a, e.shows.beats, e.at - Slowest)

ReadTimed(t, r, a, n, c) ==
  /\ t.at # "idle" => t.began <= n /\ n <= t.began + Slowest
  /\ t.at = "looked" => EntryTimed(t.seen, r, a, n)
  /\ t.at = "looked" /\ c = "goals" => Covers(r, t.shows.rules, t.began)
  /\ t.at \in {"loaded", "computed"} => Covers(r, t.shows.rules, t.began)
  /\ t.at = "computed" => Covers(a, t.shows.beats, t.began)
  /\ t.at = "answered" => LET age == (IF c = "goals" THEN GoalTTL ELSE StatsTTL) + Slowest
                          IN  /\ Covers(r, t.shows.rules, n - age)
                              /\ Covers(a, t.shows.beats, n - age)

Timed ==
  /\ EntryTimed(entry, rules, activity, now)
  /\ \A q \in Requests : ReadTimed(request[q], rules, activity, now, cache)

CachesInv == CachesTyped /\ Shown /\ Timed

-----------------------------------------------------------------------------
(* The least natural number of a set.                                      *)

\* A set of natural numbers has a least element.
LEMMA LeastNumber ==
  ASSUME NEW S \in SUBSET Nat, NEW k \in S
  PROVE  \E m \in S : \A n \in S : m <= n
<1>1. PICK m \in S : \A n \in S : ~ (<<n, m>> \in OpToRel(<, Nat))
  BY NatLessThanWellFounded, WFMin, Zenon
<1>2. OpToRel(<, Nat) = {ss \in Nat \X Nat : ss[1] < ss[2]}
  BY Zenon DEF OpToRel
<1>3. ASSUME NEW n \in S PROVE m <= n
  <2>1. <<n, m>> \in Nat \X Nat /\ <<n, m>>[1] = n /\ <<n, m>>[2] = m
    OBVIOUS
  <2>2. ~ (n < m)
    BY <1>1, <1>2, <2>1
  <2> QED BY <2>2
<1> QED BY <1>3

\* OlderThan is a number of writes, and the last one it counts is older than
\* `age`: what shows every write of that age is at least this number.
LEMMA OlderThanIsCovered ==
  ASSUME NEW w \in Log, NEW age \in Nat, now \in Nat, NEW n \in Nat,
         Covers(w, n, now - age)
  PROVE  n >= OlderThan(w, age)
<1> DEFINE P(k) == /\ k > 0 => w.at[k] + age < now
                   /\ k < w.count => w.at[k + 1] + age >= now
           S == {k \in 0 .. w.count : k < w.count => w.at[k + 1] + age >= now}
<1>0. /\ w.count \in 0 .. MaxWrites /\ w.count \in Nat /\ MaxWrites \in Nat
      /\ \A i \in 1 .. MaxWrites : w.at[i] \in Nat
  BY CachesAssumption DEF Log
<1>1. S \subseteq Nat /\ w.count \in S
  BY <1>0
<1>2. PICK m \in S : \A k \in S : m <= k
  BY <1>1, LeastNumber
<1>3. m \in 0 .. w.count /\ P(m)
  <2>1. ASSUME m > 0 PROVE w.at[m] + age < now
    <3>1. m - 1 \in 0 .. w.count /\ m - 1 \notin S /\ m - 1 < w.count
      BY <1>0, <1>2, <2>1
    <3>2. ~ (w.at[(m - 1) + 1] + age >= now)
      BY <3>1
    <3>3. m \in 1 .. MaxWrites /\ (m - 1) + 1 = m
      BY <1>0, <1>2, <2>1
    <3> QED BY <1>0, <3>2, <3>3
  <2> QED BY <1>2, <2>1
<1>4. OlderThan(w, age) \in 0 .. w.count /\ P(OlderThan(w, age))
  <2>1. OlderThan(w, age) = CHOOSE k \in 0 .. w.count : P(k)
    BY DEF OlderThan
  <2> HIDE DEF P
  <2> QED BY <1>3, <2>1
<1> HIDE DEF S
<1> DEFINE o == OlderThan(w, age)
<1>5. CASE o = 0
  BY <1>5
<1>6. CASE o > 0
  <2>1. w.at[o] + age < now /\ o \in 1 .. w.count /\ w.at[o] \in Nat
    BY <1>0, <1>4, <1>6
  <2> HIDE DEF o
  <2>2. w.at[o] < now - age
    BY <2>1
  <2> QED BY <2>1, <2>2 DEF Covers, o
<1> HIDE DEF P
<1> QED BY <1>0, <1>4, <1>5, <1>6


-----------------------------------------------------------------------------
(* Writes.                                                                 *)

\* w2 is w with writes at time n added.
Extends(w2, w, n) ==
  /\ w2.count >= w.count
  /\ \A i \in 1 .. w.count : w2.at[i] = w.at[i]
  /\ \A i \in w.count + 1 .. w2.count : w2.at[i] = n

\* A write adds one commit time to the log.
LEMMA WrittenExtends ==
  ASSUME NEW w \in Log, now \in 0 .. MaxNow, CanWrite(w)
  PROVE  Written(w) \in Log /\ Extends(Written(w), w, now) /\ Written(w).count = w.count + 1
<1>0. /\ MaxWrites \in Nat /\ w.count \in 0 .. MaxWrites /\ w.count + 1 \in 0 .. MaxWrites
      /\ w.at \in [1 .. MaxWrites -> 0 .. MaxNow] /\ w.count + 1 \in 1 .. MaxWrites
  BY CachesAssumption DEF Log, CanWrite
<1> DEFINE at == [w.at EXCEPT ![w.count + 1] = now]
<1>1. at \in [1 .. MaxWrites -> 0 .. MaxNow]
  BY <1>0
<1>2. Written(w).count = w.count + 1 /\ Written(w).at = at
      /\ Written(w) = [count |-> w.count + 1, at |-> at]
  BY DEF Written
<1>3. /\ \A i \in 1 .. w.count : at[i] = w.at[i]
      /\ \A i \in w.count + 1 .. w.count + 1 : at[i] = now
  BY <1>0
<1> HIDE DEF at
<1>4. Written(w) \in Log
  BY <1>0, <1>1, <1>2 DEF Log
<1> QED BY <1>0, <1>2, <1>3, <1>4 DEF Extends

\* A log is extended by nothing.
LEMMA ExtendsItself == \A w \in Log, n \in Nat : Extends(w, w, n)
<1>1. \A w \in Log : w.count \in Nat
  BY CachesAssumption DEF Log
<1> QED BY <1>1 DEF Extends

\* Writes at time n hide nothing that was committed before a time up to n, and
\* who shows what was committed before t shows what was before u <= t.
LEMMA CoversLater ==
  ASSUME NEW w \in Log, NEW w2 \in Log, NEW n \in Nat, NEW k \in Nat, NEW t \in Int,
         Extends(w2, w, n), Covers(w, k, t), NEW u \in Int, u <= t, u <= n
  PROVE  Covers(w2, k, u)
<1>0. /\ w.count \in Nat /\ w2.count \in 0 .. MaxWrites /\ MaxWrites \in Nat
      /\ w2.count \in Nat /\ \A i \in 1 .. MaxWrites : w2.at[i] \in Nat
  BY CachesAssumption DEF Log
<1> SUFFICES ASSUME NEW i \in 1 .. w2.count, w2.at[i] < u
             PROVE  i <= k
  BY DEF Covers
<1>1. CASE i <= w.count
  <2>1. i \in 1 .. w.count /\ w2.at[i] = w.at[i] /\ w2.at[i] < t
    BY <1>0, <1>1 DEF Extends
  <2> QED BY <2>1 DEF Covers
<1>2. CASE ~ (i <= w.count)
  <2>1. w2.at[i] = n
    BY <1>0, <1>2 DEF Extends
  <2> QED BY <2>1
<1> QED BY <1>1, <1>2

\* The newest version shows everything committed so far.
LEMMA NewestCovers == \A w \in Log, t \in Int : Covers(w, w.count, t)
BY DEF Covers

\* Entries and reads stay timed when something is written.
LEMMA TimedLater ==
  ASSUME NEW r \in Log, NEW a \in Log, NEW rr \in Log, NEW aa \in Log, NEW n \in Nat,
         Extends(rr, r, n), Extends(aa, a, n), NEW c
  PROVE  /\ \A e \in CacheEntry : EntryTimed(e, r, a, n) => EntryTimed(e, rr, aa, n)
         /\ \A t \in Read : ReadTimed(t, r, a, n, c) => ReadTimed(t, rr, aa, n, c)
<1>0. Slowest \in Nat /\ StatsTTL \in Nat /\ GoalTTL \in Nat /\ MaxWrites \in Nat /\ MaxNow \in Nat
  BY CachesAssumption
<1>1. ASSUME NEW e \in CacheEntry, EntryTimed(e, r, a, n) PROVE EntryTimed(e, rr, aa, n)
  <2>1. /\ e.at \in Nat /\ e.shows.rules \in Nat /\ e.shows.beats \in Nat
        /\ e.at - Slowest \in Int /\ (e.at <= n => e.at - Slowest <= n)
    BY <1>0 DEF CacheEntry, Payload
  <2> QED BY <1>1, <2>1, CoversLater DEF EntryTimed
<1>2. ASSUME NEW t \in Read, ReadTimed(t, r, a, n, c) PROVE ReadTimed(t, rr, aa, n, c)
  <2> DEFINE age == (IF c = "goals" THEN GoalTTL ELSE StatsTTL) + Slowest
  <2>1. /\ t.began \in Nat /\ t.shows.rules \in Nat /\ t.shows.beats \in Nat
        /\ t.seen \in CacheEntry /\ age \in Nat /\ n - age \in Int /\ n - age <= n
    BY <1>0 DEF Read, Payload
  <2> HIDE DEF age
  <2>2. t.at = "looked" => EntryTimed(t.seen, rr, aa, n)
    BY <1>1, <1>2, <2>1 DEF ReadTimed
  <2>3. t.at # "idle" => t.began <= n /\ n <= t.began + Slowest
    BY <1>2 DEF ReadTimed
  <2>4. /\ t.at = "looked" /\ c = "goals" => Covers(rr, t.shows.rules, t.began)
        /\ t.at \in {"loaded", "computed"} => Covers(rr, t.shows.rules, t.began)
        /\ t.at = "computed" => Covers(aa, t.shows.beats, t.began)
    BY <1>2, <2>1, <2>3, CoversLater DEF ReadTimed
  <2>5. t.at = "answered" => /\ Covers(rr, t.shows.rules, n - age)
                             /\ Covers(aa, t.shows.beats, n - age)
    <3>1. t.at = "answered" => /\ Covers(r, t.shows.rules, n - age)
                               /\ Covers(a, t.shows.beats, n - age)
      BY <1>2 DEF ReadTimed, age
    <3> QED BY <2>1, <3>1, CoversLater
  <2> QED BY <2>2, <2>3, <2>4, <2>5 DEF ReadTimed, age
<1> QED BY <1>1, <1>2

-----------------------------------------------------------------------------
(* The two kinds of step.                                                  *)

\* Writes, invalidations and the sweep: reads stay where they are, the entry
\* stays or goes, and the floor is raised only with the entry gone and nobody
\* under way.
LEMMA WorldMoves ==
  ASSUME CachesInv, UNCHANGED <<now, cache, request>>,
         rules' \in Log, activity' \in Log,
         Extends(rules', rules, now), Extends(activity', activity, now),
         pending' \in Nat, entry' \in {entry, NoEntry},
         \/ floor' = floor
         \/ /\ entry' = NoEntry /\ ~ Underway
            /\ floor' = [rules |-> rules'.count, beats |-> activity'.count]
  PROVE  CachesInv'
<1>0. /\ now \in Nat /\ rules \in Log /\ activity \in Log /\ floor \in Payload
      /\ entry \in CacheEntry /\ request \in [Requests -> Read] /\ NoEntry \in CacheEntry
      /\ MaxWrites \in Nat /\ MaxNow \in Nat /\ now \in 0 .. MaxNow /\ ~ NoEntry.present
  BY CachesAssumption DEF CachesInv, CachesTyped, NoEntry, CacheEntry, Nothing, Payload
<1>1. /\ rules'.count \in 0 .. MaxWrites /\ activity'.count \in 0 .. MaxWrites
      /\ rules'.count >= rules.count /\ activity'.count >= activity.count
      /\ rules.count \in Nat /\ activity.count \in Nat
  BY <1>0 DEF Log, Extends
<1>2. floor' \in Payload /\ floor'.rules <= rules'.count /\ floor'.beats <= activity'.count
      /\ AtLeast(floor', floor)
  BY <1>0, <1>1 DEF CachesInv, Shown, Payload, AtLeast
<1>3. CachesTyped'
  BY <1>0, <1>2 DEF CachesInv, CachesTyped
<1>4. Timed'
  <2>1. EntryTimed(entry', rules', activity', now)
    BY <1>0, TimedLater DEF CachesInv, Timed, EntryTimed
  <2>2. \A q \in Requests : ReadTimed(request[q], rules', activity', now, cache)
    BY <1>0, TimedLater DEF CachesInv, Timed
  <2> QED BY <2>1, <2>2 DEF Timed
<1>5. entry'.present => AtLeast(entry'.shows, floor')
  BY <1>0 DEF CachesInv, Shown
<1>6. ASSUME NEW q \in Requests PROVE ReadShown(request[q], floor', cache)
  <2>1. ReadShown(request[q], floor, cache) /\ request[q] \in Read /\ request[q].floor \in Payload
    BY <1>0 DEF CachesInv, Shown, Read
  <2>2. AtLeast(floor', request[q].floor)
    BY <1>0, <1>2, <2>1 DEF ReadShown, AtLeast, Payload
  <2>3. CASE floor' = floor
    BY <2>1, <2>3
  <2>4. CASE ~ Underway
    <3>1. /\ request[q].at \notin {"loaded", "computed"}
          /\ ~ (request[q].at = "looked" /\ cache = "goals")
      BY <2>4 DEF Underway
    <3> QED BY <2>1, <2>2, <3>1 DEF ReadShown
  <2> QED BY <2>3, <2>4
<1>7. Shown'
  BY <1>1, <1>2, <1>5, <1>6 DEF Shown
<1> QED BY <1>3, <1>4, <1>7 DEF CachesInv

\* A read goes on.
LEMMA ReadMoves ==
  ASSUME CachesInv, UNCHANGED <<now, cache, rules, activity, pending, floor>>,
         NEW q \in Requests, NEW t \in Read, request' = [request EXCEPT ![q] = t],
         entry' \in CacheEntry, EntryTimed(entry', rules, activity, now),
         entry'.present => AtLeast(entry'.shows, floor),
         ReadShown(t, floor, cache), ReadTimed(t, rules, activity, now, cache)
  PROVE  CachesInv'
<1>0. request \in [Requests -> Read] /\ request'[q] = t /\ request' \in [Requests -> Read]
      /\ \A p \in Requests \ {q} : request'[p] = request[p]
  BY DEF CachesInv, CachesTyped
<1>1. CachesTyped'
  BY <1>0 DEF CachesInv, CachesTyped
<1>2. \A p \in Requests : /\ ReadShown(request'[p], floor, cache)
                          /\ ReadTimed(request'[p], rules, activity, now, cache)
  BY <1>0 DEF CachesInv, Shown, Timed
<1>3. Shown'
  BY <1>2 DEF CachesInv, Shown
<1>4. Timed'
  BY <1>2 DEF Timed
<1> QED BY <1>1, <1>3, <1>4 DEF CachesInv


-----------------------------------------------------------------------------
(* The steps of a read.                                                    *)

\* What is known of the read that moves.
LEMMA ReadFacts ==
  ASSUME CachesInv, NEW q \in Requests
  PROVE  /\ request[q] \in Read /\ request[q].seen \in CacheEntry
         /\ ReadShown(request[q], floor, cache)
         /\ ReadTimed(request[q], rules, activity, now, cache)
         /\ entry \in CacheEntry /\ NoEntry \in CacheEntry /\ ~ NoEntry.present
         /\ EntryTimed(entry, rules, activity, now) /\ EntryTimed(NoEntry, rules, activity, now)
         /\ entry.present => AtLeast(entry.shows, floor)
         /\ rules.count \in 0 .. MaxWrites /\ activity.count \in 0 .. MaxWrites
         /\ rules.count >= floor.rules /\ activity.count >= floor.beats
         /\ rules \in Log /\ activity \in Log /\ now \in 0 .. MaxNow /\ floor \in Payload
         /\ {StatsTTL, GoalTTL} \subseteq Nat /\ {Slowest, MaxNow, MaxWrites} \subseteq Nat
<1>1. NoEntry \in CacheEntry /\ ~ NoEntry.present
  BY CachesAssumption DEF NoEntry, CacheEntry, Nothing, Payload
<1>2. EntryTimed(NoEntry, rules, activity, now)
  BY <1>1 DEF EntryTimed
<1>3. request[q] \in Read /\ request[q].seen \in CacheEntry
  BY DEF CachesInv, CachesTyped, Read
<1>4. rules.count \in 0 .. MaxWrites /\ activity.count \in 0 .. MaxWrites
  BY DEF CachesInv, CachesTyped, Log
<1> QED BY <1>1, <1>2, <1>3, <1>4, CachesAssumption DEF CachesInv, CachesTyped, Shown, Timed

\* The lookup sees the entry, and of a goal the spec.
LEMMA LookKeeps ==
  ASSUME CachesInv, NEW q \in Requests, Look(q)
  PROVE  CachesInv'
<1> DEFINE goal == cache = "goals"
           s == IF goal THEN [Nothing EXCEPT !.rules = rules.count] ELSE Nothing
           t == [at |-> "looked", began |-> now, seen |-> entry, shows |-> s, floor |-> floor]
<1>1. /\ s \in Payload
      /\ goal => s.rules = rules.count
  <2>1. Nothing \in Payload /\ rules.count \in 0 .. MaxWrites
    BY ReadFacts DEF Nothing, Payload
  <2>2. [Nothing EXCEPT !.rules = rules.count] \in Payload
        /\ [Nothing EXCEPT !.rules = rules.count].rules = rules.count
    BY <2>1 DEF Payload
  <2> QED BY <2>1, <2>2
<1> HIDE DEF s, goal
<1>2. t \in Read
  <2>1. now \in 0 .. MaxNow /\ entry \in CacheEntry /\ floor \in Payload
    BY ReadFacts
  <2> QED BY <1>1, <2>1 DEF Read
<1>3. ReadShown(t, floor, cache)
  <2>1. AtLeast(floor, floor)
    BY ReadFacts DEF AtLeast, Payload
  <2> QED BY <1>1, <2>1, ReadFacts DEF ReadShown, goal
<1>4. ReadTimed(t, rules, activity, now, cache)
  <2>1. goal => Covers(rules, s.rules, now)
    BY <1>1, ReadFacts, NewestCovers
  <2>2. now <= now + Slowest
    BY ReadFacts
  <2> QED BY <2>1, <2>2, ReadFacts DEF ReadTimed, goal
<1>5. request' = [request EXCEPT ![q] = t]
  BY DEF Look, s, goal
<1> HIDE DEF t
<1> QED BY <1>2, <1>3, <1>4, <1>5, ReadFacts, ReadMoves DEF Look

\* An answer from the cache shows what the entry shows, which is young enough.
LEMMA HitKeeps ==
  ASSUME CachesInv, NEW q \in Requests, Hit(q)
  PROVE  CachesInv'
<1> DEFINE u == request[q]
           e == u.seen
           t == [u EXCEPT !.at = "answered", !.seen = NoEntry, !.shows = e.shows]
           age == (IF cache = "goals" THEN GoalTTL ELSE StatsTTL) + Slowest
<1>1. /\ u \in Read /\ e \in CacheEntry /\ u.at = "looked" /\ e.present
      /\ EntryTimed(e, rules, activity, now) /\ AtLeast(e.shows, u.floor)
      /\ e.at \in Nat /\ e.shows.rules \in Nat /\ e.shows.beats \in Nat /\ e.shows \in Payload
      /\ u.began <= now /\ now <= u.began + Slowest /\ AtLeast(floor, u.floor)
  BY ReadFacts DEF Hit, IsFresh, ReadTimed, ReadShown, CacheEntry, Payload
<1>2. now - age \in Int /\ now - age <= now /\ now - age <= e.at - Slowest
  BY <1>1, ReadFacts DEF Hit, IsFresh
<1> HIDE DEF age, u, e
<1>3. /\ Covers(rules, e.shows.rules, now - age)
      /\ Covers(activity, e.shows.beats, now - age)
  <2>1. /\ Covers(rules, e.shows.rules, e.at - Slowest)
        /\ Covers(activity, e.shows.beats, e.at - Slowest)
    BY <1>1 DEF EntryTimed
  <2>2. Extends(rules, rules, now) /\ Extends(activity, activity, now) /\ e.at - Slowest \in Int
    BY <1>1, ReadFacts, ExtendsItself
  <2> QED BY <1>1, <1>2, <2>1, <2>2, ReadFacts, CoversLater
<1>4. /\ t \in Read /\ t.at = "answered" /\ t.began = u.began /\ t.floor = u.floor
      /\ t.shows = e.shows
  BY <1>1, ReadFacts DEF Read
<1>5. request' = [request EXCEPT ![q] = t]
  BY ReadFacts DEF Hit, u, e, CachesInv, CachesTyped, Read
<1> HIDE DEF t
<1>6. ReadShown(t, floor, cache)
  BY <1>1, <1>4 DEF ReadShown
<1>7. ReadTimed(t, rules, activity, now, cache)
  BY <1>1, <1>3, <1>4 DEF ReadTimed, age
<1> QED BY <1>4, <1>5, <1>6, <1>7, ReadFacts, ReadMoves DEF Hit

\* A miss leaves the entry or removes it, and has the newest settings.
LEMMA MissKeeps ==
  ASSUME CachesInv, NEW q \in Requests, Miss(q)
  PROVE  CachesInv'
<1> DEFINE u == request[q]
           k == IF cache = "goals" THEN u.shows.rules ELSE rules.count
           t == [u EXCEPT !.at = "loaded", !.seen = NoEntry, !.shows.rules = k]
<1>1. /\ u \in Read /\ u.at = "looked" /\ u.shows \in Payload
      /\ u.began \in Nat /\ u.began <= now /\ now <= u.began + Slowest /\ AtLeast(floor, u.floor)
      /\ u.shows.rules \in 0 .. MaxWrites
  BY ReadFacts DEF Miss, ReadTimed, ReadShown, Read, Payload
<1>2. k \in 0 .. MaxWrites /\ k >= floor.rules /\ Covers(rules, k, u.began)
  BY <1>1, ReadFacts, NewestCovers DEF ReadShown, ReadTimed
<1> HIDE DEF k
<1>3. /\ t \in Read /\ t.at = "loaded" /\ t.began = u.began /\ t.floor = u.floor
      /\ t.shows.rules = k
  BY <1>1, <1>2, ReadFacts DEF Read, Payload
<1>4. request' = [request EXCEPT ![q] = t]
  BY ReadFacts DEF Miss, k, CachesInv, CachesTyped, Read, Payload
<1> HIDE DEF t, u
<1>5. ReadShown(t, floor, cache) /\ ReadTimed(t, rules, activity, now, cache)
  BY <1>1, <1>2, <1>3 DEF ReadShown, ReadTimed
<1>6. entry' \in {entry, NoEntry}
  BY DEF Miss
<1>7. /\ entry' \in CacheEntry /\ EntryTimed(entry', rules, activity, now)
      /\ entry'.present => AtLeast(entry'.shows, floor)
  BY <1>6, ReadFacts
<1> QED BY <1>3, <1>4, <1>5, <1>7, ReadMoves DEF Miss

\* The query sees the newest activity.
LEMMA QueryKeeps ==
  ASSUME CachesInv, NEW q \in Requests, Query(q)
  PROVE  CachesInv'
<1> DEFINE u == request[q]
           t == [u EXCEPT !.at = "computed", !.shows.beats = activity.count]
<1>1. /\ u \in Read /\ u.at = "loaded" /\ u.shows \in Payload /\ u.began \in Nat
      /\ u.began <= now /\ now <= u.began + Slowest /\ AtLeast(floor, u.floor)
      /\ u.shows.rules >= floor.rules /\ Covers(rules, u.shows.rules, u.began)
  BY ReadFacts DEF Query, ReadTimed, ReadShown, Read
<1>2. /\ t \in Read /\ t.at = "computed" /\ t.began = u.began /\ t.floor = u.floor
      /\ t.shows.rules = u.shows.rules /\ t.shows.beats = activity.count
  BY <1>1, ReadFacts DEF Read, Payload
<1>3. request' = [request EXCEPT ![q] = t]
  BY ReadFacts DEF Query, CachesInv, CachesTyped, Read, Payload
<1> HIDE DEF t, u
<1>4. Covers(activity, activity.count, u.began)
  BY <1>1, ReadFacts, NewestCovers
<1>5. ReadShown(t, floor, cache) /\ ReadTimed(t, rules, activity, now, cache)
  BY <1>1, <1>2, <1>4, ReadFacts DEF ReadShown, ReadTimed
<1> QED BY <1>2, <1>3, <1>5, ReadFacts, ReadMoves DEF Query

\* What is stored shows what the read is bound to show.
LEMMA StoreAnswerKeeps ==
  ASSUME CachesInv, NEW q \in Requests, StoreAnswer(q)
  PROVE  CachesInv'
<1> DEFINE u == request[q]
           e == [present |-> TRUE, at |-> now, shows |-> u.shows]
           t == [u EXCEPT !.at = "answered"]
           age == (IF cache = "goals" THEN GoalTTL ELSE StatsTTL) + Slowest
<1>1. /\ u \in Read /\ u.at = "computed" /\ u.shows \in Payload /\ u.began \in Nat
      /\ u.shows.rules \in Nat /\ u.shows.beats \in Nat /\ u.floor \in Payload
      /\ u.began <= now /\ now <= u.began + Slowest /\ AtLeast(floor, u.floor)
      /\ AtLeast(u.shows, floor)
      /\ Covers(rules, u.shows.rules, u.began) /\ Covers(activity, u.shows.beats, u.began)
  BY ReadFacts DEF StoreAnswer, ReadTimed, ReadShown, Read, Payload, AtLeast
<1>2. /\ now - age \in Int /\ now - age <= now /\ now - age <= u.began
      /\ now - Slowest \in Int /\ now - Slowest <= now /\ now - Slowest <= u.began
  BY <1>1, ReadFacts
<1> HIDE DEF age
<1>3. /\ t \in Read /\ t.at = "answered" /\ t.began = u.began /\ t.floor = u.floor
      /\ t.shows = u.shows
  BY <1>1 DEF Read
<1>4. request' = [request EXCEPT ![q] = t]
  BY ReadFacts DEF StoreAnswer, CachesInv, CachesTyped, Read
<1> HIDE DEF t, u
<1>5. \A k \in {now - age, now - Slowest} :
        Covers(rules, u.shows.rules, k) /\ Covers(activity, u.shows.beats, k)
  <2>1. Extends(rules, rules, now) /\ Extends(activity, activity, now)
    BY ReadFacts, ExtendsItself
  <2> QED BY <1>1, <1>2, <2>1, ReadFacts, CoversLater
<1>6. ReadShown(t, floor, cache)
  BY <1>1, <1>3, ReadFacts DEF ReadShown, AtLeast, Payload
<1>7. ReadTimed(t, rules, activity, now, cache)
  BY <1>1, <1>3, <1>5 DEF ReadTimed, age
<1>8. e \in CacheEntry /\ EntryTimed(e, rules, activity, now) /\ AtLeast(e.shows, floor)
  BY <1>1, <1>5, ReadFacts DEF CacheEntry, EntryTimed
<1>9. entry' = e \/ entry' = entry
  BY DEF StoreAnswer, u
<1> HIDE DEF e
<1>10. /\ entry' \in CacheEntry /\ EntryTimed(entry', rules, activity, now)
       /\ entry'.present => AtLeast(entry'.shows, floor)
  BY <1>8, <1>9, ReadFacts
<1> QED BY <1>3, <1>4, <1>6, <1>7, <1>10, ReadMoves DEF StoreAnswer

\* A request that is over is bound to nothing.
LEMMA NoRequestIsFine ==
  ASSUME CachesInv
  PROVE  /\ NoRequest \in Read /\ ReadShown(NoRequest, floor, cache)
         /\ ReadTimed(NoRequest, rules, activity, now, cache)
<1>1. floor \in Payload /\ NoEntry \in CacheEntry /\ Nothing \in Payload
  BY CachesAssumption DEF CachesInv, CachesTyped, NoEntry, CacheEntry, Nothing, Payload
<1>2. NoRequest \in Read
  BY <1>1, CachesAssumption DEF NoRequest, Read
<1>3. ReadShown(NoRequest, floor, cache)
  BY <1>1, CachesAssumption DEF NoRequest, ReadShown, AtLeast, Nothing, Payload
<1>4. ReadTimed(NoRequest, rules, activity, now, cache)
  BY DEF NoRequest, ReadTimed
<1> QED BY <1>2, <1>3, <1>4


-----------------------------------------------------------------------------
(* Every step.                                                             *)

\* Writes, invalidations and the sweep.
LEMMA WorldKeeps ==
  ASSUME CachesInv,
         \/ WriteSettings \/ UpdateGoal \/ WriteActivity
         \/ Invalidate \/ InvalidationFails \/ Sweep
  PROVE  CachesInv'
<1>0. /\ rules \in Log /\ activity \in Log /\ now \in 0 .. MaxNow /\ now \in Nat /\ pending \in Nat
  BY CachesAssumption DEF CachesInv, CachesTyped
<1>1. Extends(rules, rules, now) /\ Extends(activity, activity, now)
  BY <1>0, ExtendsItself
<1>2. CASE WriteSettings
  <2>1. rules' \in Log /\ Extends(rules', rules, now)
    BY <1>0, <1>2, WrittenExtends DEF WriteSettings
  <2> QED BY <1>0, <1>1, <1>2, <2>1, WorldMoves DEF WriteSettings
<1>3. CASE WriteActivity
  <2>1. activity' \in Log /\ Extends(activity', activity, now)
    BY <1>0, <1>3, WrittenExtends DEF WriteActivity
  <2> QED BY <1>0, <1>1, <1>3, <2>1, WorldMoves DEF WriteActivity
<1>4. CASE UpdateGoal
  <2>1. rules' \in Log /\ Extends(rules', rules, now)
    BY <1>0, <1>4, WrittenExtends DEF UpdateGoal
  <2>2. \/ floor' = floor
        \/ /\ entry' = NoEntry /\ ~ Underway
           /\ floor' = [rules |-> rules'.count, beats |-> activity'.count]
    BY <1>4 DEF UpdateGoal, Raised, Cleared
  <2> QED BY <1>0, <1>1, <1>4, <2>1, <2>2, WorldMoves DEF UpdateGoal, Cleared
<1>5. CASE Invalidate
  <2>1. \/ floor' = floor
        \/ /\ entry' = NoEntry /\ ~ Underway
           /\ floor' = [rules |-> rules'.count, beats |-> activity'.count]
    BY <1>5 DEF Invalidate, Raised
  <2> QED BY <1>0, <1>1, <1>5, <2>1, WorldMoves DEF Invalidate
<1>6. CASE InvalidationFails
  BY <1>0, <1>1, <1>6, WorldMoves DEF InvalidationFails
<1>7. CASE Sweep
  BY <1>0, <1>1, <1>7, WorldMoves DEF Sweep
<1> QED BY <1>2, <1>3, <1>4, <1>5, <1>6, <1>7

\* A restart forgets the entry and the reads.
LEMMA RestartKeeps ==
  ASSUME CachesInv, Restart
  PROVE  CachesInv'
<1>1. entry' = NoEntry /\ request' = [q \in Requests |-> NoRequest] /\ pending' = 0
      /\ UNCHANGED <<now, cache, rules, activity, floor>>
  BY DEF Restart
<1>2. NoEntry \in CacheEntry /\ ~ NoEntry.present
  BY CachesAssumption DEF NoEntry, CacheEntry, Nothing, Payload
<1>3. CachesTyped'
  BY <1>1, <1>2, NoRequestIsFine DEF CachesInv, CachesTyped
<1>4. Shown'
  BY <1>1, <1>2, NoRequestIsFine DEF CachesInv, Shown
<1>5. Timed'
  BY <1>1, <1>2, NoRequestIsFine DEF Timed, EntryTimed
<1> QED BY <1>3, <1>4, <1>5 DEF CachesInv

\* Time passes for reads that have time left, and for no answer.
LEMMA TickKeeps ==
  ASSUME CachesInv, CacheTick
  PROVE  CachesInv'
<1>1. /\ now < MaxNow /\ now' = now + 1 /\ now \in 0 .. MaxNow /\ MaxNow \in Nat
      /\ UNCHANGED <<cache, rules, activity, entry, request, pending, floor>>
  BY CachesAssumption DEF CacheTick, CachesInv, CachesTyped
<1>2. CachesTyped'
  BY <1>1 DEF CachesInv, CachesTyped
<1>3. Shown'
  BY <1>1 DEF CachesInv, Shown
<1>4. \A e \in CacheEntry :
        EntryTimed(e, rules, activity, now) => EntryTimed(e, rules, activity, now + 1)
  BY <1>1 DEF EntryTimed, CacheEntry
<1>5. ASSUME NEW q \in Requests PROVE ReadTimed(request[q], rules, activity, now + 1, cache)
  <2>1. /\ request[q].at # "answered" /\ request[q].began \in Nat
        /\ request[q].at # "idle" => now < request[q].began + Slowest
        /\ ReadTimed(request[q], rules, activity, now, cache) /\ request[q].seen \in CacheEntry
        /\ Slowest \in Nat
    BY <1>1, CachesAssumption DEF CacheTick, CachesInv, CachesTyped, Timed, Read
  <2>2. request[q].at # "idle" =>
          request[q].began <= now + 1 /\ now + 1 <= request[q].began + Slowest
    BY <1>1, <2>1 DEF ReadTimed
  <2> QED BY <1>4, <2>1, <2>2 DEF ReadTimed
<1>6. entry \in CacheEntry /\ EntryTimed(entry, rules, activity, now)
  BY DEF CachesInv, CachesTyped, Timed
<1>7. Timed'
  BY <1>1, <1>4, <1>5, <1>6 DEF Timed
<1> QED BY <1>2, <1>3, <1>7 DEF CachesInv

\* In the first state nothing is cached, written or under way.
LEMMA InitCaches == CachesInit => CachesInv
<1> SUFFICES ASSUME CachesInit PROVE CachesInv
  OBVIOUS
<1>0. /\ now = 0 /\ rules = NoWrites /\ activity = NoWrites /\ entry = NoEntry /\ floor = Nothing
      /\ request = [q \in Requests |-> NoRequest] /\ pending = 0 /\ cache \in {"stats", "goals"}
      /\ {Slowest, MaxNow, MaxWrites} \subseteq Nat
  BY CachesAssumption DEF CachesInit
<1>1. Nothing \in Payload /\ NoEntry \in CacheEntry /\ ~ NoEntry.present
      /\ Nothing.rules = 0 /\ Nothing.beats = 0
  BY <1>0 DEF Nothing, NoEntry, CacheEntry, Payload
<1>2. NoWrites \in Log /\ NoWrites.count = 0
  BY <1>0 DEF NoWrites, Log
<1>3. /\ NoRequest \in Read /\ NoRequest.at = "idle" /\ NoRequest.floor = Nothing
  BY <1>0, <1>1 DEF NoRequest, Read
<1>4. CachesTyped
  BY <1>0, <1>1, <1>2, <1>3 DEF CachesTyped
<1>5. Shown
  BY <1>0, <1>1, <1>2, <1>3 DEF Shown, ReadShown, AtLeast
<1>6. Timed
  BY <1>0, <1>1, <1>3 DEF Timed, EntryTimed, ReadTimed
<1> QED BY <1>4, <1>5, <1>6 DEF CachesInv

\* Every step keeps the three of them.
LEMMA NextCaches == CachesInv /\ [CachesNext]_cacheVars => CachesInv'
<1> SUFFICES ASSUME CachesInv, [CachesNext]_cacheVars PROVE CachesInv'
  OBVIOUS
<1>1. CASE \E q \in Requests : Look(q) \/ Hit(q) \/ Miss(q) \/ Query(q) \/ StoreAnswer(q)
  BY <1>1, LookKeeps, HitKeeps, MissKeeps, QueryKeeps, StoreAnswerKeeps
<1>2. CASE \E q \in Requests : EndRead(q)
  <2>1. PICK q \in Requests : EndRead(q)
    BY <1>2
  <2>2. request' = [request EXCEPT ![q] = NoRequest]
        /\ UNCHANGED <<now, cache, rules, activity, entry, pending, floor>>
    BY <2>1 DEF EndRead
  <2> QED BY <2>2, NoRequestIsFine, ReadFacts, ReadMoves
<1>3. CASE \/ WriteSettings \/ UpdateGoal \/ WriteActivity
           \/ Invalidate \/ InvalidationFails \/ Sweep
  BY <1>3, WorldKeeps
<1>4. CASE Restart
  BY <1>4, RestartKeeps
<1>5. CASE CacheTick
  BY <1>5, TickKeeps
<1>6. CASE UNCHANGED cacheVars
  <2>1. UNCHANGED <<now, cache, rules, activity, entry, request, pending, floor>>
    BY <1>6 DEF cacheVars
  <2>2. CachesTyped' /\ Shown'
    BY <2>1 DEF CachesInv, CachesTyped, Shown
  <2>3. Timed'
    BY <2>1 DEF CachesInv, Timed
  <2> QED BY <2>2, <2>3 DEF CachesInv
<1> QED BY <1>1, <1>2, <1>3, <1>4, <1>5, <1>6 DEF CachesNext

\* The invariants hold in every behaviour of the caches.
THEOREM CachesCorrect == CachesSpec => []CachesInv
BY InitCaches, NextCaches, PTL DEF CachesSpec

-----------------------------------------------------------------------------
(* What follows.                                                           *)

\* A write that has invalidated a cache shows in every answer from it to a
\* request that begins afterwards (InvalidateOwnerCache,
\* InvalidateGoalsForOwner, the clearing of UpdateGoal), unless a read was
\* computing at that moment, for any number of reads and writes.
THEOREM InvalidationHolds == CachesSpec => []InvalidatedIsGone
<1>1. CachesInv => InvalidatedIsGone
  BY DEF CachesInv, Shown, ReadShown, AtLeast, InvalidatedIsGone
<1> QED BY <1>1, CachesCorrect, PTL

\* No answer hides a write for longer than the TTL and the time one read takes
\* (Get, evalGoal), whatever late stores, failing invalidations and other
\* replicas do, for every TTL and every such time.
THEOREM StalenessIsBounded == CachesSpec => []StaleForAWhile
<1>1. CachesInv => StaleForAWhile
  <2> SUFFICES ASSUME CachesInv, NEW q \in Requests, request[q].at = "answered"
               PROVE  /\ request[q].shows.rules >= OlderThan(rules, TTL + Slowest)
                      /\ request[q].shows.beats >= OlderThan(activity, TTL + Slowest)
    BY DEF StaleForAWhile
  <2> DEFINE age == TTL + Slowest
  <2>1. /\ rules \in Log /\ activity \in Log /\ now \in Nat /\ age \in Nat
        /\ request[q].shows.rules \in Nat /\ request[q].shows.beats \in Nat
    <3>1. request[q].shows \in Payload
      BY DEF CachesInv, CachesTyped, Read
    <3> QED BY <3>1, CachesAssumption DEF CachesInv, CachesTyped, TTL, Payload
  <2>2. /\ Covers(rules, request[q].shows.rules, now - age)
        /\ Covers(activity, request[q].shows.beats, now - age)
    BY DEF CachesInv, Timed, ReadTimed, TTL
  <2> HIDE DEF age
  <2>3. /\ request[q].shows.rules >= OlderThan(rules, age)
        /\ request[q].shows.beats >= OlderThan(activity, age)
    BY <2>1, <2>2, OlderThanIsCovered
  <2> QED BY <2>3 DEF age
<1> QED BY <1>1, CachesCorrect, PTL

\* Payloads, entries and reads have their shape, for every value of the
\* constants.
THEOREM CachesTypes == CachesSpec => []CachesTypeOK
<1>1. CachesInv => CachesTypeOK
  BY DEF CachesInv, CachesTyped, CachesTypeOK, Log
<1> QED BY <1>1, CachesCorrect, PTL

-----------------------------------------------------------------------------
(* Kindle reading time.                                                   *)

\* The samples of a book: no two of one time.
IsSamples(S) == S \subseteq Position /\ \A r \in S, s \in S : r.at = s.at => r = s

Pairs(S) == {p \in Consecutive(S) : Counts(p[1], p[2])}

\* The instants of day d at which the book was being read, and those of one pair.
Instants(S, d) == {t \in 0 .. MaxTick : t \div DayLen = d /\ ReadAt(S, t)}

Between(a, b, d) == {t \in 0 .. MaxTick : a <= t /\ t < b /\ t \div DayLen = d}

LEMMA KindleConstants ==
  /\ DayLen \in Nat \ {0} /\ SessionGap \in Nat \ {0} /\ IdleGap \in Nat \ {0}
  /\ MaxTick \in Nat /\ MaxPage \in Nat /\ MaxMishaps \in Nat
  /\ DetectInterval \in Nat /\ CaptureInterval \in Nat
  /\ FirstTick \in 0 .. MaxTick /\ IsFiniteSet(Volumes)
BY KindleAssumption

\* Day d is the instants from d * DayLen on, DayLen of them.
LEMMA DayOfInstant ==
  ASSUME NEW t \in Nat, NEW d \in Nat
  PROVE  /\ t \div DayLen \in Nat
         /\ t \div DayLen = d <=> d * DayLen <= t /\ t < d * DayLen + DayLen
<1> DEFINE q == t \div DayLen
<1>1. /\ q \in Nat /\ DayLen \in Nat \ {0}
      /\ q * DayLen <= t /\ t < q * DayLen + DayLen
  BY KindleConstants
<1> HIDE DEF q
<1>2. ASSUME d * DayLen <= t, t < d * DayLen + DayLen PROVE q = d
  <2>1. /\ (q + 1) * DayLen = q * DayLen + DayLen /\ (d + 1) * DayLen = d * DayLen + DayLen
        /\ q * DayLen \in Nat /\ d * DayLen \in Nat
    BY <1>1
  <2>2. ~ (q + 1 <= d)
    <3> SUFFICES ASSUME q + 1 <= d PROVE FALSE
      OBVIOUS
    <3>1. (q + 1) * DayLen <= d * DayLen
      BY <1>1
    <3> QED BY <3>1, <2>1, <1>1, <1>2
  <2>3. ~ (d + 1 <= q)
    <3> SUFFICES ASSUME d + 1 <= q PROVE FALSE
      OBVIOUS
    <3>1. (d + 1) * DayLen <= q * DayLen
      BY <1>1
    <3> QED BY <3>1, <2>1, <1>1, <1>2
  <2> QED BY <2>2, <2>3, <1>1
<1> QED BY <1>1, <1>2 DEF q

LEMMA DaysOfInstants ==
  /\ \A d \in Days : d \in Nat
  /\ \A t \in 0 .. MaxTick : t \div DayLen \in Days
  /\ IsFiniteSet(Days)
<1>1. MaxTick \div DayLen \in Nat /\ MaxTick \in Nat /\ DayLen \in Nat \ {0}
  BY KindleConstants
<1>2. ASSUME NEW t \in 0 .. MaxTick PROVE t \div DayLen \in Days
  <2> DEFINE q == t \div DayLen
             m == MaxTick \div DayLen
  <2>1. /\ q \in Nat /\ m \in Nat /\ t \in Nat /\ t <= MaxTick
        /\ q * DayLen <= t /\ MaxTick < m * DayLen + DayLen
    BY <1>1, DayOfInstant
  <2> HIDE DEF q, m
  <2>2. ~ (m + 1 <= q)
    <3> SUFFICES ASSUME m + 1 <= q PROVE FALSE
      OBVIOUS
    <3>1. (m + 1) * DayLen <= q * DayLen
      BY <1>1, <2>1
    <3>2. (m + 1) * DayLen = m * DayLen + DayLen /\ m * DayLen \in Nat /\ q * DayLen \in Nat
      BY <1>1, <2>1
    <3> QED BY <3>1, <3>2, <2>1, <1>1
  <2> QED BY <2>1, <2>2 DEF Days, q, m
<1> QED BY <1>1, <1>2, FS_Interval DEF Days

LEMMA TwoAreFinite == \A x, y : IsFiniteSet({x, y})
<1> TAKE x, y
<1>1. IsFiniteSet({x}) /\ {x, y} = {x} \cup {y}
  BY FS_Singleton
<1> QED BY <1>1, FS_AddElement

\* The seconds OnDay gives an interval are its instants of that day.
LEMMA OnDayCounts ==
  ASSUME NEW a \in 0 .. MaxTick, NEW b \in 0 .. MaxTick, NEW d \in Days
  PROVE  IsFiniteSet(Between(a, b, d)) /\ Cardinality(Between(a, b, d)) = OnDay(a, b, d)
<1> DEFINE low == d * DayLen
           high == (d + 1) * DayLen
           first == Max({a, low})
           last == Min({b, high})
<1>1. /\ d \in Nat /\ DayLen \in Nat \ {0} /\ MaxTick \in Nat /\ a \in Nat /\ b \in Nat
      /\ low \in Nat /\ high \in Nat /\ high = low + DayLen
  BY KindleConstants, DaysOfInstants
<1>2. OnDay(a, b, d) = IF first < last THEN last - first ELSE 0
  BY DEF OnDay
<1>3. \A t \in 0 .. MaxTick : t \div DayLen = d <=> low <= t /\ t < high
  BY <1>1, DayOfInstant
<1> HIDE DEF low, high
<1>4. first \in {a, low} /\ first >= a /\ first >= low
  <2>1. IsFiniteSet({a, low})
    BY TwoAreFinite
  <2> QED BY <1>1, <2>1, MaxOfFinite
<1>5. last \in {b, high} /\ last <= b /\ last <= high
  <2>1. IsFiniteSet({b, high})
    BY TwoAreFinite
  <2> QED BY <1>1, <2>1, MinOfFinite
<1> HIDE DEF first, last
<1>7. first \in Int /\ last - 1 \in Int /\ last \in Int
  BY <1>1, <1>4, <1>5
<1>6. Between(a, b, d) = first .. (last - 1)
  <2>1. ASSUME NEW t \in Between(a, b, d) PROVE t \in first .. (last - 1)
    <3>1. t \in 0 .. MaxTick /\ a <= t /\ t < b /\ low <= t /\ t < high
      BY <1>3 DEF Between
    <3>2. first <= t /\ t <= last - 1 /\ t \in Int
      BY <3>1, <1>1, <1>4, <1>5
    <3> QED BY <3>2, <1>7
  <2>2. ASSUME NEW t \in first .. (last - 1) PROVE t \in Between(a, b, d)
    <3>1. t \in 0 .. MaxTick /\ a <= t /\ t < b /\ low <= t /\ t < high
      BY <1>1, <1>4, <1>5
    <3> QED BY <3>1, <1>3 DEF Between
  <2> QED BY <2>1, <2>2
<1> QED BY <1>2, <1>6, <1>7, FS_Interval

LEMMA SamplesAreFinite ==
  ASSUME NEW S, IsSamples(S)
  PROVE  IsFiniteSet(S) /\ IsFiniteSet(Pairs(S))
<1> DEFINE f == [s \in S |-> s.at]
<1>1. f \in Injection(S, 0 .. MaxTick)
  <2>1. f \in [S -> 0 .. MaxTick]
    BY DEF IsSamples, Position
  <2>2. \A r, s \in S : f[r] = f[s] => r = s
    BY DEF IsSamples
  <2> HIDE DEF f
  <2> QED BY <2>1, <2>2 DEF Injection, IsInjective
<1>2. IsFiniteSet(0 .. MaxTick)
  BY FS_Interval, KindleConstants
<1> HIDE DEF f
<1>3. IsFiniteSet(S)
  BY <1>1, <1>2, FS_Injection
<1>4. IsFiniteSet(S \X S) /\ Pairs(S) \in SUBSET (S \X S)
  BY <1>3, FS_Product DEF Pairs, Consecutive
<1> QED BY <1>3, <1>4, FS_Subset

LEMMA TotalIs == \A F, S : DOMAIN F = S => Total(F) = SumOf(F, S)
BY DEF Total, SumOf

\* composeSessions counts the instants at which the book was being read.
LEMMA SessionsCount ==
  ASSUME NEW S, IsSamples(S), NEW d \in Days
  PROVE  /\ IsFiniteSet(Instants(S, d))
         /\ ComposeSessions(S)[d] = Cardinality(Instants(S, d))
         /\ ComposeSessions(S)[d] \in Nat
<1> DEFINE P == Pairs(S)
           G == [p \in P |-> Between(p[1].at, p[2].at, d)]
           C == [p \in P |-> OnDay(p[1].at, p[2].at, d)]
<1>1. \A p \in P : /\ p[1] \in S /\ p[2] \in S
                   /\ p[1].at \in 0 .. MaxTick /\ p[2].at \in 0 .. MaxTick
                   /\ p[1].at < p[2].at /\ Counts(p[1], p[2])
                   /\ \A c \in S : c.at <= p[1].at \/ c.at >= p[2].at
  <2> TAKE p \in P
  <2>1. p \in S \X S /\ p[1].at < p[2].at /\ Counts(p[1], p[2])
    BY DEF Pairs, Consecutive
  <2>2. /\ p[1] \in S /\ p[2] \in S /\ \A c \in S : c.at \in 0 .. MaxTick
    BY <2>1 DEF IsSamples, Position
  <2>3. \A c \in S : ~ (p[1].at < c.at /\ c.at < p[2].at)
    BY DEF Pairs, Consecutive
  <2> QED BY <2>1, <2>2, <2>3
<1>2. \A p \in P : IsFiniteSet(G[p]) /\ C[p] = Cardinality(G[p])
  BY <1>1, OnDayCounts
<1>3. \A p, q \in P : p # q => G[p] \cap G[q] = {}
  <2> SUFFICES ASSUME NEW p \in P, NEW q \in P, NEW t \in G[p] \cap G[q] PROVE p = q
    OBVIOUS
  <2>1. /\ p[1].at <= t /\ t < p[2].at /\ q[1].at <= t /\ t < q[2].at /\ t \in 0 .. MaxTick
    BY DEF Between
  <2>2. p[1].at = q[1].at /\ p[2].at = q[2].at
    <3>1. /\ q[1].at <= p[1].at \/ q[1].at >= p[2].at
          /\ q[2].at <= p[1].at \/ q[2].at >= p[2].at
          /\ p[1].at <= q[1].at \/ p[1].at >= q[2].at
          /\ p[2].at <= q[1].at \/ p[2].at >= q[2].at
      BY <1>1
    <3>2. /\ p[1].at \in Nat /\ p[2].at \in Nat /\ q[1].at \in Nat /\ q[2].at \in Nat /\ t \in Nat
      BY <1>1, <2>1
    <3> HIDE DEF P, G
    <3> QED BY <2>1, <3>1, <3>2
  <2>3. p[1] = q[1] /\ p[2] = q[2]
    BY <2>2, <1>1 DEF IsSamples
  <2>4. p \in S \X S /\ q \in S \X S
    BY DEF Pairs, Consecutive
  <2> QED BY <2>3, <2>4
<1>4. IsFiniteSet(P)
  BY SamplesAreFinite
<1>5. UNION {G[p] : p \in P} = Instants(S, d)
  <2>1. ASSUME NEW p \in P, NEW t \in G[p] PROVE t \in Instants(S, d)
    <3>1. t \in 0 .. MaxTick /\ t \div DayLen = d /\ p[1].at <= t /\ t < p[2].at
      BY DEF Between
    <3>2. ReadAt(S, t)
      BY <1>1, <3>1 DEF ReadAt, Counts
    <3> QED BY <3>1, <3>2 DEF Instants
  <2>2. ASSUME NEW t \in Instants(S, d) PROVE \E p \in P : t \in G[p]
    <3>1. t \in 0 .. MaxTick /\ t \div DayLen = d /\ ReadAt(S, t)
      BY DEF Instants
    <3>2. PICK a \in S, b \in S :
            /\ a.at <= t /\ t < b.at /\ b.at - a.at <= SessionGap /\ a.pos # b.pos
            /\ \A c \in S : c.at <= a.at \/ c.at >= b.at
      BY <3>1 DEF ReadAt
    <3>3. \A c \in S : c.at \in Nat
      BY DEF IsSamples, Position
    <3>4. <<a, b>> \in P
      BY <3>1, <3>2, <3>3 DEF Pairs, Consecutive, Counts
    <3>5. t \in G[<<a, b>>]
      BY <3>1, <3>2, <3>4 DEF Between
    <3> QED BY <3>4, <3>5
  <2> HIDE DEF P, G
  <2> QED BY <2>1, <2>2
<1>6. ComposeSessions(S)[d] = SumOf(C, P)
  BY TotalIs DEF ComposeSessions, Pairs
<1> HIDE DEF P, G, C
<1>7. IsFiniteSet(Instants(S, d)) /\ ComposeSessions(S)[d] = Cardinality(Instants(S, d))
  BY <1>2, <1>3, <1>4, <1>5, <1>6, UnionCounts
<1> QED BY <1>7, FS_CardinalityType

\* The reading time of all days together.
LEMMA DaysAddUp ==
  ASSUME NEW S, IsSamples(S)
  PROVE  /\ IsFiniteSet({t \in 0 .. MaxTick : ReadAt(S, t)})
         /\ Total([d \in Days |-> Cardinality(Instants(S, d))])
              = Cardinality({t \in 0 .. MaxTick : ReadAt(S, t)})
<1> DEFINE G == [d \in Days |-> Instants(S, d)]
           C == [d \in Days |-> Cardinality(Instants(S, d))]
<1>1. \A d \in Days : IsFiniteSet(G[d]) /\ C[d] = Cardinality(G[d])
  BY SessionsCount
<1>2. \A d, e \in Days : d # e => G[d] \cap G[e] = {}
  BY DEF Instants
<1>3. UNION {G[d] : d \in Days} = {t \in 0 .. MaxTick : ReadAt(S, t)}
  <2>1. \A d \in Days : \A t \in G[d] : t \in 0 .. MaxTick /\ ReadAt(S, t)
    BY DEF Instants
  <2>2. ASSUME NEW t \in 0 .. MaxTick, ReadAt(S, t) PROVE \E d \in Days : t \in G[d]
    <3>1. t \div DayLen \in Days
      BY DaysOfInstants
    <3> QED BY <3>1, <2>2 DEF Instants
  <2> HIDE DEF G
  <2> QED BY <2>1, <2>2
<1>4. DOMAIN C = Days
  OBVIOUS
<1>5. Total(C) = SumOf(C, Days)
  <2> HIDE DEF C
  <2> QED BY <1>4, TotalIs
<1>6. /\ IsFiniteSet(UNION {G[d] : d \in Days})
      /\ Cardinality(UNION {G[d] : d \in Days}) = SumOf(C, Days)
  <2>1. IsFiniteSet(Days)
    BY DaysOfInstants
  <2> HIDE DEF G, C
  <2>2. \A D : /\ IsFiniteSet(D)
               /\ \A x \in D : IsFiniteSet(G[x]) /\ C[x] = Cardinality(G[x])
               /\ \A x, y \in D : x # y => G[x] \cap G[y] = {}
               => /\ IsFiniteSet(UNION {G[x] : x \in D})
                  /\ Cardinality(UNION {G[x] : x \in D}) = SumOf(C, D)
    BY UnionCounts
  <2> QED BY <1>1, <1>2, <2>1, <2>2
<1> QED BY <1>3, <1>5, <1>6

\* A sample that is later than all others takes no instant away.
LEMMA LaterSample ==
  ASSUME NEW S, IsSamples(S), NEW s \in Position, \A r \in S : r.at < s.at
  PROVE  /\ IsSamples(S \cup {s})
         /\ \A t \in 0 .. MaxTick : ReadAt(S, t) => ReadAt(S \cup {s}, t)
<1>1. IsSamples(S \cup {s})
  BY DEF IsSamples, Position
<1>2. ASSUME NEW t \in 0 .. MaxTick, ReadAt(S, t) PROVE ReadAt(S \cup {s}, t)
  <2>1. PICK a \in S, b \in S :
          /\ a.at <= t /\ t < b.at /\ b.at - a.at <= SessionGap /\ a.pos # b.pos
          /\ \A c \in S : c.at <= a.at \/ c.at >= b.at
    BY <1>2 DEF ReadAt
  <2>2. s.at >= b.at
    BY DEF IsSamples, Position
  <2> QED BY <2>1, <2>2 DEF ReadAt
<1> QED BY <1>1, <1>2

-----------------------------------------------------------------------------
(* Types, and what is known of the samples.                                *)

Track == [existed : BOOLEAN, loc : 0 .. MaxPage, advanced : Int, active : BOOLEAN,
          polled : Int]

Pass == [at : {"idle", "sample", "compose"}, now : 0 .. MaxTick, books : SUBSET Volumes,
         left : SUBSET Volumes, sampled : BOOLEAN, sums : [Days -> Nat], days : SUBSET Days,
         alone : BOOLEAN]

KindleTyped ==
  /\ tick \in 0 .. MaxTick
  /\ page \in [Volumes -> Position]
  /\ status \in [Volumes -> {"reading", "read"}]
  /\ samples \in [Volumes -> SUBSET Position]
  /\ tracked \in [Volumes -> Track]
  /\ bucket \in [Days -> Nat]
  /\ pass \in [ReadingJobs -> Pass]
  /\ counted \in Nat /\ cuts \in 0 .. MaxMishaps

\* Samples are of pages the reader has reached: none is later than the page the
\* book is at, and one of its time is of that page.
UpTo(S, pg) ==
  /\ IsSamples(S)
  /\ \A r \in S : r.at <= pg.at /\ (r.at = pg.at => r = pg)
  /\ pg.pos = 0 => S = {}

Sampled == \A v \in Volumes : page[v].at <= tick /\ UpTo(samples[v], page[v])

KindleBase == KindleTyped /\ Sampled

LEMMA NoPassIsAPass ==
  /\ NoPass \in Pass /\ NoPass.at = "idle" /\ NoPass.sums = NoSums /\ NoPass.days = {}
  /\ NoSums \in [Days -> Nat] /\ \A d \in Days : NoSums[d] = 0
<1>1. NoSums \in [Days -> Nat] /\ \A d \in Days : NoSums[d] = 0
  BY DEF NoSums
<1> QED BY <1>1, KindleConstants DEF NoPass, Pass

LEMMA UntrackedIsATrack == Untracked \in Track
BY KindleConstants DEF Untracked, Track, Never

\* What is being summed for a book.
LEMMA SessionsType ==
  ASSUME NEW S, IsSamples(S)
  PROVE  ComposeSessions(S) \in [Days -> Nat]
<1>1. \A d \in Days : ComposeSessions(S)[d] \in Nat
  BY SessionsCount
<1>2. ComposeSessions(S) = [d \in Days |-> ComposeSessions(S)[d]]
  BY DEF ComposeSessions
<1> QED BY <1>1, <1>2

\* InsertKindleReadingPosition: afterwards there is a sample of the page, and
\* none that was there is gone.
LEMMA Stored ==
  ASSUME KindleBase, NEW v \in Volumes, NEW j, InsertPosition(j, v), page[v].pos > 0
  PROVE  /\ samples' = [samples EXCEPT ![v] = samples[v] \cup {page[v]}]
         /\ samples' \in [Volumes -> SUBSET Position]
         /\ UpTo(samples'[v], page[v]) /\ samples'[v] = samples[v] \cup {page[v]}
         /\ \A u \in Volumes : u # v => samples'[u] = samples[u]
<1>1. /\ samples \in [Volumes -> SUBSET Position] /\ page[v] \in Position
      /\ UpTo(samples[v], page[v])
  BY DEF KindleBase, KindleTyped, Sampled
<1>2. samples' = [samples EXCEPT ![v] = samples[v] \cup {page[v]}]
  <2>1. CASE \E r \in samples[v] : r.at = page[v].at
    <3>1. samples' = samples
      BY <2>1 DEF InsertPosition, Store
    <3>2. page[v] \in samples[v]
      BY <2>1, <1>1 DEF UpTo
    <3>3. samples[v] \cup {page[v]} = samples[v]
      BY <3>2
    <3> QED BY <1>1, <3>1, <3>3
  <2>2. CASE ~ \E r \in samples[v] : r.at = page[v].at
    BY <2>2 DEF InsertPosition, Store
  <2> QED BY <2>1, <2>2
<1>3. samples'[v] = samples[v] \cup {page[v]}
  BY <1>1, <1>2
<1>4. UpTo(samples[v] \cup {page[v]}, page[v])
  BY <1>1 DEF UpTo, IsSamples, Position
<1> QED BY <1>1, <1>2, <1>3, <1>4

\* Failures are counted while there are any left.
LEMMA FailuresAreBounded ==
  ASSUME KindleTyped, CanFail
  PROVE  cuts + 1 \in 0 .. MaxMishaps
<1> DEFINE c == Cardinality({w \in Volumes : status[w] = "read"})
<1>1. c \in Nat
  <2>1. IsFiniteSet({w \in Volumes : status[w] = "read"})
    BY FS_Subset, KindleConstants
  <2> QED BY <2>1, FS_CardinalityType
<1>2. cuts + c < MaxMishaps
  BY DEF CanFail
<1> HIDE DEF c
<1> QED BY <1>1, <1>2, KindleConstants DEF KindleTyped

\* The reader's steps.
LEMMA ReaderBase ==
  ASSUME KindleBase,
         Tick \/ \E v \in Volumes : TurnPages(v) \/ FinishReading(v)
  PROVE  KindleBase'
<1> USE DEF KindleBase
<1>1. CASE Tick
  <2>1. KindleTyped'
    BY <1>1, KindleConstants DEF Tick, KindleTyped
  <2>2. Sampled'
    BY <1>1 DEF Tick, KindleTyped, Sampled, Position
  <2> QED BY <2>1, <2>2
<1>2. ASSUME NEW v \in Volumes, TurnPages(v) PROVE KindleBase'
  <2> DEFINE new == [at |-> tick, pos |-> page[v].pos + 1]
  <2>1. /\ page' = [page EXCEPT ![v] = new] /\ page[v].pos < MaxPage
        /\ page[v].pos > 0 => page[v].at < tick
        /\ UNCHANGED <<tick, status, samples, tracked, bucket, pass, counted, cuts>>
    BY <1>2 DEF TurnPages
  <2>2. /\ page \in [Volumes -> Position] /\ tick \in 0 .. MaxTick /\ page[v] \in Position
        /\ page[v].pos \in 0 .. MaxPage /\ MaxPage \in Nat
    BY KindleConstants DEF KindleTyped, Position
  <2>3. new \in Position /\ new.at = tick /\ new.pos = page[v].pos + 1
    BY <2>1, <2>2 DEF Position
  <2>4. UpTo(samples[v], new)
    <3>1. UpTo(samples[v], page[v])
      BY DEF Sampled
    <3>2. ASSUME NEW r \in samples[v] PROVE r.at < tick
      <4>1. page[v].pos > 0
        BY <3>1, <2>2 DEF UpTo
      <4>2. r.at <= page[v].at /\ r.at \in 0 .. MaxTick /\ page[v].at \in 0 .. MaxTick
        BY <3>1, <2>2 DEF UpTo, IsSamples, Position
      <4> QED BY <4>1, <4>2, <2>1, <2>2, KindleConstants
    <3>3. ASSUME NEW r \in samples[v] PROVE r.at \in Nat
      BY <3>1 DEF UpTo, IsSamples, Position
    <3> HIDE DEF new
    <3> QED BY <3>1, <3>2, <3>3, <2>2, <2>3 DEF UpTo
  <2> HIDE DEF new
  <2>5. KindleTyped'
    BY <2>1, <2>2, <2>3 DEF KindleTyped
  <2>6. Sampled'
    <3>1. tick <= tick
      BY <2>2
    <3> QED BY <2>1, <2>2, <2>3, <2>4, <3>1 DEF Sampled
  <2> QED BY <2>5, <2>6
<1>3. ASSUME NEW v \in Volumes, FinishReading(v) PROVE KindleBase'
  <2>1. KindleTyped'
    BY <1>3 DEF FinishReading, KindleTyped
  <2>2. Sampled'
    BY <1>3 DEF FinishReading, Sampled
  <2> QED BY <2>1, <2>2
<1> QED BY <1>1, <1>2, <1>3

\* A step that leaves the reader and the samples alone.
LEMMA QuietBase ==
  ASSUME KindleBase, UNCHANGED <<tick, page, status, samples>>,
         tracked' \in [Volumes -> Track], bucket' \in [Days -> Nat],
         pass' \in [ReadingJobs -> Pass], counted' \in Nat, cuts' \in 0 .. MaxMishaps
  PROVE  KindleBase'
BY DEF KindleBase, KindleTyped, Sampled

LEMMA PassFields ==
  ASSUME NEW q \in Pass
  PROVE  /\ q.left \in SUBSET Volumes /\ q.books \in SUBSET Volumes /\ q.days \in SUBSET Days
         /\ q.sums \in [Days -> Nat] /\ q.alone \in BOOLEAN /\ q.sampled \in BOOLEAN
         /\ q.now \in 0 .. MaxTick
         /\ [q EXCEPT !.alone = FALSE] \in Pass
         /\ \A L \in SUBSET Volumes : [q EXCEPT !.left = L] \in Pass
         /\ \A D \in SUBSET Days : [q EXCEPT !.days = D] \in Pass
         /\ \A L \in SUBSET Volumes, w \in BOOLEAN :
              [q EXCEPT !.left = L, !.sampled = w] \in Pass
         /\ \A L \in SUBSET Volumes, s \in [Days -> Nat], D \in SUBSET Days :
              [q EXCEPT !.left = L, !.sums = s, !.days = D] \in Pass
<1>1. /\ q.left \in SUBSET Volumes /\ q.books \in SUBSET Volumes /\ q.days \in SUBSET Days
      /\ q.sums \in [Days -> Nat] /\ q.alone \in BOOLEAN /\ q.sampled \in BOOLEAN
      /\ q.now \in 0 .. MaxTick
      /\ [q EXCEPT !.alone = FALSE] \in Pass
  BY DEF Pass
<1>2. \A L \in SUBSET Volumes : [q EXCEPT !.left = L] \in Pass
  BY DEF Pass
<1>3. \A D \in SUBSET Days : [q EXCEPT !.days = D] \in Pass
  BY DEF Pass
<1>4. \A L \in SUBSET Volumes, w \in BOOLEAN :
        [q EXCEPT !.left = L, !.sampled = w] \in Pass
  BY DEF Pass
<1>5. \A L \in SUBSET Volumes, s \in [Days -> Nat], D \in SUBSET Days :
        [q EXCEPT !.left = L, !.sums = s, !.days = D] \in Pass
  BY DEF Pass
<1> QED BY <1>1, <1>2, <1>3, <1>4, <1>5

Started(alone) == [NoPass EXCEPT !.at = "sample", !.now = tick, !.books = InProgress,
                                 !.left = InProgress, !.alone = alone]

Composing(q) == [NoPass EXCEPT !.at = "compose", !.left = q.books, !.alone = q.alone]

LEMMA StartedIsAPass ==
  ASSUME KindleTyped, NEW w \in BOOLEAN
  PROVE  /\ Started(w) \in Pass /\ Started(w).at = "sample" /\ Started(w).books = InProgress
         /\ Started(w).alone = w /\ Started(w).sums = NoSums /\ Started(w).days = {}
<1>1. InProgress \in SUBSET Volumes /\ tick \in 0 .. MaxTick
  BY DEF InProgress, KindleTyped
<1>2. NoPass \in Pass /\ NoPass.sums = NoSums /\ NoPass.days = {}
  BY NoPassIsAPass
<1> HIDE DEF NoPass
<1> QED BY <1>1, <1>2 DEF Started, Pass

LEMMA ComposingIsAPass ==
  ASSUME NEW q \in Pass
  PROVE  /\ Composing(q) \in Pass /\ Composing(q).at = "compose" /\ Composing(q).left = q.books
         /\ Composing(q).alone = q.alone /\ Composing(q).sums = NoSums /\ Composing(q).days = {}
<1>1. q.books \in SUBSET Volumes /\ q.alone \in BOOLEAN
  BY PassFields
<1>2. NoPass \in Pass /\ NoPass.sums = NoSums /\ NoPass.days = {}
  BY NoPassIsAPass
<1> HIDE DEF NoPass
<1> DEFINE books == q.books
           alone == q.alone
           c == Composing(q)
<1>3. books \in SUBSET Volumes /\ alone \in BOOLEAN
  BY <1>1
<1>4. c = [NoPass EXCEPT !.at = "compose", !.left = books, !.alone = alone]
  BY Zenon DEF Composing
<1> HIDE DEF c, books, alone
<1>5. /\ c \in Pass /\ c.at = "compose" /\ c.left = books /\ c.alone = alone
      /\ c.sums = NoSums /\ c.days = {}
  BY <1>2, <1>3, <1>4 DEF Pass
<1> QED BY <1>5 DEF c, books, alone

\* The sums of a pass after it has composed a book.
LEMMA AddedSums ==
  ASSUME KindleBase, NEW s \in [Days -> Nat], NEW v \in Volumes
  PROVE  /\ AddBook(s, v) \in [Days -> Nat]
         /\ \A d \in Days : AddBook(s, v)[d] = s[d] + ComposeSessions(samples[v])[d]
         /\ \A d \in Days : ComposeSessions(samples[v])[d] \in Nat
<1>1. ComposeSessions(samples[v]) \in [Days -> Nat]
  BY SessionsType DEF KindleBase, Sampled, UpTo
<1> QED BY <1>1 DEF AddBook

\* What the steps of the passes do to the table of passes.
LEMMA PassMoves ==
  ASSUME KindleBase, NEW j \in ReadingJobs
  PROVE  /\ StartPass(j) =>
              pass' = [i \in ReadingJobs |->
                         IF i = j THEN Started(AllIdle) ELSE [pass[i] EXCEPT !.alone = FALSE]]
         /\ StartRecompose(j) =>
              \/ pass' = [pass EXCEPT ![j] = Composing(pass[j])]
              \/ j = "monitor" /\ pass' = [pass EXCEPT ![j] = NoPass]
         /\ \A v \in Volumes : ComposeBook(j, v) =>
              pass' = [pass EXCEPT ![j] = [pass[j] EXCEPT
                         !.left = pass[j].left \ {v}, !.sums = AddBook(pass[j].sums, v),
                         !.days = {d \in Days : AddBook(pass[j].sums, v)[d] > 0}]]
         /\ \A d \in Days : WriteBucket(j, d) =>
              pass' = [pass EXCEPT ![j] = [pass[j] EXCEPT !.days = pass[j].days \ {d}]]
         /\ \A v \in Volumes : PollBook(v) =>
              pass' = [pass EXCEPT !["poll"] = [pass["poll"] EXCEPT !.left = pass["poll"].left \ {v}]]
<1>0. pass \in [ReadingJobs -> Pass]
  BY DEF KindleBase, KindleTyped
<1>1. ASSUME StartPass(j)
      PROVE  pass' = [i \in ReadingJobs |->
                         IF i = j THEN Started(AllIdle) ELSE [pass[i] EXCEPT !.alone = FALSE]]
  BY <1>1, Zenon DEF StartPass, Started
<1>2. ASSUME StartRecompose(j)
      PROVE  \/ pass' = [pass EXCEPT ![j] = Composing(pass[j])]
             \/ j = "monitor" /\ pass' = [pass EXCEPT ![j] = NoPass]
  BY <1>0, <1>2 DEF StartRecompose, Composing, ReadingJobs
<1>3. ASSUME NEW v \in Volumes, ComposeBook(j, v)
      PROVE  pass' = [pass EXCEPT ![j] = [pass[j] EXCEPT
                         !.left = pass[j].left \ {v}, !.sums = AddBook(pass[j].sums, v),
                         !.days = {d \in Days : AddBook(pass[j].sums, v)[d] > 0}]]
  BY <1>0, <1>3 DEF ComposeBook, Pass
<1>4. ASSUME NEW d \in Days, WriteBucket(j, d)
      PROVE  pass' = [pass EXCEPT ![j] = [pass[j] EXCEPT !.days = pass[j].days \ {d}]]
  BY <1>0, <1>4 DEF WriteBucket, Pass
<1>5. ASSUME NEW v \in Volumes, PollBook(v)
      PROVE  pass' = [pass EXCEPT !["poll"] = [pass["poll"] EXCEPT !.left = pass["poll"].left \ {v}]]
  BY <1>0, <1>5 DEF PollBook, Pass, ReadingJobs
<1> QED BY <1>1, <1>2, <1>3, <1>4, <1>5

\* The steps of both jobs but the monitor's pass over a book.
LEMMA PassBase ==
  ASSUME KindleBase, NEW j \in ReadingJobs,
         \/ StartPass(j) \/ Recompose(j) \/ CutPass(j) \/ \E v \in Volumes : PollBook(v)
  PROVE  KindleBase'
<1>0. /\ pass \in [ReadingJobs -> Pass] /\ tracked \in [Volumes -> Track] /\ bucket \in [Days -> Nat]
      /\ counted \in Nat /\ cuts \in 0 .. MaxMishaps /\ "poll" \in ReadingJobs /\ KindleTyped
  BY DEF KindleBase, KindleTyped, ReadingJobs
<1>a. \A q \in Pass : [pass EXCEPT ![j] = q] \in [ReadingJobs -> Pass]
  BY <1>0
<1>1. CASE StartPass(j)
  <2>1. AllIdle \in BOOLEAN
    BY DEF AllIdle
  <2>2. Started(AllIdle) \in Pass
    BY <2>1, <1>0, StartedIsAPass
  <2>3. \A i \in ReadingJobs : [pass[i] EXCEPT !.alone = FALSE] \in Pass
    BY <1>0, PassFields
  <2> DEFINE p2 == [i \in ReadingJobs |-> IF i = j THEN Started(AllIdle) ELSE [pass[i] EXCEPT !.alone = FALSE]]
  <2>4. p2 \in [ReadingJobs -> Pass]
    <3> HIDE DEF Started, AllIdle
    <3> QED BY <2>2, <2>3
  <2>5. pass' = p2
    BY <1>1, PassMoves, Zenon
  <2> HIDE DEF p2
  <2>6. UNCHANGED <<tick, page, status, samples, tracked, bucket, counted, cuts>>
    BY <1>1 DEF StartPass
  <2> QED BY <1>0, <2>4, <2>5, <2>6, QuietBase
<1>2. CASE StartRecompose(j)
  <2>1. Composing(pass[j]) \in Pass /\ NoPass \in Pass
    BY <1>0, ComposingIsAPass, NoPassIsAPass
  <2>2. pass' = [pass EXCEPT ![j] = Composing(pass[j])] \/ pass' = [pass EXCEPT ![j] = NoPass]
    BY <1>2, PassMoves, Zenon
  <2>3. UNCHANGED <<tick, page, status, samples, tracked, bucket, counted, cuts>>
    BY <1>2 DEF StartRecompose
  <2>4. pass' \in [ReadingJobs -> Pass]
    BY <1>a, <2>1, <2>2
  <2> QED BY <1>0, <2>3, <2>4, QuietBase
<1>3. CASE EndPass(j)
  <2>1. /\ pass' = [pass EXCEPT ![j] = NoPass]
        /\ UNCHANGED <<tick, page, status, samples, tracked, bucket, counted, cuts>>
    BY <1>3 DEF EndPass
  <2>2. pass' \in [ReadingJobs -> Pass]
    BY <1>a, <2>1, NoPassIsAPass
  <2> QED BY <1>0, <2>1, <2>2, QuietBase
<1>4. CASE CutPass(j)
  <2>1. /\ pass' = [pass EXCEPT ![j] = NoPass] /\ CanFail /\ cuts' = cuts + 1
        /\ UNCHANGED <<tick, page, status, samples, tracked, bucket, counted>>
    BY <1>4 DEF CutPass
  <2>2. pass' \in [ReadingJobs -> Pass]
    BY <1>a, <2>1, NoPassIsAPass
  <2>3. cuts' \in 0 .. MaxMishaps
    BY <1>0, <2>1, FailuresAreBounded
  <2> QED BY <1>0, <2>1, <2>2, <2>3, QuietBase
<1>5. ASSUME NEW v \in Volumes, ComposeBook(j, v) PROVE KindleBase'
  <2> DEFINE s == AddBook(pass[j].sums, v)
             L == pass[j].left \ {v}
             D == {d \in Days : s[d] > 0}
  <2>1. pass' = [pass EXCEPT ![j] = [pass[j] EXCEPT !.left = L, !.sums = s, !.days = D]]
    BY <1>5, PassMoves, Zenon
  <2>2. L \in SUBSET Volumes /\ s \in [Days -> Nat] /\ D \in SUBSET Days
    BY <1>0, PassFields, AddedSums
  <2> HIDE DEF L, s, D
  <2>3. pass' \in [ReadingJobs -> Pass]
    <3>1. pass[j] \in Pass
      BY <1>0
    <3>2. [pass[j] EXCEPT !.left = L, !.sums = s, !.days = D] \in Pass
      BY <2>2, <3>1, PassFields
    <3> QED BY <1>a, <2>1, <3>2
  <2>4. UNCHANGED <<tick, page, status, samples, tracked, bucket, counted, cuts>>
    BY <1>5 DEF ComposeBook
  <2> QED BY <1>0, <2>3, <2>4, QuietBase
<1>6. ASSUME NEW d \in Days, WriteBucket(j, d) PROVE KindleBase'
  <2>1. pass' = [pass EXCEPT ![j] = [pass[j] EXCEPT !.days = pass[j].days \ {d}]]
    BY <1>6, PassMoves, Zenon
  <2>2. pass[j] \in Pass /\ pass[j].sums[d] \in Nat /\ pass[j].days \ {d} \in SUBSET Days
    BY <1>0, PassFields
  <2>3. [pass[j] EXCEPT !.days = pass[j].days \ {d}] \in Pass
    BY <2>2, PassFields
  <2>4. /\ bucket' = [bucket EXCEPT ![d] = pass[j].sums[d]]
        /\ UNCHANGED <<tick, page, status, samples, tracked, counted, cuts>>
    BY <1>6 DEF WriteBucket
  <2>5. bucket' \in [Days -> Nat] /\ pass' \in [ReadingJobs -> Pass]
    BY <1>0, <1>a, <2>1, <2>2, <2>3, <2>4
  <2> QED BY <1>0, <2>4, <2>5, QuietBase
<1>7. ASSUME NEW v \in Volumes, PollBook(v) PROVE KindleBase'
  <2>1. pass' = [pass EXCEPT !["poll"] = [pass["poll"] EXCEPT !.left = pass["poll"].left \ {v}]]
    BY <1>7, PassMoves, Zenon
  <2>2. pass["poll"] \in Pass /\ pass["poll"].left \ {v} \in SUBSET Volumes
    BY <1>0, PassFields
  <2>3. [pass["poll"] EXCEPT !.left = pass["poll"].left \ {v}] \in Pass
    BY <2>2, PassFields
  <2>4. pass' \in [ReadingJobs -> Pass]
    BY <1>0, <2>1, <2>3
  <2>5. /\ UNCHANGED <<tick, page, status, tracked, bucket, counted>>
        /\ \/ page[v].pos > 0 /\ InsertPosition("poll", v) /\ UNCHANGED cuts
           \/ UNCHANGED samples /\ cuts' \in 0 .. MaxMishaps
    BY <1>0, <1>7, FailuresAreBounded DEF PollBook
  <2>6. CASE UNCHANGED samples /\ cuts' \in 0 .. MaxMishaps
    BY <1>0, <2>4, <2>5, <2>6, QuietBase
  <2>7. CASE page[v].pos > 0 /\ InsertPosition("poll", v) /\ UNCHANGED cuts
    <3>1. /\ samples' \in [Volumes -> SUBSET Position] /\ UpTo(samples'[v], page[v])
          /\ \A u \in Volumes : u # v => samples'[u] = samples[u]
      BY <2>7, Stored
    <3>2. KindleTyped'
      BY <1>0, <2>4, <2>5, <2>7, <3>1 DEF KindleTyped
    <3>3. Sampled'
      BY <2>5, <3>1 DEF KindleBase, Sampled
    <3> QED BY <3>2, <3>3 DEF KindleBase
  <2> QED BY <2>5, <2>6, <2>7
<1> QED BY <1>1, <1>2, <1>3, <1>4, <1>5, <1>6, <1>7 DEF Recompose

-----------------------------------------------------------------------------
(* The monitor's pass over a book.                                         *)

SameAnchor(k, l) == k.advanced = l.advanced /\ k.loc = l.loc

LEMMA TrackFields ==
  ASSUME NEW k \in Track, NEW n \in 0 .. MaxTick, NEW pg \in Position
  PROVE  LET st == Expired(k, n)
             seen == [st EXCEPT !.polled = n]
             anchor == [seen EXCEPT !.loc = pg.pos, !.advanced = pg.at]
         IN  /\ st \in Track /\ SameAnchor(st, k) /\ st.existed = k.existed
             /\ seen \in Track /\ SameAnchor(seen, k)
             /\ [seen EXCEPT !.existed = TRUE] \in Track
             /\ SameAnchor([seen EXCEPT !.existed = TRUE], k)
             /\ [anchor EXCEPT !.existed = TRUE] \in Track
             /\ SameAnchor([anchor EXCEPT !.existed = TRUE], [advanced |-> pg.at, loc |-> pg.pos])
             /\ [[anchor EXCEPT !.active = TRUE] EXCEPT !.existed = TRUE] \in Track
             /\ SameAnchor([[anchor EXCEPT !.active = TRUE] EXCEPT !.existed = TRUE],
                           [advanced |-> pg.at, loc |-> pg.pos])
<1> DEFINE st == Expired(k, n)
           seen == [st EXCEPT !.polled = n]
           anchor == [seen EXCEPT !.loc = pg.pos, !.advanced = pg.at]
<1>0. n \in Int /\ pg.at \in Int /\ pg.pos \in 0 .. MaxPage
  BY DEF Position
<1>1. st \in Track /\ SameAnchor(st, k) /\ st.existed = k.existed
  BY DEF Expired, Track, SameAnchor
<1> HIDE DEF st
<1>2. seen \in Track /\ SameAnchor(seen, k)
  BY <1>0, <1>1 DEF Track, SameAnchor
<1> HIDE DEF seen
<1>3. [seen EXCEPT !.existed = TRUE] \in Track /\ SameAnchor([seen EXCEPT !.existed = TRUE], k)
  BY <1>2 DEF Track, SameAnchor
<1>4. anchor \in Track /\ anchor.loc = pg.pos /\ anchor.advanced = pg.at
  BY <1>0, <1>2 DEF Track
<1> HIDE DEF anchor
<1>5. /\ [anchor EXCEPT !.existed = TRUE] \in Track
      /\ SameAnchor([anchor EXCEPT !.existed = TRUE], [advanced |-> pg.at, loc |-> pg.pos])
  BY <1>4 DEF Track, SameAnchor
<1>6. /\ [[anchor EXCEPT !.active = TRUE] EXCEPT !.existed = TRUE] \in Track
      /\ SameAnchor([[anchor EXCEPT !.active = TRUE] EXCEPT !.existed = TRUE],
                    [advanced |-> pg.at, loc |-> pg.pos])
  BY <1>4 DEF Track, SameAnchor
<1> QED BY <1>1, <1>2, <1>3, <1>5, <1>6 DEF st, seen, anchor

\* The seconds counted for an advance of book v.
NewSeconds(v) ==
  LET k == tracked[v]
  IN  IF k.advanced # Never /\ page[v].at > k.advanced /\ page[v].at - k.advanced <= SessionGap
      THEN {0, page[v].at - k.advanced} ELSE {0}

\* Nothing new; an advance that is stored, anchored and counted; or a failure.
MonitorKeeps(v) ==
  /\ UNCHANGED <<samples, counted>>
  /\ \E k \in Track : tracked' = [tracked EXCEPT ![v] = k] /\ SameAnchor(k, tracked[v])

MonitorAdvances(v) ==
  /\ page[v].pos > tracked[v].loc /\ InsertPosition("monitor", v)
  /\ \E k \in Track : /\ tracked' = [tracked EXCEPT ![v] = k]
                      /\ SameAnchor(k, [advanced |-> page[v].at, loc |-> page[v].pos])
  /\ \E n \in NewSeconds(v) : counted' = counted + n

MonitorFails(v) ==
  /\ page[v].pos > tracked[v].loc
  /\ InsertPosition("monitor", v) \/ UNCHANGED samples
  /\ cuts' = cuts + 1 /\ counted' \in Nat /\ UNCHANGED tracked

LEMMA MonitorOutcomes ==
  ASSUME KindleBase, NEW v \in Volumes, MonitorBook(v)
  PROVE  /\ pass["monitor"].at = "sample"
         /\ UNCHANGED <<tick, page, status, bucket>>
         /\ cuts' \in 0 .. MaxMishaps /\ cuts' >= cuts
         /\ MonitorKeeps(v) \/ MonitorAdvances(v) \/ MonitorFails(v)
         /\ \/ pass' = [pass EXCEPT !["monitor"] = NoPass]
            \/ \E L \in SUBSET Volumes, w \in BOOLEAN :
                 pass' = [pass EXCEPT !["monitor"] =
                            [pass["monitor"] EXCEPT !.left = L, !.sampled = w]]
<1> DEFINE m == pass["monitor"]
           k == tracked[v]
           st == Expired(k, m.now)
           seen == [st EXCEPT !.polled = m.now]
           anchor == [seen EXCEPT !.loc = page[v].pos, !.advanced = page[v].at]
           new == Interval(seen, v)
           n == IF new <= SessionGap THEN new ELSE 0
<1>0. /\ pass \in [ReadingJobs -> Pass] /\ "monitor" \in ReadingJobs /\ m \in Pass /\ k \in Track
      /\ m.now \in 0 .. MaxTick /\ page[v] \in Position /\ tracked \in [Volumes -> Track]
      /\ counted \in Nat /\ cuts \in 0 .. MaxMishaps /\ KindleTyped
  BY PassFields DEF KindleBase, KindleTyped, ReadingJobs
<1>1. /\ st \in Track /\ SameAnchor(st, k)
      /\ seen \in Track /\ SameAnchor(seen, k)
      /\ [seen EXCEPT !.existed = TRUE] \in Track /\ SameAnchor([seen EXCEPT !.existed = TRUE], k)
      /\ [anchor EXCEPT !.existed = TRUE] \in Track
      /\ SameAnchor([anchor EXCEPT !.existed = TRUE], [advanced |-> page[v].at, loc |-> page[v].pos])
      /\ [[anchor EXCEPT !.active = TRUE] EXCEPT !.existed = TRUE] \in Track
      /\ SameAnchor([[anchor EXCEPT !.active = TRUE] EXCEPT !.existed = TRUE],
                    [advanced |-> page[v].at, loc |-> page[v].pos])
  BY <1>0, TrackFields, Zenon
<1>2. CanFail => cuts + 1 \in 0 .. MaxMishaps
  BY <1>0, FailuresAreBounded
<1>3. /\ m.at = "sample" /\ UNCHANGED <<tick, page, status, bucket>>
  BY DEF MonitorBook
<1>4. PICK calibrating \in BOOLEAN :
           \/ /\ ~Due(st, m.now, calibrating)
              /\ tracked' = [tracked EXCEPT ![v] = st]
              /\ Passed(v, FALSE) /\ UNCHANGED <<samples, counted, cuts>>
           \/ /\ Due(st, m.now, calibrating)
              /\ page[v].pos <= st.loc
              /\ Observe(v, seen) /\ Passed(v, FALSE) /\ UNCHANGED <<samples, counted, cuts>>
           \/ /\ Due(st, m.now, calibrating)
              /\ CanFail /\ cuts' = cuts + 1
              /\ Observe(v, seen) /\ Passed(v, FALSE) /\ UNCHANGED <<samples, counted>>
           \/ /\ Due(st, m.now, calibrating)
              /\ page[v].pos > st.loc /\ Stale(st, v, m.now)
              /\ InsertPosition("monitor", v) /\ UNCHANGED counted
              /\ \/ Observe(v, anchor) /\ Passed(v, TRUE) /\ UNCHANGED cuts
                 \/ /\ CanFail /\ cuts' = cuts + 1
                    /\ pass' = [pass EXCEPT !["monitor"] = NoPass] /\ UNCHANGED tracked
           \/ /\ Due(st, m.now, calibrating)
              /\ page[v].pos > st.loc /\ ~Stale(st, v, m.now)
              /\ counted' = counted + n
              /\ \/ /\ InsertPosition("monitor", v)
                    /\ Observe(v, [anchor EXCEPT !.active = TRUE])
                    /\ Passed(v, TRUE) /\ UNCHANGED cuts
                 \/ /\ CanFail /\ cuts' = cuts + 1
                    /\ InsertPosition("monitor", v) \/ UNCHANGED samples
                    /\ pass' = [pass EXCEPT !["monitor"] = NoPass]
                    /\ UNCHANGED tracked
  BY Zenon DEF MonitorBook
<1>5. st.loc = k.loc /\ seen.advanced = k.advanced /\ k.advanced \in Int /\ page[v].at \in Int
  BY <1>0, <1>1 DEF SameAnchor, Track, Position
<1>6. n \in NewSeconds(v) /\ n \in Nat
  BY <1>5, KindleConstants DEF NewSeconds, Interval
<1> HIDE DEF m, k, st, seen, anchor, new, n
<1>7. \A w \in BOOLEAN : Passed(v, w) =>
        \E L \in SUBSET Volumes, x \in BOOLEAN :
          pass' = [pass EXCEPT !["monitor"] = [pass["monitor"] EXCEPT !.left = L, !.sampled = x]]
  <2> SUFFICES ASSUME NEW w \in BOOLEAN, Passed(v, w)
               PROVE  \E L \in SUBSET Volumes, x \in BOOLEAN :
                 pass' = [pass EXCEPT !["monitor"] = [pass["monitor"] EXCEPT !.left = L, !.sampled = x]]
    OBVIOUS
  <2> DEFINE L == pass["monitor"].left \ {v}
             x == pass["monitor"].sampled \/ w
  <2>1. L \in SUBSET Volumes /\ x \in BOOLEAN
    BY <1>0, PassFields
  <2>2. pass' = [pass EXCEPT !["monitor"] = [pass["monitor"] EXCEPT !.left = L, !.sampled = x]]
    BY <1>0 DEF Passed, Pass
  <2> QED BY <2>1, <2>2
<1>8. \A e : Observe(v, e) => tracked' = [tracked EXCEPT ![v] = [e EXCEPT !.existed = TRUE]]
  BY DEF Observe
<1>9. MonitorKeeps(v) \/ MonitorAdvances(v) \/ MonitorFails(v)
  <2>1. CASE tracked' = [tracked EXCEPT ![v] = st] /\ UNCHANGED <<samples, counted>>
    BY <2>1, <1>1 DEF MonitorKeeps, k
  <2>2. CASE Observe(v, seen) /\ UNCHANGED <<samples, counted>>
    BY <2>2, <1>1, <1>8 DEF MonitorKeeps, k
  <2>3. CASE /\ page[v].pos > st.loc /\ InsertPosition("monitor", v)
             /\ UNCHANGED counted /\ Observe(v, anchor)
    <3>1. 0 \in NewSeconds(v) /\ counted' = counted + 0
      BY <1>0, <2>3 DEF NewSeconds
    <3> QED BY <2>3, <3>1, <1>1, <1>5, <1>8 DEF MonitorAdvances, k
  <2>4. CASE /\ page[v].pos > st.loc /\ InsertPosition("monitor", v)
             /\ counted' = counted + n /\ Observe(v, [anchor EXCEPT !.active = TRUE])
    BY <2>4, <1>1, <1>5, <1>6, <1>8 DEF MonitorAdvances, k
  <2>5. CASE /\ page[v].pos > st.loc
             /\ InsertPosition("monitor", v) \/ UNCHANGED samples
             /\ cuts' = cuts + 1 /\ UNCHANGED tracked
             /\ UNCHANGED counted \/ counted' = counted + n
    BY <2>5, <1>0, <1>5, <1>6 DEF MonitorFails, k
  <2> QED BY <1>4, <2>1, <2>2, <2>3, <2>4, <2>5
<1>10. cuts' \in 0 .. MaxMishaps /\ cuts' >= cuts
  <2>1. UNCHANGED cuts \/ (CanFail /\ cuts' = cuts + 1)
    BY <1>4, Zenon
  <2> QED BY <1>0, <1>2, <2>1, KindleConstants
<1>11. Passed(v, TRUE) \/ Passed(v, FALSE) \/ pass' = [pass EXCEPT !["monitor"] = NoPass]
  BY <1>4, Zenon
<1>12. \/ pass' = [pass EXCEPT !["monitor"] = NoPass]
       \/ \E L \in SUBSET Volumes, x \in BOOLEAN :
            pass' = [pass EXCEPT !["monitor"] = [pass["monitor"] EXCEPT !.left = L, !.sampled = x]]
  BY <1>7, <1>11, Zenon
<1> QED BY <1>3, <1>9, <1>10, <1>12, Zenon DEF m

LEMMA MonitorBase ==
  ASSUME KindleBase, NEW v \in Volumes, MonitorBook(v)
  PROVE  KindleBase'
<1>0. /\ pass \in [ReadingJobs -> Pass] /\ "monitor" \in ReadingJobs /\ pass["monitor"] \in Pass
      /\ tracked \in [Volumes -> Track] /\ bucket \in [Days -> Nat] /\ tracked[v].loc \in Nat
      /\ counted \in Nat /\ page[v].pos \in Nat
  BY DEF KindleBase, KindleTyped, ReadingJobs, Track, Position
<1>1. /\ UNCHANGED <<tick, page, status, bucket>> /\ cuts' \in 0 .. MaxMishaps
      /\ MonitorKeeps(v) \/ MonitorAdvances(v) \/ MonitorFails(v)
      /\ \/ pass' = [pass EXCEPT !["monitor"] = NoPass]
         \/ \E L \in SUBSET Volumes, w \in BOOLEAN :
              pass' = [pass EXCEPT !["monitor"] = [pass["monitor"] EXCEPT !.left = L, !.sampled = w]]
  BY MonitorOutcomes
<1>2. pass' \in [ReadingJobs -> Pass]
  <2>1. CASE pass' = [pass EXCEPT !["monitor"] = NoPass]
    BY <1>0, <2>1, NoPassIsAPass
  <2>2. ASSUME NEW L \in SUBSET Volumes, NEW w \in BOOLEAN,
               pass' = [pass EXCEPT !["monitor"] = [pass["monitor"] EXCEPT !.left = L, !.sampled = w]]
        PROVE  pass' \in [ReadingJobs -> Pass]
    <3>1. [pass["monitor"] EXCEPT !.left = L, !.sampled = w] \in Pass
      BY <1>0, PassFields
    <3> QED BY <1>0, <2>2, <3>1
  <2> QED BY <1>1, <2>1, <2>2
<1>3. tracked' \in [Volumes -> Track]
  BY <1>0, <1>1 DEF MonitorKeeps, MonitorAdvances, MonitorFails
<1>4. counted' \in Nat
  <2>1. \A n \in NewSeconds(v) : n \in Nat
    <3>1. tracked[v].advanced \in Int /\ page[v].at \in Int
      BY DEF KindleBase, KindleTyped, Track, Position
    <3> QED BY <3>1 DEF NewSeconds
  <2>2. counted' = counted \/ counted' \in Nat \/ \E n \in NewSeconds(v) : counted' = counted + n
    BY <1>1, Zenon DEF MonitorKeeps, MonitorAdvances, MonitorFails
  <2> QED BY <1>0, <2>1, <2>2
<1>5. CASE UNCHANGED samples
  BY <1>0, <1>1, <1>2, <1>3, <1>4, <1>5, QuietBase
<1>6. CASE page[v].pos > tracked[v].loc /\ InsertPosition("monitor", v)
  <2>1. page[v].pos > 0
    BY <1>0, <1>6
  <2>2. /\ samples' \in [Volumes -> SUBSET Position] /\ UpTo(samples'[v], page[v])
        /\ \A u \in Volumes : u # v => samples'[u] = samples[u]
    BY <1>6, <2>1, Stored
  <2>3. KindleTyped'
    BY <1>1, <1>2, <1>3, <1>4, <2>2 DEF KindleBase, KindleTyped
  <2>4. Sampled'
    BY <1>1, <2>2 DEF KindleBase, Sampled
  <2> QED BY <2>3, <2>4 DEF KindleBase
<1> QED BY <1>1, <1>5, <1>6 DEF MonitorKeeps, MonitorAdvances, MonitorFails

-----------------------------------------------------------------------------
(* The start.                                                              *)

\* There is a first and a last sample.
LEMMA SampleExtremes ==
  ASSUME NEW S, IsSamples(S), S # {}
  PROVE  /\ \E s \in S : \A r \in S : r.at <= s.at
         /\ \E s \in S : \A r \in S : s.at <= r.at
<1> DEFINE f == [s \in S |-> s.at]
           T == {f[s] : s \in S}
<1>0. \A s \in S : s.at \in Int
  BY DEF IsSamples, Position
<1>1. IsFiniteSet(S) /\ S \in SUBSET DOMAIN f
  BY SamplesAreFinite
<1>2. T # {} /\ (\A x \in T : x \in Int) /\ (\A x \in T : \E s \in S : x = s.at)
      /\ \A s \in S : s.at \in T
  BY <1>0
<1>3. IsFiniteSet(T)
  <2> HIDE DEF f
  <2> QED BY <1>1, ImageIsFinite
<1> HIDE DEF T
<1>4. (\E x \in T : \A y \in T : x >= y) /\ (\E x \in T : \A y \in T : x <= y)
  BY <1>2, <1>3, FiniteHasExtremes
<1> QED BY <1>0, <1>2, <1>4

\* What earlier polls have stored.
LEMMA PastSamples ==
  ASSUME NEW v \in Volumes
  PROVE  /\ IsSamples(Past[v]) /\ \A r \in Past[v] : r.at <= FirstTick /\ r.pos > 0
         /\ Latest(Past[v]) \in Position /\ Latest(Past[v]).at <= FirstTick
         /\ UpTo(Past[v], Latest(Past[v]))
<1> DEFINE S == Past[v]
<1>0. MaxTick \in Nat /\ MaxPage \in Nat /\ FirstTick \in 0 .. MaxTick
  BY KindleConstants
<1>1. S \in SUBSET [at : 0 .. FirstTick, pos : 1 .. MaxPage]
  BY KindleAssumption
<1>2. \A r \in S, s \in S : r.at = s.at => r = s
  BY KindleAssumption
<1> HIDE DEF S
<1>3. IsSamples(S) /\ \A r \in S : r.at <= FirstTick /\ r.pos > 0 /\ r.at \in Nat /\ r.pos \in Nat
  BY <1>0, <1>1, <1>2 DEF IsSamples, Position
<1>4. CASE S = {}
  <2>1. Latest(S) = [at |-> 0, pos |-> 0]
    BY <1>4 DEF Latest
  <2> QED BY <1>0, <1>3, <1>4, <2>1 DEF Position, UpTo, S
<1>5. CASE S # {}
  <2>3. \E s \in S : \A r \in S : r.at <= s.at
    BY <1>3, <1>5, SampleExtremes
  <2>4. Latest(S) = CHOOSE s \in S : \A r \in S : r.at <= s.at
    BY <1>5 DEF Latest
  <2>5. Latest(S) \in S /\ \A r \in S : r.at <= Latest(S).at
    BY <2>3, <2>4, Zenon
  <2>6. Latest(S) \in Position /\ Latest(S).at <= FirstTick /\ Latest(S).pos > 0
    BY <2>5, <1>3 DEF IsSamples
  <2>7. UpTo(S, Latest(S))
    BY <1>2, <1>3, <2>5, <2>6 DEF UpTo
  <2> QED BY <1>3, <2>6, <2>7 DEF S
<1> QED BY <1>4, <1>5

PastSeconds(d) == [v \in Volumes |-> ComposeSessions(Past[v])[d]]

LEMMA PastBuckets ==
  ASSUME KindleInit, NEW d \in Days
  PROVE  /\ bucket[d] = SumOf(PastSeconds(d), Volumes) /\ bucket[d] \in Nat
         /\ \A v \in Volumes : PastSeconds(d)[v] \in Nat
<1>1. \A v \in Volumes : PastSeconds(d)[v] \in Nat
  BY PastSamples, SessionsCount DEF PastSeconds
<1>2. bucket[d] = Total(PastSeconds(d)) /\ DOMAIN PastSeconds(d) = Volumes
  BY DEF KindleInit, PastSeconds
<1>3. bucket[d] = SumOf(PastSeconds(d), Volumes)
  BY <1>2, TotalIs
<1>4. SumOf(PastSeconds(d), Volumes) \in Nat
  BY <1>1, KindleConstants, SumIsNat
<1> QED BY <1>1, <1>3, <1>4

LEMMA KindleStarts == KindleInit => KindleBase
<1> SUFFICES ASSUME KindleInit PROVE KindleBase
  OBVIOUS
<1>1. samples = Past /\ page = [v \in Volumes |-> Latest(Past[v])] /\ tick = FirstTick
  BY DEF KindleInit
<1>2. Sampled
  BY <1>1, PastSamples DEF Sampled
<1>3. /\ tick \in 0 .. MaxTick /\ page \in [Volumes -> Position] /\ samples \in [Volumes -> SUBSET Position]
  <2>1. samples \in [Volumes -> SUBSET Position]
    <3>1. Past \in [Volumes -> SUBSET [at : 0 .. FirstTick, pos : 1 .. MaxPage]]
      BY KindleAssumption
    <3>2. \A v \in Volumes : Past[v] \in SUBSET Position
      BY PastSamples DEF IsSamples
    <3> QED BY <1>1, <3>1, <3>2
  <2> QED BY <1>1, <2>1, PastSamples, KindleConstants
<1>4. bucket \in [Days -> Nat]
  <2>1. bucket = [d \in Days |-> bucket[d]]
    BY DEF KindleInit
  <2> QED BY <2>1, PastBuckets
<1>5. pass \in [ReadingJobs -> Pass] /\ tracked \in [Volumes -> Track]
  BY NoPassIsAPass, UntrackedIsATrack DEF KindleInit
<1>6. counted \in Nat /\ cuts \in 0 .. MaxMishaps /\ status \in [Volumes -> {"reading", "read"}]
  BY KindleConstants DEF KindleInit
<1> QED BY <1>2, <1>3, <1>4, <1>5, <1>6 DEF KindleBase, KindleTyped

LEMMA KindleBaseStep == KindleBase /\ [KindleNext]_kindleVars => KindleBase'
<1> SUFFICES ASSUME KindleBase, [KindleNext]_kindleVars PROVE KindleBase'
  OBVIOUS
<1>0. "poll" \in ReadingJobs /\ "monitor" \in ReadingJobs
  BY DEF ReadingJobs
<1>1. CASE Tick \/ \E v \in Volumes : TurnPages(v) \/ FinishReading(v)
  BY <1>1, ReaderBase
<1>2. CASE PollStep
  BY <1>0, <1>2, PassBase, Zenon DEF PollStep
<1>3. CASE StartPass("monitor") \/ Recompose("monitor") \/ \E j \in ReadingJobs : CutPass(j)
  BY <1>0, <1>3, PassBase, Zenon
<1>4. CASE \E v \in Volumes : MonitorBook(v)
  BY <1>4, MonitorBase
<1>5. CASE UNCHANGED kindleVars
  BY <1>5 DEF kindleVars, KindleBase, KindleTyped, Sampled
<1> QED BY <1>1, <1>2, <1>3, <1>4, <1>5, Zenon DEF KindleNext, MonitorStep

KindleSpec == KindleInit /\ [][KindleNext]_kindleVars

\* The types of the reading time: KindleTypeOK, and what a pass and a row of the
\* monitor's state hold at each step.
THEOREM KindleTypes == KindleSpec => []KindleTypeOK
<1>1. KindleBase => KindleTypeOK
  BY DEF KindleBase, KindleTyped, KindleTypeOK
<1> QED BY <1>1, KindleStarts, KindleBaseStep, PTL DEF KindleSpec

-----------------------------------------------------------------------------
(* What a poll that nothing overlaps leaves.                               *)

SomeRead(sm, d) == \E v \in Volumes : Instants(sm[v], d) # {}

\* Only a day on which something was read has seconds, in its bucket or in the
\* sums of a pass.
Grounded(bk, ps, sm) ==
  \A d \in Days :
    /\ bk[d] > 0 => SomeRead(sm, d)
    /\ \A j \in ReadingJobs : /\ ps[j].sums[d] > 0 => SomeRead(sm, d)
                              /\ d \in ps[j].days => ps[j].sums[d] > 0

\* The seconds of day d, book by book.
Seconds(sm, d) == [v \in Volumes |-> ComposeSessions(sm[v])[d]]

\* A pass q has summed up some books, and those it will not come to are finished;
\* the days it has written have their sums.
SumsUp(q, bk, sm, stt) ==
  /\ \E D \in SUBSET Volumes :
       /\ D \cap q.left = {}
       /\ \A v \in Volumes : v \in q.left \/ v \in D \/ stt[v] = "read"
       /\ \A d \in Days : q.sums[d] = SumOf(Seconds(sm, d), D)
  /\ \A d \in Days : q.sums[d] > 0 /\ d \notin q.days => bk[d] = q.sums[d]

PollAlone(ps, bk, sm, stt) ==
  LET q == ps["poll"]
  IN  /\ q.at # "idle" /\ q.alone => ps["monitor"].at = "idle"
      /\ q.at = "sample" => \A v \in Volumes : v \in q.books \/ stt[v] = "read"
      /\ q.at = "compose" /\ q.alone => SumsUp(q, bk, sm, stt)

PollInv == /\ KindleBase /\ Grounded(bucket, pass, samples)
           /\ PollAlone(pass, bucket, samples, status)

LEMMA SecondsAre ==
  ASSUME KindleBase, NEW d \in Days, NEW v \in Volumes
  PROVE  /\ Seconds(samples, d)[v] = ComposeSessions(samples[v])[d]
         /\ Seconds(samples, d)[v] \in Nat
         /\ Seconds(samples, d)[v] = Cardinality(Instants(samples[v], d))
         /\ IsFiniteSet(Instants(samples[v], d))
         /\ Seconds(samples, d)[v] > 0 <=> Instants(samples[v], d) # {}
<1>1. IsSamples(samples[v])
  BY DEF KindleBase, Sampled, UpTo
<1>2. Seconds(samples, d)[v] = ComposeSessions(samples[v])[d]
  BY DEF Seconds
<1>3. /\ ComposeSessions(samples[v])[d] \in Nat /\ IsFiniteSet(Instants(samples[v], d))
      /\ ComposeSessions(samples[v])[d] = Cardinality(Instants(samples[v], d))
  BY <1>1, SessionsCount
<1>4. Cardinality(Instants(samples[v], d)) = 0 <=> Instants(samples[v], d) = {}
  BY <1>3, FS_EmptySet
<1> QED BY <1>2, <1>3, <1>4

\* A stored sample takes no instant of reading away.
LEMMA ReadingGrows ==
  ASSUME KindleBase, NEW v \in Volumes, NEW j, InsertPosition(j, v), page[v].pos > 0
  PROVE  /\ \A u \in Volumes : \A t \in 0 .. MaxTick :
              ReadAt(samples[u], t) => ReadAt(samples'[u], t)
         /\ \A d \in Days : SomeRead(samples, d) => SomeRead(samples', d)
<1>1. /\ samples'[v] = samples[v] \cup {page[v]}
      /\ \A u \in Volumes : u # v => samples'[u] = samples[u]
  BY Stored
<1>2. UpTo(samples[v], page[v]) /\ page[v] \in Position
  BY DEF KindleBase, KindleTyped, Sampled
<1>3. \A t \in 0 .. MaxTick : ReadAt(samples[v], t) => ReadAt(samples'[v], t)
  <2>1. CASE page[v] \in samples[v]
    <3>1. samples'[v] = samples[v]
      BY <1>1, <2>1
    <3> QED BY <3>1
  <2>2. CASE page[v] \notin samples[v]
    <3>1. IsSamples(samples[v]) /\ \A r \in samples[v] : r.at < page[v].at
      BY <1>2, <2>2 DEF UpTo, IsSamples, Position
    <3> QED BY <1>1, <1>2, <3>1, LaterSample
  <2> QED BY <2>1, <2>2
<1>4. \A u \in Volumes : \A t \in 0 .. MaxTick : ReadAt(samples[u], t) => ReadAt(samples'[u], t)
  BY <1>1, <1>3
<1>5. \A d \in Days : SomeRead(samples, d) => SomeRead(samples', d)
  BY <1>4 DEF SomeRead, Instants
<1> QED BY <1>4, <1>5

LEMMA GroundKept ==
  ASSUME Grounded(bucket, pass, samples), NEW nb, NEW np, NEW ns,
         \A d \in Days : SomeRead(samples, d) => SomeRead(ns, d),
         \A d \in Days : nb[d] = bucket[d],
         \A i \in ReadingJobs : \/ np[i].sums = pass[i].sums /\ np[i].days \subseteq pass[i].days
                                \/ np[i].sums = NoSums /\ np[i].days = {}
  PROVE  Grounded(nb, np, ns)
<1>1. \A d \in Days : ~ (NoSums[d] > 0)
  BY NoPassIsAPass
<1> SUFFICES ASSUME NEW d \in Days
             PROVE  /\ nb[d] > 0 => SomeRead(ns, d)
                    /\ \A i \in ReadingJobs : /\ np[i].sums[d] > 0 => SomeRead(ns, d)
                                              /\ d \in np[i].days => np[i].sums[d] > 0
  BY DEF Grounded
<1> QED BY <1>1 DEF Grounded

\* Each step keeps the sums of the passes grounded.
LEMMA GroundedStep ==
  ASSUME KindleBase, Grounded(bucket, pass, samples), [KindleNext]_kindleVars
  PROVE  Grounded(bucket', pass', samples')
<1>0. /\ pass \in [ReadingJobs -> Pass] /\ "poll" \in ReadingJobs /\ "monitor" \in ReadingJobs
      /\ bucket \in [Days -> Nat]
  BY DEF KindleBase, KindleTyped, ReadingJobs
<1>a. ASSUME UNCHANGED <<bucket, pass, samples>> PROVE Grounded(bucket', pass', samples')
  BY <1>a
<1>1. CASE Tick \/ \E v \in Volumes : TurnPages(v) \/ FinishReading(v)
  BY <1>a, <1>1 DEF Tick, TurnPages, FinishReading
<1>2. CASE UNCHANGED kindleVars
  BY <1>a, <1>2 DEF kindleVars
<1>b. ASSUME NEW j \in ReadingJobs, NEW q \in Pass, pass' = [pass EXCEPT ![j] = q],
             UNCHANGED bucket, \A d \in Days : SomeRead(samples, d) => SomeRead(samples', d),
             \/ q.sums = pass[j].sums /\ q.days \subseteq pass[j].days
             \/ q.sums = NoSums /\ q.days = {}
      PROVE  Grounded(bucket', pass', samples')
  <2>1. \A i \in ReadingJobs : \/ pass'[i].sums = pass[i].sums /\ pass'[i].days \subseteq pass[i].days
                               \/ pass'[i].sums = NoSums /\ pass'[i].days = {}
    BY <1>0, <1>b
  <2> QED BY <1>b, <2>1, GroundKept
<1>3. ASSUME NEW j \in ReadingJobs, StartPass(j) PROVE Grounded(bucket', pass', samples')
  <2>1. /\ UNCHANGED <<bucket, samples>>
        /\ pass' = [i \in ReadingJobs |->
                      IF i = j THEN Started(AllIdle) ELSE [pass[i] EXCEPT !.alone = FALSE]]
    BY <1>3, PassMoves DEF StartPass
  <2>2. Started(AllIdle).sums = NoSums /\ Started(AllIdle).days = {}
    <3>1. AllIdle \in BOOLEAN /\ KindleTyped
      BY DEF AllIdle, KindleBase
    <3> QED BY <3>1, StartedIsAPass
  <2>3. \A i \in ReadingJobs : LET q == [pass[i] EXCEPT !.alone = FALSE]
                               IN  q.sums = pass[i].sums /\ q.days = pass[i].days
    BY <1>0 DEF Pass
  <2>4. \A i \in ReadingJobs : \/ pass'[i].sums = pass[i].sums /\ pass'[i].days \subseteq pass[i].days
                               \/ pass'[i].sums = NoSums /\ pass'[i].days = {}
    <3> HIDE DEF Started, AllIdle
    <3> QED BY <2>1, <2>2, <2>3
  <2> QED BY <2>1, <2>4, GroundKept
<1>4. ASSUME NEW j \in ReadingJobs, StartRecompose(j) \/ EndPass(j) \/ CutPass(j)
      PROVE Grounded(bucket', pass', samples')
  <2>1. UNCHANGED <<bucket, samples>>
    BY <1>4 DEF StartRecompose, EndPass, CutPass
  <2>2. pass' = [pass EXCEPT ![j] = NoPass] \/ pass' = [pass EXCEPT ![j] = Composing(pass[j])]
    BY <1>4, PassMoves, Zenon DEF EndPass, CutPass
  <2>3. /\ NoPass \in Pass /\ NoPass.sums = NoSums /\ NoPass.days = {} /\ Composing(pass[j]) \in Pass
        /\ Composing(pass[j]).sums = NoSums /\ Composing(pass[j]).days = {}
    BY <1>0, NoPassIsAPass, ComposingIsAPass
  <2> QED BY <1>b, <2>1, <2>2, <2>3
<1>5. ASSUME NEW j \in ReadingJobs, NEW v \in Volumes, ComposeBook(j, v)
      PROVE  Grounded(bucket', pass', samples')
  <2> DEFINE s == AddBook(pass[j].sums, v)
             L == pass[j].left \ {v}
             D == {d \in Days : s[d] > 0}
             q == [pass[j] EXCEPT !.left = L, !.sums = s, !.days = D]
  <2>1. pass' = [pass EXCEPT ![j] = q]
    BY <1>5, PassMoves, Zenon
  <2>2. UNCHANGED <<bucket, samples>>
    BY <1>5 DEF ComposeBook
  <2>3. pass[j] \in Pass /\ pass[j].sums \in [Days -> Nat]
    BY <1>0, PassFields
  <2>4. q.sums = s /\ q.days = D
    BY <2>3 DEF Pass
  <2>5. \A d \in Days : s[d] > 0 => SomeRead(samples, d)
    <3> SUFFICES ASSUME NEW d \in Days, s[d] > 0 PROVE SomeRead(samples, d)
      OBVIOUS
    <3>1. /\ s[d] = pass[j].sums[d] + ComposeSessions(samples[v])[d]
          /\ ComposeSessions(samples[v])[d] \in Nat /\ pass[j].sums[d] \in Nat
      BY <2>3, AddedSums
    <3>2. CASE pass[j].sums[d] > 0
      BY <3>2 DEF Grounded
    <3>3. CASE ComposeSessions(samples[v])[d] > 0
      <4>1. Seconds(samples, d)[v] > 0
        BY <3>3, SecondsAre
      <4> QED BY <4>1, SecondsAre DEF SomeRead
    <3> HIDE DEF s
    <3> QED BY <3>1, <3>2, <3>3
  <2>6. \A d \in Days : d \in D => s[d] > 0
    OBVIOUS
  <2>7. pass'[j].sums = s /\ pass'[j].days = D /\ \A i \in ReadingJobs : i # j => pass'[i] = pass[i]
    <3> HIDE DEF q
    <3> QED BY <1>0, <2>1, <2>4
  <2> HIDE DEF s, D, q
  <2> QED BY <2>2, <2>5, <2>6, <2>7 DEF Grounded
<1>6. ASSUME NEW j \in ReadingJobs, NEW d \in Days, WriteBucket(j, d)
      PROVE  Grounded(bucket', pass', samples')
  <2> DEFINE q == [pass[j] EXCEPT !.days = pass[j].days \ {d}]
  <2>1. pass' = [pass EXCEPT ![j] = q]
    BY <1>6, PassMoves, Zenon
  <2>2. /\ UNCHANGED samples /\ bucket' = [bucket EXCEPT ![d] = pass[j].sums[d]] /\ d \in pass[j].days
    BY <1>6 DEF WriteBucket
  <2>3. q.sums = pass[j].sums /\ q.days = pass[j].days \ {d}
    BY <1>0 DEF Pass
  <2> HIDE DEF q
  <2>4. /\ pass'[j].sums = pass[j].sums /\ pass'[j].days = pass[j].days \ {d}
        /\ \A i \in ReadingJobs : i # j => pass'[i] = pass[i]
    BY <1>0, <2>1, <2>3
  <2>5. SomeRead(samples, d)
    BY <2>2 DEF Grounded
  <2>6. \A e \in Days : bucket'[e] > 0 => SomeRead(samples, e)
    <3>1. \A e \in Days : e # d => bucket'[e] = bucket[e]
      BY <1>0, <2>2
    <3> QED BY <2>5, <3>1 DEF Grounded
  <2>7. \A e \in Days : \A i \in ReadingJobs :
          pass'[i].sums = pass[i].sums /\ (e \in pass'[i].days => e \in pass[i].days)
    BY <2>4
  <2> QED BY <2>2, <2>6, <2>7 DEF Grounded
<1>7. ASSUME NEW v \in Volumes, PollBook(v) PROVE Grounded(bucket', pass', samples')
  <2> DEFINE L == pass["poll"].left \ {v}
             q == [pass["poll"] EXCEPT !.left = L]
  <2>1. pass' = [pass EXCEPT !["poll"] = q] /\ UNCHANGED bucket
    BY <1>0, <1>7, PassMoves, Zenon DEF PollBook
  <2>2. L \in SUBSET Volumes /\ pass["poll"] \in Pass
    BY <1>0, PassFields
  <2> HIDE DEF L
  <2>3. q \in Pass /\ q.sums = pass["poll"].sums /\ q.days = pass["poll"].days
    BY <2>2 DEF Pass
  <2>4. \A d \in Days : SomeRead(samples, d) => SomeRead(samples', d)
    <3>1. UNCHANGED samples \/ (page[v].pos > 0 /\ InsertPosition("poll", v))
      BY <1>7 DEF PollBook
    <3> QED BY <3>1, ReadingGrows
  <2> HIDE DEF q
  <2> QED BY <1>0, <1>b, <2>1, <2>3, <2>4
<1>8. ASSUME NEW v \in Volumes, MonitorBook(v) PROVE Grounded(bucket', pass', samples')
  <2>1. \A d \in Days : SomeRead(samples, d) => SomeRead(samples', d)
    <3>1. \/ UNCHANGED samples
          \/ page[v].pos > tracked[v].loc /\ InsertPosition("monitor", v)
      BY <1>8, MonitorOutcomes DEF MonitorKeeps, MonitorAdvances, MonitorFails
    <3>2. tracked[v].loc \in Nat /\ page[v].pos \in Nat
      BY DEF KindleBase, KindleTyped, Track, Position
    <3> QED BY <3>1, <3>2, ReadingGrows
  <2>2. UNCHANGED bucket /\ pass["monitor"] \in Pass
    BY <1>0, <1>8, MonitorOutcomes
  <2>3. CASE pass' = [pass EXCEPT !["monitor"] = NoPass]
    BY <1>0, <1>b, <2>1, <2>2, <2>3, NoPassIsAPass
  <2>4. ASSUME NEW L \in SUBSET Volumes, NEW w \in BOOLEAN,
               pass' = [pass EXCEPT !["monitor"] = [pass["monitor"] EXCEPT !.left = L, !.sampled = w]]
        PROVE  Grounded(bucket', pass', samples')
    <3> DEFINE q == [pass["monitor"] EXCEPT !.left = L, !.sampled = w]
    <3>1. q \in Pass /\ q.sums = pass["monitor"].sums /\ q.days = pass["monitor"].days
      BY <2>2 DEF Pass
    <3>2. pass' = [pass EXCEPT !["monitor"] = q]
      BY <2>4
    <3> HIDE DEF q
    <3> QED BY <1>0, <1>b, <2>1, <2>2, <3>1, <3>2
  <2> QED BY <1>8, <2>3, <2>4, MonitorOutcomes
<1> QED BY <1>0, <1>1, <1>2, <1>3, <1>4, <1>5, <1>6, <1>7, <1>8, Zenon
        DEF KindleNext, PollStep, MonitorStep, Recompose

\* A step of the monitor: then the poll that may be under way is not alone.
LEMMA MonitorApart ==
  ASSUME KindleBase, PollAlone(pass, bucket, samples, status), pass["monitor"].at # "idle",
         pass'["poll"] = pass["poll"], UNCHANGED status
  PROVE  PollAlone(pass', bucket', samples', status')
BY DEF PollAlone

\* What the step of a job leaves of the other job.
LEMMA OtherPass ==
  ASSUME KindleBase, NEW j \in ReadingJobs, NEW q, pass' = [pass EXCEPT ![j] = q]
  PROVE  pass'[j] = q /\ \A i \in ReadingJobs : i # j => pass'[i] = pass[i]
BY DEF KindleBase, KindleTyped

LEMMA PollAloneStep ==
  ASSUME PollInv, [KindleNext]_kindleVars
  PROVE  PollAlone(pass', bucket', samples', status')
<1>0. /\ pass \in [ReadingJobs -> Pass] /\ "poll" \in ReadingJobs /\ "monitor" \in ReadingJobs
      /\ bucket \in [Days -> Nat] /\ status \in [Volumes -> {"reading", "read"}]
      /\ KindleBase /\ PollAlone(pass, bucket, samples, status) /\ pass["poll"] \in Pass
  BY DEF PollInv, KindleBase, KindleTyped, ReadingJobs
<1>1. CASE UNCHANGED <<pass, bucket, samples>> /\ \A v \in Volumes : status[v] = "read" => status'[v] = "read"
  <2>1. SumsUp(pass["poll"], bucket, samples, status) => SumsUp(pass["poll"], bucket, samples, status')
    BY <1>1 DEF SumsUp
  <2> QED BY <1>0, <1>1, <2>1 DEF PollAlone
<1>2. CASE Tick \/ (\E v \in Volumes : TurnPages(v) \/ FinishReading(v)) \/ UNCHANGED kindleVars
  <2>1. /\ UNCHANGED <<pass, bucket, samples>>
        /\ UNCHANGED status \/ \E v \in Volumes : status' = [status EXCEPT ![v] = "read"]
    BY <1>2 DEF Tick, TurnPages, FinishReading, kindleVars
  <2>2. \A v \in Volumes : status[v] = "read" => status'[v] = "read"
    BY <1>0, <2>1
  <2> QED BY <1>1, <2>1, <2>2
<1>3. CASE StartPass("poll")
  <2>1. /\ pass'["poll"] = Started(AllIdle) /\ UNCHANGED status
        /\ pass'["monitor"] = [pass["monitor"] EXCEPT !.alone = FALSE]
    <3> DEFINE np == [i \in ReadingJobs |->
                        IF i = "poll" THEN Started(AllIdle) ELSE [pass[i] EXCEPT !.alone = FALSE]]
    <3>1. pass' = np /\ UNCHANGED status
      BY <1>0, <1>3, PassMoves, Zenon DEF StartPass
    <3>2. np["poll"] = Started(AllIdle) /\ np["monitor"] = [pass["monitor"] EXCEPT !.alone = FALSE]
      <4> HIDE DEF Started, AllIdle
      <4> QED BY <1>0
    <3> HIDE DEF np
    <3> QED BY <3>1, <3>2
  <2>2. /\ Started(AllIdle).at = "sample" /\ Started(AllIdle).books = InProgress
        /\ Started(AllIdle).alone = AllIdle
    <3>1. AllIdle \in BOOLEAN /\ KindleTyped
      BY DEF AllIdle, PollInv, KindleBase
    <3> QED BY <3>1, StartedIsAPass
  <2>3. pass'["monitor"].at = pass["monitor"].at
    BY <1>0, <2>1 DEF Pass
  <2>4. AllIdle => pass["monitor"].at = "idle"
    BY <1>0 DEF AllIdle
  <2>5. \A v \in Volumes : v \in InProgress \/ status[v] = "read"
    BY <1>0 DEF InProgress
  <2> HIDE DEF Started, AllIdle, InProgress
  <2> QED BY <2>1, <2>2, <2>3, <2>4, <2>5 DEF PollAlone
<1>4. CASE StartPass("monitor")
  <2>1. /\ pass'["poll"] = [pass["poll"] EXCEPT !.alone = FALSE] /\ UNCHANGED status
    BY <1>0, <1>4, PassMoves DEF StartPass
  <2>2. /\ pass'["poll"].alone = FALSE /\ pass'["poll"].at = pass["poll"].at
        /\ pass'["poll"].books = pass["poll"].books
    BY <1>0, <2>1 DEF Pass
  <2> QED BY <1>0, <2>1, <2>2 DEF PollAlone
<1>5. ASSUME NEW j \in ReadingJobs, EndPass(j) \/ CutPass(j) PROVE PollAlone(pass', bucket', samples', status')
  <2>1. pass' = [pass EXCEPT ![j] = NoPass] /\ pass[j].at # "idle" /\ UNCHANGED status
    BY <1>5 DEF EndPass, CutPass
  <2>2. pass'[j] = NoPass /\ \A i \in ReadingJobs : i # j => pass'[i] = pass[i]
    BY <1>0, <2>1, OtherPass
  <2>3. CASE j = "poll"
    BY <2>2, <2>3, NoPassIsAPass DEF PollAlone
  <2>4. CASE j = "monitor"
    BY <1>0, <2>1, <2>2, <2>4, MonitorApart
  <2> QED BY <2>3, <2>4 DEF ReadingJobs
<1>6. CASE MonitorStep
  <2>1. UNCHANGED status /\ pass["monitor"].at # "idle"
    <3>1. CASE \E v \in Volumes : MonitorBook(v)
      BY <1>0, <3>1, MonitorOutcomes
    <3>2. CASE Recompose("monitor")
      BY <3>2 DEF Recompose, StartRecompose, EndPass, ComposeBook, WriteBucket
    <3> QED BY <1>6, <3>1, <3>2 DEF MonitorStep
  <2>2. \E q : pass' = [pass EXCEPT !["monitor"] = q]
    <3>1. ASSUME NEW v \in Volumes, MonitorBook(v) PROVE \E q : pass' = [pass EXCEPT !["monitor"] = q]
      BY <1>0, <3>1, MonitorOutcomes, Zenon
    <3>2. CASE Recompose("monitor")
      BY <1>0, <3>2, PassMoves, Zenon DEF Recompose, EndPass
    <3> QED BY <1>6, <3>1, <3>2 DEF MonitorStep
  <2>3. pass'["poll"] = pass["poll"]
    BY <1>0, <2>2, OtherPass
  <2> QED BY <1>0, <2>1, <2>3, MonitorApart
<1>7. ASSUME NEW v \in Volumes, PollBook(v) PROVE PollAlone(pass', bucket', samples', status')
  <2> DEFINE L == pass["poll"].left \ {v}
             q == [pass["poll"] EXCEPT !.left = L]
  <2>1. pass' = [pass EXCEPT !["poll"] = q] /\ UNCHANGED status /\ pass["poll"].at = "sample"
    BY <1>0, <1>7, PassMoves, Zenon DEF PollBook
  <2>2. q.at = pass["poll"].at /\ q.alone = pass["poll"].alone /\ q.books = pass["poll"].books
    BY <1>0 DEF Pass
  <2> HIDE DEF q
  <2>3. pass'["poll"] = q /\ pass'["monitor"] = pass["monitor"]
    BY <1>0, <2>1, OtherPass
  <2> QED BY <1>0, <2>1, <2>2, <2>3 DEF PollAlone
<1>8. CASE StartRecompose("poll")
  <2> DEFINE q == Composing(pass["poll"])
  <2>1. /\ pass' = [pass EXCEPT !["poll"] = q] /\ UNCHANGED <<status, samples, bucket>>
        /\ pass["poll"].at = "sample"
    BY <1>0, <1>8, PassMoves DEF StartRecompose
  <2>2. /\ q.at = "compose" /\ q.left = pass["poll"].books /\ q.alone = pass["poll"].alone
        /\ q.sums = NoSums /\ q.days = {}
    BY <1>0, ComposingIsAPass
  <2> HIDE DEF q
  <2>3. pass'["poll"] = q /\ pass'["monitor"] = pass["monitor"]
    BY <1>0, <2>1, OtherPass
  <2>4. \A d \in Days : NoSums[d] = 0 /\ SumOf(Seconds(samples, d), {}) = 0
    BY NoPassIsAPass, SumOfNone, Zenon
  <2>5. SumsUp(q, bucket, samples, status)
    <3>1. \A v \in Volumes : v \in q.left \/ v \in {} \/ status[v] = "read"
      BY <1>0, <2>1, <2>2 DEF PollAlone
    <3>2. \A d \in Days : q.sums[d] = SumOf(Seconds(samples, d), {}) /\ ~ (q.sums[d] > 0)
      BY <2>2, <2>4
    <3>3. {} \in SUBSET Volumes /\ {} \cap q.left = {}
      OBVIOUS
    <3> QED BY <3>1, <3>2, <3>3 DEF SumsUp
  <2> QED BY <1>0, <2>1, <2>2, <2>3, <2>5 DEF PollAlone
<1>9. ASSUME NEW v \in Volumes, ComposeBook("poll", v) PROVE PollAlone(pass', bucket', samples', status')
  <2> DEFINE p == pass["poll"]
             s == AddBook(p.sums, v)
             L == p.left \ {v}
             W == {d \in Days : s[d] > 0}
             q == [p EXCEPT !.left = L, !.sums = s, !.days = W]
  <2>1. /\ pass' = [pass EXCEPT !["poll"] = q] /\ UNCHANGED <<status, samples, bucket>>
        /\ p.at = "compose"
    BY <1>0, <1>9, PassMoves, Zenon DEF ComposeBook
  <2>2. q.at = p.at /\ q.alone = p.alone /\ q.left = L /\ q.sums = s /\ q.days = W
    BY <1>0 DEF Pass
  <2>3. v \in p.left
    BY <1>9 DEF ComposeBook, NextOf
  <2>4. p.sums \in [Days -> Nat]
    BY <1>0, PassFields
  <2>5. \A d \in Days : s[d] = p.sums[d] + Seconds(samples, d)[v] /\ s[d] \in Nat
    BY <1>0, <2>4, AddedSums, SecondsAre
  <2> HIDE DEF s, q
  <2>6. pass'["poll"] = q /\ pass'["monitor"] = pass["monitor"]
    BY <1>0, <2>1, OtherPass
  <2>7. ASSUME p.alone PROVE SumsUp(q, bucket, samples, status)
    <3>1. SumsUp(p, bucket, samples, status)
      BY <1>0, <2>1, <2>7 DEF PollAlone
    <3>2. PICK D \in SUBSET Volumes :
            /\ D \cap p.left = {}
            /\ \A u \in Volumes : u \in p.left \/ u \in D \/ status[u] = "read"
            /\ \A d \in Days : p.sums[d] = SumOf(Seconds(samples, d), D)
      BY <3>1 DEF SumsUp
    <3>3. /\ D \cup {v} \in SUBSET Volumes /\ (D \cup {v}) \cap L = {} /\ v \notin D
          /\ \A u \in Volumes : u \in L \/ u \in D \cup {v} \/ status[u] = "read"
      BY <2>3, <3>2
    <3>4. ASSUME NEW d \in Days PROVE s[d] = SumOf(Seconds(samples, d), D \cup {v})
      <4>1. IsFiniteSet(D) /\ \A y \in D \cup {v} : Seconds(samples, d)[y] \in Nat
        BY <1>0, KindleConstants, FS_Subset, SecondsAre
      <4>2. SumOf(Seconds(samples, d), D \cup {v}) = Seconds(samples, d)[v] + SumOf(Seconds(samples, d), D)
        BY <3>3, <4>1, SumAdds
      <4>3. p.sums[d] = SumOf(Seconds(samples, d), D) /\ p.sums[d] \in Nat /\ Seconds(samples, d)[v] \in Nat
        BY <2>4, <3>2, <4>1
      <4> QED BY <4>2, <4>3, <2>5
    <3>5. \A d \in Days : ~ (s[d] > 0 /\ d \notin W)
      OBVIOUS
    <3> HIDE DEF p, L, W
    <3> QED BY <2>2, <3>3, <3>4, <3>5 DEF SumsUp
  <2> QED BY <1>0, <2>1, <2>2, <2>6, <2>7 DEF PollAlone
<1>10. ASSUME NEW d \in Days, WriteBucket("poll", d) PROVE PollAlone(pass', bucket', samples', status')
  <2> DEFINE p == pass["poll"]
             W == p.days \ {d}
             q == [p EXCEPT !.days = W]
  <2>1. /\ pass' = [pass EXCEPT !["poll"] = q] /\ UNCHANGED <<status, samples>>
        /\ p.at = "compose" /\ bucket' = [bucket EXCEPT ![d] = p.sums[d]]
    BY <1>0, <1>10, PassMoves, Zenon DEF WriteBucket
  <2>2. q.at = p.at /\ q.alone = p.alone /\ q.left = p.left /\ q.sums = p.sums /\ q.days = W
    BY <1>0 DEF Pass
  <2> HIDE DEF q
  <2>3. pass'["poll"] = q /\ pass'["monitor"] = pass["monitor"]
    BY <1>0, <2>1, OtherPass
  <2>4. bucket'[d] = p.sums[d] /\ \A e \in Days : e # d => bucket'[e] = bucket[e]
    BY <1>0, <2>1
  <2>5. SumsUp(p, bucket, samples, status) => SumsUp(q, bucket', samples, status)
    <3>1. \A e \in Days : e \notin W => e = d \/ e \notin p.days
      OBVIOUS
    <3> HIDE DEF p, W
    <3> QED BY <2>2, <2>4, <3>1 DEF SumsUp
  <2> QED BY <1>0, <2>1, <2>2, <2>3, <2>5 DEF PollAlone
<1>11. CASE PollStep
  BY <1>0, <1>3, <1>5, <1>7, <1>8, <1>9, <1>10, <1>11, Zenon DEF PollStep, Recompose
<1>12. CASE \E j \in ReadingJobs : CutPass(j)
  BY <1>5, <1>12, Zenon
<1> QED BY <1>2, <1>4, <1>6, <1>11, <1>12, Zenon DEF KindleNext

LEMMA PollInvStarts == KindleInit => PollInv
<1> SUFFICES ASSUME KindleInit PROVE PollInv
  OBVIOUS
<1>1. KindleBase
  BY KindleStarts
<1>2. \A j \in ReadingJobs : pass[j] = NoPass
  BY DEF KindleInit
<1>3. PollAlone(pass, bucket, samples, status)
  BY <1>2, NoPassIsAPass DEF PollAlone, ReadingJobs
<1>4. ASSUME NEW d \in Days, bucket[d] > 0 PROVE SomeRead(samples, d)
  <2>1. PastSeconds(d) = Seconds(samples, d)
    BY DEF KindleInit, PastSeconds, Seconds
  <2>2. /\ SumOf(PastSeconds(d), Volumes) > 0 /\ \A v \in Volumes : PastSeconds(d)[v] \in Nat
        /\ IsFiniteSet(Volumes)
    BY <1>4, PastBuckets, KindleConstants
  <2>3. PICK v \in Volumes : PastSeconds(d)[v] > 0
    BY <2>2, SumHasTerm
  <2>4. Instants(samples[v], d) # {}
    BY <1>1, <2>1, <2>3, SecondsAre
  <2> QED BY <2>4 DEF SomeRead
<1>5. Grounded(bucket, pass, samples)
  BY <1>2, <1>4, NoPassIsAPass DEF Grounded
<1> QED BY <1>1, <1>3, <1>5 DEF PollInv

LEMMA PollInvStep == PollInv /\ [KindleNext]_kindleVars => PollInv'
BY KindleBaseStep, GroundedStep, PollAloneStep DEF PollInv

\* When a poll has ended alone, the buckets are the reading time.
LEMMA PollInvRepairs == PollInv => PollRepairs
<1> SUFFICES ASSUME PollInv PROVE PollRepairs
  OBVIOUS
<1> DEFINE p == pass["poll"]
<1> SUFFICES ASSUME p.at = "compose", p.left = {}, p.days = {}, p.alone, NEW d \in Days,
                    ~ \E v \in Volumes : status[v] = "read" /\ ReadingTime(v, d) > 0
             PROVE  bucket[d] = Total([v \in Volumes |-> ReadingTime(v, d)])
  BY Zenon DEF PollRepairs
<1> DEFINE F == [v \in Volumes |-> ReadingTime(v, d)]
<1>0. KindleBase /\ IsFiniteSet(Volumes) /\ SumsUp(p, bucket, samples, status)
  BY KindleConstants DEF PollInv, PollAlone
<1>1. \A v \in Volumes : /\ F[v] = Seconds(samples, d)[v] /\ F[v] \in Nat
                         /\ F[v] > 0 <=> Instants(samples[v], d) # {}
  BY <1>0, SecondsAre DEF ReadingTime, Instants
<1>2. PICK D \in SUBSET Volumes :
        /\ \A v \in Volumes : v \in D \/ status[v] = "read"
        /\ p.sums[d] = SumOf(Seconds(samples, d), D)
  BY <1>0 DEF SumsUp
<1>3. \A v \in Volumes : v \notin D => F[v] = 0
  <2>1. \A v \in Volumes : F[v] = ReadingTime(v, d)
    OBVIOUS
  <2> HIDE DEF F
  <2> QED BY <1>1, <1>2, <2>1
<1>4. Total(F) = SumOf(F, Volumes)
  <2>1. DOMAIN F = Volumes
    OBVIOUS
  <2> HIDE DEF F
  <2> QED BY <2>1, TotalIs
<1> HIDE DEF F
<1>5. SumOf(F, Volumes) = SumOf(F, D)
  <2> DEFINE E == Volumes \ D
  <2>1. /\ IsFiniteSet(D) /\ IsFiniteSet(E) /\ D \cap E = {} /\ D \cup E = Volumes
        /\ E \in SUBSET Volumes
    BY <1>0, FS_Subset
  <2>2. \A v \in E : F[v] = 0 /\ F[v] \in Nat
    BY <1>3
  <2> HIDE DEF E
  <2>3. SumOf(F, Volumes) = SumOf(F, D) + SumOf(F, E)
    BY <1>1, <2>1, SumOfUnion
  <2>4. SumOf(F, E) \in Nat /\ SumOf(F, D) \in Nat
    BY <1>1, <2>1, <2>2, SumIsNat
  <2>5. ~ (SumOf(F, E) > 0)
    BY <2>1, <2>2, SumHasTerm
  <2> QED BY <2>3, <2>4, <2>5
<1>6. p.sums[d] = SumOf(F, D)
  BY <1>1, <1>2, SumDependsOnValues
<1>7. p.sums[d] \in Nat /\ bucket[d] \in Nat
  BY <1>0, PassFields DEF KindleBase, KindleTyped, ReadingJobs
<1>8. CASE p.sums[d] > 0
  BY <1>0, <1>4, <1>5, <1>6, <1>8 DEF SumsUp, F
<1>9. CASE p.sums[d] = 0
  <2>1. \A v \in D : F[v] = 0
    <3>1. IsFiniteSet(D) /\ \A v \in D : F[v] \in Nat
      BY <1>0, <1>1, FS_Subset
    <3>2. \A v \in D : F[v] <= SumOf(F, D)
      BY <3>1, SumBoundsValues
    <3> QED BY <1>6, <1>9, <3>1, <3>2
  <2>2. ~ SomeRead(samples, d)
    BY <1>1, <1>3, <2>1 DEF SomeRead
  <2>3. ~ (bucket[d] > 0)
    BY <2>2 DEF PollInv, Grounded
  <2> QED BY <1>4, <1>5, <1>6, <1>7, <1>9, <2>3 DEF F
<1> QED BY <1>7, <1>8, <1>9

\* A poll that no other pass overlaps leaves every day at its reading time
\* (recomposeReadingActivity), whatever earlier passes left there: PollRepairs.
THEOREM PollsRepair == KindleSpec => []PollRepairs
BY PollInvStarts, PollInvStep, PollInvRepairs, PTL DEF KindleSpec

-----------------------------------------------------------------------------
(* What the monitor has counted.                                           *)

\* With the samples S and the page pg of a book: its state k names a sample, and
\* from there on every sample is of a further page than the ones before.
Anchored(S, k, pg) ==
  k.advanced # Never =>
    /\ \E s \in S : s.at = k.advanced /\ s.pos = k.loc
    /\ \A r \in S : r.at >= k.advanced =>
         /\ r.at < pg.at => r.pos < pg.pos
         /\ \A q \in S : q.at > r.at => q.pos > r.pos

\* The instants of reading before u that the samples prove.
Proven(S, u) == {t \in 0 .. MaxTick : t < u /\ ReadAt(S, t)}

ProvenSeconds(sm, tr) == [v \in Volumes |-> Cardinality(Proven(sm[v], tr[v].advanced))]

Backed(n, failures, sm, tr) == failures = 0 => n <= SumOf(ProvenSeconds(sm, tr), Volumes)

CounterInv ==
  /\ KindleBase
  /\ \A v \in Volumes : Anchored(samples[v], tracked[v], page[v])
  /\ Backed(counted, cuts, samples, tracked)

\* Between two samples at most SessionGap apart, with further and further pages,
\* the book was being read all the time.
LEMMA FilledIn ==
  ASSUME NEW S, IsSamples(S), NEW s \in S, NEW pg \in S, pg.at > s.at, pg.at - s.at <= SessionGap,
         \A r \in S : r.at >= s.at => \A q \in S : q.at > r.at => q.pos > r.pos
  PROVE  \A t \in s.at .. (pg.at - 1) : ReadAt(S, t)
<1> TAKE t \in s.at .. (pg.at - 1)
<1> DEFINE A == {r \in S : r.at <= t}
           B == {r \in S : r.at > t}
<1>0. /\ \A r \in S : r.at \in Nat /\ r.pos \in Nat
      /\ SessionGap \in Nat /\ t \in Int
  BY KindleConstants DEF IsSamples, Position
<1>1. IsSamples(A) /\ IsSamples(B) /\ s \in A /\ pg \in B
  BY <1>0 DEF IsSamples
<1>2. PICK a \in A : \A r \in A : r.at <= a.at
  <2> HIDE DEF A
  <2> QED BY <1>1, SampleExtremes
<1>3. PICK b \in B : \A r \in B : b.at <= r.at
  <2> HIDE DEF B
  <2> QED BY <1>1, SampleExtremes
<1>4. a \in S /\ b \in S /\ a.at <= t /\ t < b.at /\ s.at <= a.at /\ b.at <= pg.at
  BY <1>0, <1>1, <1>2, <1>3
<1>5. b.at - a.at <= SessionGap /\ a.pos # b.pos
  BY <1>0, <1>4
<1>6. \A c \in S : c.at <= a.at \/ c.at >= b.at
  BY <1>0, <1>2, <1>3
<1> HIDE DEF A, B
<1> QED BY <1>4, <1>5, <1>6 DEF ReadAt

LEMMA ProvenIsFinite ==
  \A S, u : IsFiniteSet(Proven(S, u)) /\ Cardinality(Proven(S, u)) \in Nat
<1> TAKE S, u
<1>1. IsFiniteSet(0 .. MaxTick) /\ Proven(S, u) \in SUBSET (0 .. MaxTick)
  BY FS_Interval, KindleConstants DEF Proven
<1> QED BY <1>1, FS_Subset, FS_CardinalityType

\* More reading, up to a later instant, is no less.
LEMMA ProvenGrows ==
  ASSUME NEW S, NEW T, NEW u \in Int, NEW w \in Int, u <= w,
         \A t \in 0 .. MaxTick : ReadAt(S, t) => ReadAt(T, t)
  PROVE  /\ Proven(S, u) \subseteq Proven(T, w)
         /\ Cardinality(Proven(S, u)) <= Cardinality(Proven(T, w))
<1>1. Proven(S, u) \subseteq Proven(T, w)
  BY DEF Proven
<1> QED BY <1>1, ProvenIsFinite, FS_Subset

LEMMA ProvenAdvances ==
  ASSUME NEW S, NEW T, NEW u \in 0 .. MaxTick, NEW w \in 0 .. MaxTick, u < w,
         \A t \in 0 .. MaxTick : ReadAt(S, t) => ReadAt(T, t),
         \A t \in u .. (w - 1) : ReadAt(T, t)
  PROVE  Cardinality(Proven(S, u)) + (w - u) <= Cardinality(Proven(T, w))
<1> DEFINE P == Proven(S, u)
           I == u .. (w - 1)
<1>0. u \in Int /\ w \in Int /\ w - 1 \in Int /\ MaxTick \in Nat
  BY KindleConstants
<1>1. P \subseteq Proven(T, w)
  BY <1>0, ProvenGrows
<1>2. I \subseteq Proven(T, w)
  BY <1>0 DEF Proven
<1>3. P \cap I = {}
  BY <1>0 DEF Proven
<1>4. IsFiniteSet(I) /\ Cardinality(I) = w - u
  BY <1>0, FS_Interval
<1>5. IsFiniteSet(P) /\ IsFiniteSet(Proven(T, w)) /\ Cardinality(P) \in Nat
  BY ProvenIsFinite
<1> HIDE DEF P, I
<1>6. Cardinality(P \cup I) = Cardinality(P) + Cardinality(I) - Cardinality({})
  BY <1>3, <1>4, <1>5, FS_Union
<1>7. Cardinality(P \cup I) <= Cardinality(Proven(T, w))
  BY <1>1, <1>2, <1>5, FS_Subset
<1>8. Cardinality({}) = 0
  BY FS_EmptySet
<1>9. Cardinality(P \cup I) = Cardinality(P) + (w - u)
  BY <1>0, <1>4, <1>5, <1>6, <1>8
<1> QED BY <1>7, <1>9 DEF P

LEMMA ProvenSecondsAre ==
  ASSUME NEW sm, NEW tr
  PROVE  \A v \in Volumes : /\ ProvenSeconds(sm, tr)[v] = Cardinality(Proven(sm[v], tr[v].advanced))
                            /\ ProvenSeconds(sm, tr)[v] \in Nat
BY ProvenIsFinite DEF ProvenSeconds

\* The counter stays backed when no proof is lost, and when it grows by what one
\* book has gained.
LEMMA BackedStays ==
  ASSUME NEW n \in Nat, NEW failures \in Nat, NEW more \in Nat, NEW sm, NEW tr, NEW sn, NEW tn,
         Backed(n, 0, sm, tr), NEW v \in Volumes, NEW extra \in Nat,
         \A u \in Volumes : ProvenSeconds(sm, tr)[u] <= ProvenSeconds(sn, tn)[u],
         ProvenSeconds(sm, tr)[v] + extra <= ProvenSeconds(sn, tn)[v]
  PROVE  Backed(n + extra, failures, sn, tn)
<1> DEFINE F == ProvenSeconds(sm, tr)
           G == ProvenSeconds(sn, tn)
           V == Volumes \ {v}
<1>1. \A u \in Volumes : F[u] \in Nat /\ G[u] \in Nat /\ F[u] <= G[u]
  BY ProvenSecondsAre
<1>2. IsFiniteSet(Volumes) /\ IsFiniteSet(V) /\ V \subseteq Volumes
  BY KindleConstants, FS_RemoveElement
<1>3. F[v] + extra <= G[v] /\ n <= SumOf(F, Volumes)
  BY DEF Backed
<1>4. Backed(n + extra, failures, sn, tn) <=> (failures = 0 => n + extra <= SumOf(G, Volumes))
  BY DEF Backed
<1> HIDE DEF F, G
<1>5. SumOf(F, Volumes) = F[v] + SumOf(F, V) /\ SumOf(G, Volumes) = G[v] + SumOf(G, V)
  BY <1>1, <1>2, SumTakesOut
<1> HIDE DEF V
<1>6. SumOf(F, V) <= SumOf(G, V) /\ SumOf(F, V) \in Nat /\ SumOf(G, V) \in Nat
  BY <1>1, <1>2, SumGrows, SumIsNat
<1> QED BY <1>1, <1>3, <1>4, <1>5, <1>6

\* The page moves on.
LEMMA AnchoredTurn ==
  ASSUME NEW S, NEW k \in Track, NEW pg \in Position, NEW new \in Position, UpTo(S, pg),
         Anchored(S, k, pg), new.pos > pg.pos
  PROVE  Anchored(S, k, new)
<1>1. \A r \in S : r.at \in Nat /\ r.pos \in Nat /\ r.at <= pg.at /\ (r.at = pg.at => r = pg)
  BY DEF UpTo, IsSamples, Position
<1>2. pg.at \in Nat /\ pg.pos \in Nat /\ new.pos \in Nat
  BY DEF Position
<1>3. k.advanced # Never => \A r \in S : r.at >= k.advanced => r.pos <= pg.pos
  BY <1>1, <1>2 DEF Anchored
<1> QED BY <1>1, <1>2, <1>3 DEF Anchored

\* A sample of the page is stored.
LEMMA AnchoredStore ==
  ASSUME NEW S, NEW k \in Track, NEW pg \in Position, UpTo(S, pg), Anchored(S, k, pg)
  PROVE  Anchored(S \cup {pg}, k, pg)
<1>1. \A r \in S : r.at \in Nat /\ r.pos \in Nat /\ r.at <= pg.at
  BY DEF UpTo, IsSamples, Position
<1>2. pg.at \in Nat /\ pg.pos \in Nat
  BY DEF Position
<1> QED BY <1>1, <1>2 DEF Anchored

\* The state is anchored at the page that has just been stored.
LEMMA AnchoredAnew ==
  ASSUME NEW S, NEW k, NEW pg \in Position, UpTo(S, pg), k.advanced = pg.at, k.loc = pg.pos
  PROVE  Anchored(S \cup {pg}, k, pg)
<1>1. \A r \in S : r.at \in Nat /\ r.at <= pg.at
  BY DEF UpTo, IsSamples, Position
<1>2. pg.at \in Nat
  BY DEF Position
<1> QED BY <1>1, <1>2 DEF Anchored

LEMMA AnchoredSame ==
  ASSUME NEW S, NEW k, NEW l, NEW pg, SameAnchor(k, l), Anchored(S, l, pg)
  PROVE  Anchored(S, k, pg)
BY DEF Anchored, SameAnchor

\* A page that is further than the anchor was reached later.
LEMMA AdvanceIsLater ==
  ASSUME NEW S, NEW k \in Track, NEW pg \in Position, UpTo(S, pg), Anchored(S, k, pg),
         pg.pos > k.loc
  PROVE  /\ k.advanced < pg.at /\ k.advanced \in Int /\ pg.at \in Int
         /\ k.advanced # Never => k.advanced \in 0 .. MaxTick /\ \E s \in S : s.at = k.advanced
<1>1. \A r \in S : r.at \in 0 .. MaxTick /\ r.at <= pg.at /\ (r.at = pg.at => r = pg)
  BY DEF UpTo, IsSamples, Position
<1>2. pg.at \in Nat /\ pg.pos \in Nat /\ k.loc \in Nat /\ k.advanced \in Int /\ MaxTick \in Nat
  BY KindleConstants DEF Position, Track
<1>3. CASE k.advanced = Never
  BY <1>2, <1>3 DEF Never
<1>4. CASE k.advanced # Never
  <2>1. PICK s \in S : s.at = k.advanced /\ s.pos = k.loc
    BY <1>4 DEF Anchored
  <2> QED BY <1>1, <1>2, <2>1
<1> QED BY <1>3, <1>4

LEMMA BackedQuiet ==
  ASSUME CounterInv, UNCHANGED <<samples, tracked, counted>>, cuts' \in Nat, cuts' >= cuts
  PROVE  Backed(counted', cuts', samples', tracked')
<1>1. cuts \in Nat /\ (cuts' = 0 => cuts = 0)
  BY KindleConstants DEF CounterInv, KindleBase, KindleTyped
<1> QED BY <1>1 DEF CounterInv, Backed

LEMMA CounterQuiet ==
  ASSUME CounterInv, UNCHANGED <<samples, tracked, counted, page>>, cuts' \in Nat, cuts' >= cuts,
         KindleBase'
  PROVE  CounterInv'
<1>1. Backed(counted', cuts', samples', tracked')
  BY BackedQuiet
<1>2. \A v \in Volumes : Anchored(samples'[v], tracked'[v], page'[v])
  BY DEF CounterInv
<1> QED BY <1>1, <1>2 DEF CounterInv

\* A sample is stored, by the poll or by a pass of the monitor that fails.
LEMMA CounterStored ==
  ASSUME CounterInv, NEW v \in Volumes, NEW j, InsertPosition(j, v), page[v].pos > 0,
         UNCHANGED <<page, tracked>>, cuts' \in Nat, cuts' >= cuts,
         UNCHANGED counted \/ cuts' > 0, KindleBase'
  PROVE  CounterInv'
<1>0. /\ KindleBase /\ page[v] \in Position /\ UpTo(samples[v], page[v])
      /\ tracked \in [Volumes -> Track] /\ counted \in Nat /\ cuts \in Nat
      /\ Backed(counted, cuts, samples, tracked)
  BY KindleConstants DEF CounterInv, KindleBase, KindleTyped, Sampled
<1>1. /\ samples'[v] = samples[v] \cup {page[v]}
      /\ \A u \in Volumes : u # v => samples'[u] = samples[u]
  BY <1>0, Stored
<1>2. \A u \in Volumes : Anchored(samples'[u], tracked'[u], page'[u])
  <2>1. Anchored(samples[v] \cup {page[v]}, tracked[v], page[v])
    BY <1>0, AnchoredStore DEF CounterInv
  <2> QED BY <1>1, <2>1 DEF CounterInv
<1>3. Backed(counted', cuts', samples', tracked')
  <2>1. CASE cuts' > 0
    BY <2>1 DEF Backed
  <2>2. CASE cuts' = 0 /\ UNCHANGED counted
    <3>1. \A u \in Volumes : \A t \in 0 .. MaxTick : ReadAt(samples[u], t) => ReadAt(samples'[u], t)
      BY <1>0, ReadingGrows
    <3>2. ASSUME NEW u \in Volumes
          PROVE  ProvenSeconds(samples, tracked)[u] <= ProvenSeconds(samples', tracked)[u]
      <4>1. tracked[u].advanced \in Int /\ tracked[u].advanced <= tracked[u].advanced
        BY <1>0 DEF Track
      <4>2. Cardinality(Proven(samples[u], tracked[u].advanced))
              <= Cardinality(Proven(samples'[u], tracked[u].advanced))
        BY <3>1, <4>1, ProvenGrows
      <4> QED BY <4>2, ProvenSecondsAre
    <3>3. Backed(counted, 0, samples, tracked) /\ ProvenSeconds(samples, tracked)[v] \in Nat
      BY <1>0, <2>2, ProvenSecondsAre
    <3>4. ProvenSeconds(samples, tracked)[v] + 0 <= ProvenSeconds(samples', tracked)[v]
      BY <3>2, <3>3
    <3>5. Backed(counted + 0, 0, samples', tracked)
      BY <1>0, <3>2, <3>3, <3>4, BackedStays
    <3>6. counted + 0 = counted
      BY <1>0
    <3> QED BY <2>2, <3>5, <3>6
  <2> QED BY <2>1, <2>2
<1> QED BY <1>2, <1>3 DEF CounterInv

\* An advance is stored, anchored and counted.
LEMMA CounterAdvances ==
  ASSUME CounterInv, NEW v \in Volumes, MonitorAdvances(v), UNCHANGED page,
         cuts' \in Nat, cuts' >= cuts, KindleBase'
  PROVE  CounterInv'
<1> DEFINE S == samples[v]
           T == samples'[v]
           k == tracked[v]
           pg == page[v]
<1>0. /\ KindleBase /\ pg \in Position /\ UpTo(S, pg) /\ Anchored(S, k, pg)
      /\ tracked \in [Volumes -> Track] /\ k \in Track /\ counted \in Nat /\ cuts \in Nat
      /\ Backed(counted, cuts, samples, tracked)
  BY KindleConstants DEF CounterInv, KindleBase, KindleTyped, Sampled
<1>1. /\ pg.pos > k.loc /\ InsertPosition("monitor", v)
      /\ \E n \in NewSeconds(v) : counted' = counted + n
  BY DEF MonitorAdvances
<1>2. PICK l \in Track : /\ tracked' = [tracked EXCEPT ![v] = l]
                         /\ SameAnchor(l, [advanced |-> pg.at, loc |-> pg.pos])
  BY Zenon DEF MonitorAdvances
<1>3. l.advanced = pg.at /\ l.loc = pg.pos /\ tracked'[v] = l
      /\ \A u \in Volumes : u # v => tracked'[u] = tracked[u]
  BY <1>0, <1>2 DEF SameAnchor
<1>4. pg.pos > 0
  BY <1>0, <1>1 DEF Track, Position
<1>5. /\ T = S \cup {pg} /\ UpTo(T, pg)
      /\ \A u \in Volumes : u # v => samples'[u] = samples[u]
  BY <1>0, <1>1, <1>4, Stored
<1>6. \A u \in Volumes : \A t \in 0 .. MaxTick : ReadAt(samples[u], t) => ReadAt(samples'[u], t)
  BY <1>0, <1>1, <1>4, ReadingGrows
<1>7. /\ k.advanced < pg.at /\ k.advanced \in Int /\ pg.at \in Int
      /\ k.advanced # Never => k.advanced \in 0 .. MaxTick /\ \E s \in S : s.at = k.advanced
  BY <1>0, <1>1, AdvanceIsLater
<1>8. \A u \in Volumes : Anchored(samples'[u], tracked'[u], page'[u])
  <2>1. Anchored(S \cup {pg}, l, pg)
    BY <1>0, <1>3, AnchoredAnew
  <2>2. Anchored(samples'[v], tracked'[v], page'[v])
    BY <1>3, <1>5, <2>1
  <2> QED BY <1>3, <1>5, <2>2 DEF CounterInv
<1>9. PICK n \in NewSeconds(v) : counted' = counted + n
  BY <1>1
<1>10. n \in Nat /\ ProvenSeconds(samples, tracked)[v] + n <= ProvenSeconds(samples', tracked')[v]
  <2>1. /\ ProvenSeconds(samples, tracked)[v] = Cardinality(Proven(S, k.advanced))
        /\ ProvenSeconds(samples', tracked')[v] = Cardinality(Proven(T, pg.at))
        /\ ProvenSeconds(samples, tracked)[v] \in Nat /\ ProvenSeconds(samples', tracked')[v] \in Nat
    BY <1>3, ProvenSecondsAre
  <2>2. CASE n = 0
    <3>1. Cardinality(Proven(S, k.advanced)) <= Cardinality(Proven(T, pg.at))
      BY <1>6, <1>7, ProvenGrows
    <3> QED BY <2>1, <2>2, <3>1
  <2>3. CASE n # 0
    <3>1. k.advanced # Never /\ pg.at - k.advanced <= SessionGap /\ n = pg.at - k.advanced
      BY <1>9, <2>3 DEF NewSeconds
    <3>2. PICK s \in S : s.at = k.advanced
      BY <1>7, <3>1
    <3>3. Anchored(T, k, pg)
      BY <1>0, <1>5, AnchoredStore
    <3>4. \A r \in T : r.at >= s.at => \A q \in T : q.at > r.at => q.pos > r.pos
      BY <3>1, <3>2, <3>3 DEF Anchored
    <3>5. s \in T /\ pg \in T /\ IsSamples(T)
      BY <1>5, <3>2 DEF UpTo
    <3> HIDE DEF S, T, k, pg
    <3>6. \A t \in s.at .. (pg.at - 1) : ReadAt(T, t)
      BY <1>7, <3>1, <3>2, <3>4, <3>5, FilledIn
    <3>7. pg.at \in 0 .. MaxTick /\ k.advanced \in 0 .. MaxTick
      BY <1>0, <1>7, <3>1 DEF Position
    <3>8. \A t \in 0 .. MaxTick : ReadAt(S, t) => ReadAt(T, t)
      BY <1>6 DEF S, T
    <3>9. Cardinality(Proven(S, k.advanced)) + (pg.at - k.advanced) <= Cardinality(Proven(T, pg.at))
      BY <1>7, <3>2, <3>6, <3>7, <3>8, ProvenAdvances
    <3>10. n \in Nat
      BY <1>7, <3>1
    <3> QED BY <2>1, <3>1, <3>9, <3>10
  <2> QED BY <2>2, <2>3
<1>11. \A u \in Volumes : ProvenSeconds(samples, tracked)[u] <= ProvenSeconds(samples', tracked')[u]
  <2>1. \A u \in Volumes : ProvenSeconds(samples, tracked)[u] \in Nat /\ ProvenSeconds(samples', tracked')[u] \in Nat
    BY ProvenSecondsAre
  <2>2. ASSUME NEW u \in Volumes, u # v
        PROVE  ProvenSeconds(samples, tracked)[u] = ProvenSeconds(samples', tracked')[u]
    BY <1>3, <1>5, <2>2, ProvenSecondsAre
  <2> QED BY <1>10, <2>1, <2>2
<1>12. Backed(counted', cuts', samples', tracked')
  <2>1. CASE cuts' # 0
    BY <2>1 DEF Backed
  <2>2. CASE cuts' = 0
    <3>1. cuts = 0
      BY <1>0, <2>2
    <3>2. Backed(counted, 0, samples, tracked)
      BY <1>0, <3>1
    <3> QED BY <1>0, <1>9, <1>10, <1>11, <3>2, BackedStays
  <2> QED BY <2>1, <2>2
<1> QED BY <1>8, <1>12 DEF CounterInv

LEMMA CounterStep == CounterInv /\ [KindleNext]_kindleVars => CounterInv'
<1> SUFFICES ASSUME CounterInv, [KindleNext]_kindleVars PROVE CounterInv'
  OBVIOUS
<1>0. KindleBase /\ KindleBase' /\ cuts \in Nat /\ cuts' \in Nat
  BY KindleBaseStep, KindleConstants DEF CounterInv, KindleBase, KindleTyped
<1>1. CASE Tick \/ (\E v \in Volumes : FinishReading(v)) \/ UNCHANGED kindleVars
  <2>1. UNCHANGED <<samples, tracked, counted, page, cuts>>
    BY <1>1 DEF Tick, FinishReading, kindleVars
  <2> QED BY <1>0, <2>1, CounterQuiet
<1>2. ASSUME NEW v \in Volumes, TurnPages(v) PROVE CounterInv'
  <2> DEFINE new == [at |-> tick, pos |-> page[v].pos + 1]
  <2>1. /\ page' = [page EXCEPT ![v] = new] /\ UNCHANGED <<samples, tracked, counted, cuts>>
    BY <1>2 DEF TurnPages
  <2>2. /\ page \in [Volumes -> Position] /\ page[v] \in Position /\ tracked[v] \in Track
        /\ UpTo(samples[v], page[v]) /\ Anchored(samples[v], tracked[v], page[v])
        /\ page'[v] \in Position
    BY <1>0 DEF CounterInv, KindleBase, KindleTyped, Sampled
  <2>3. page'[v] = new /\ new.pos > page[v].pos
    BY <2>1, <2>2 DEF Position
  <2> HIDE DEF new
  <2>4. Anchored(samples[v], tracked[v], new)
    BY <2>2, <2>3, AnchoredTurn
  <2>5. \A u \in Volumes : Anchored(samples'[u], tracked'[u], page'[u])
    BY <2>1, <2>2, <2>3, <2>4 DEF CounterInv
  <2>6. Backed(counted', cuts', samples', tracked')
    BY <1>0, <2>1, BackedQuiet
  <2> QED BY <1>0, <2>5, <2>6 DEF CounterInv
<1>3. ASSUME NEW j \in ReadingJobs, StartPass(j) \/ Recompose(j) \/ CutPass(j) PROVE CounterInv'
  <2>1. UNCHANGED <<samples, tracked, counted, page>> /\ (UNCHANGED cuts \/ cuts' = cuts + 1)
    BY <1>3 DEF StartPass, Recompose, CutPass, StartRecompose, EndPass, ComposeBook, WriteBucket
  <2> QED BY <1>0, <2>1, CounterQuiet
<1>4. ASSUME NEW v \in Volumes, PollBook(v) PROVE CounterInv'
  <2>1. /\ UNCHANGED <<page, tracked, counted>> /\ (UNCHANGED cuts \/ cuts' = cuts + 1)
        /\ UNCHANGED samples \/ (page[v].pos > 0 /\ InsertPosition("poll", v))
    BY <1>4 DEF PollBook
  <2>2. cuts' >= cuts
    BY <1>0, <2>1
  <2> QED BY <1>0, <2>1, <2>2, CounterQuiet, CounterStored
<1>5. ASSUME NEW v \in Volumes, MonitorBook(v) PROVE CounterInv'
  <2>0. page[v].pos \in Nat /\ tracked[v].loc \in Nat /\ tracked \in [Volumes -> Track]
    BY <1>0 DEF KindleBase, KindleTyped, Position, Track
  <2>1. /\ UNCHANGED page /\ cuts' >= cuts
        /\ MonitorKeeps(v) \/ MonitorAdvances(v) \/ MonitorFails(v)
    BY <1>0, <1>5, MonitorOutcomes
  <2>2. CASE MonitorKeeps(v)
    <3>1. PICK k \in Track : tracked' = [tracked EXCEPT ![v] = k] /\ SameAnchor(k, tracked[v])
      BY <2>2 DEF MonitorKeeps
    <3>2. UNCHANGED <<samples, counted>>
      BY <2>2 DEF MonitorKeeps
    <3>3. tracked'[v] = k /\ (\A u \in Volumes : u # v => tracked'[u] = tracked[u])
      BY <2>0, <3>1
    <3>4. Anchored(samples[v], k, page[v])
      BY <3>1, AnchoredSame DEF CounterInv
    <3>5. \A u \in Volumes : Anchored(samples'[u], tracked'[u], page'[u])
      BY <2>1, <3>2, <3>3, <3>4 DEF CounterInv
    <3>6. \A u \in Volumes : tracked'[u].advanced = tracked[u].advanced
      BY <3>1, <3>3 DEF SameAnchor
    <3>7. ProvenSeconds(samples', tracked') = ProvenSeconds(samples, tracked)
      BY <3>2, <3>6 DEF ProvenSeconds
    <3>8. Backed(counted', cuts', samples', tracked')
      BY <1>0, <2>1, <3>2, <3>7 DEF CounterInv, Backed
    <3> QED BY <1>0, <3>5, <3>8 DEF CounterInv
  <2>3. CASE MonitorAdvances(v)
    BY <1>0, <2>1, <2>3, CounterAdvances
  <2>4. CASE MonitorFails(v)
    <3>1. cuts' > 0 /\ UNCHANGED tracked /\ page[v].pos > 0
      BY <1>0, <2>0, <2>4 DEF MonitorFails
    <3>2. CASE InsertPosition("monitor", v)
      BY <1>0, <2>1, <3>1, <3>2, CounterStored
    <3>3. CASE UNCHANGED samples
      <4>1. Backed(counted', cuts', samples', tracked')
        BY <3>1 DEF Backed
      <4> QED BY <1>0, <2>1, <3>1, <3>3, <4>1 DEF CounterInv
    <3> QED BY <2>4, <3>2, <3>3 DEF MonitorFails
  <2> QED BY <2>1, <2>2, <2>3, <2>4
<1>6. "poll" \in ReadingJobs /\ "monitor" \in ReadingJobs
  BY DEF ReadingJobs
<1> QED BY <1>1, <1>2, <1>3, <1>4, <1>5, <1>6, Zenon DEF KindleNext, PollStep, MonitorStep

LEMMA CounterStarts == KindleInit => CounterInv
<1> SUFFICES ASSUME KindleInit PROVE CounterInv
  OBVIOUS
<1>1. \A v \in Volumes : Anchored(samples[v], tracked[v], page[v])
  BY DEF KindleInit, Untracked, Anchored
<1>2. SumOf(ProvenSeconds(samples, tracked), Volumes) \in Nat
  BY ProvenSecondsAre, KindleConstants, SumIsNat
<1>3. Backed(counted, cuts, samples, tracked)
  BY <1>2 DEF KindleInit, Backed
<1> QED BY <1>1, <1>3, KindleStarts DEF CounterInv

LEMMA CounterSuffices == CounterInv => CounterIsBacked
<1> SUFFICES ASSUME CounterInv, cuts = 0
             PROVE  counted <= Total([v \in Volumes |-> Total([d \in Days |-> ReadingTime(v, d)])])
  BY DEF CounterIsBacked
<1> DEFINE F == ProvenSeconds(samples, tracked)
           G == [v \in Volumes |-> Total([d \in Days |-> ReadingTime(v, d)])]
<1>0. /\ counted <= SumOf(F, Volumes) /\ IsFiniteSet(Volumes) /\ counted \in Nat
      /\ \A v \in Volumes : IsSamples(samples[v]) /\ tracked[v].advanced \in Int
  BY KindleConstants DEF CounterInv, Backed, KindleBase, KindleTyped, Sampled, UpTo, Track
<1>1. ASSUME NEW v \in Volumes PROVE F[v] \in Nat /\ G[v] \in Nat /\ F[v] <= G[v]
  <2> DEFINE R == {t \in 0 .. MaxTick : ReadAt(samples[v], t)}
  <2>1. [d \in Days |-> ReadingTime(v, d)] = [d \in Days |-> Cardinality(Instants(samples[v], d))]
    BY DEF ReadingTime, Instants
  <2>2. IsFiniteSet(R) /\ G[v] = Cardinality(R)
    BY <1>0, <2>1, DaysAddUp
  <2>3. F[v] = Cardinality(Proven(samples[v], tracked[v].advanced)) /\ F[v] \in Nat
    BY ProvenSecondsAre
  <2>4. Proven(samples[v], tracked[v].advanced) \subseteq R
    BY DEF Proven
  <2> HIDE DEF R, F, G
  <2> QED BY <2>2, <2>3, <2>4, FS_Subset, FS_CardinalityType
<1>2. Total(G) = SumOf(G, Volumes)
  <2>1. DOMAIN G = Volumes
    OBVIOUS
  <2> HIDE DEF G
  <2> QED BY <2>1, TotalIs
<1> HIDE DEF F, G
<1>3. SumOf(F, Volumes) <= SumOf(G, Volumes) /\ SumOf(F, Volumes) \in Nat /\ SumOf(G, Volumes) \in Nat
  BY <1>0, <1>1, SumGrows, SumIsNat
<1>4. counted <= Total(G)
  BY <1>0, <1>2, <1>3
<1> QED BY <1>4 DEF G

\* The counter of the monitor never runs ahead of the reading time the samples
\* prove, as long as no pass was cut short and no fetch failed: CounterIsBacked.
THEOREM CounterStaysBacked == KindleSpec => []CounterIsBacked
BY CounterStarts, CounterStep, CounterSuffices, PTL DEF KindleSpec

-----------------------------------------------------------------------------
(* Streaks of awards.                                                      *)

AVisit == [at : {"idle", "evaluated"}, zone : Zones \union {0}, pt : PeriodTypes]
AReplay == [at : {"idle", "running"}, zone : Zones \union {0}, pt : PeriodTypes,
            now : Nat, left : 0 .. MaxDays]

StreakTyped ==
  /\ time \in Nat /\ zone \in Zones /\ period \in PeriodTypes
  /\ ledger \subseteq [start : Int, pt : PeriodTypes] /\ IsFiniteSet(ledger)
  /\ \A r \in ledger, s \in ledger : r.start = s.start => r = s
  /\ hits \subseteq Int /\ IsFiniteSet(hits) /\ settled \in Int
  /\ visit \in AVisit /\ replay \in AReplay
  /\ replay.at = "running" => replay.left >= 1 /\ replay.now <= time

\* A replay of another zone or period enters nothing later than the change.
ReplayIsOld ==
  replay.at = "running" /\ (replay.zone # zone \/ replay.pt # period) => replay.now <= settled

\* A row begins no later than an instant it was entered for.
Dated == \A r \in ledger : \E t \in hits : r.start <= t

\* The rows of periods after the last change are those of the current calendar
\* for the instants that were hit, and each such instant has its row.
StartOf(t) == PeriodStart(period, t, zone)

RowsAreOfHits ==
  \A r \in ledger :
    PeriodNo(r.start) > PeriodNo(settled)
    => r.pt = period /\ \E t \in hits : r.start = StartOf(t)

HitsHaveRows ==
  \A t \in hits :
    PeriodNo(t) > PeriodNo(settled) => \E r \in ledger : r.start = StartOf(t)

StreakInv == StreakTyped /\ ReplayIsOld /\ Dated /\ RowsAreOfHits /\ HitsHaveRows


LEMMA StreakConstants ==
  /\ DayTicks \in Nat \ {0} /\ WeekDays \in Nat \ {0}
  /\ \A z \in Zones \union {0} : z \in Nat
  /\ Ahead \in Nat /\ MaxTime \in Nat /\ MaxDays \in Nat
  /\ \A pt \in PeriodTypes : LengthOf(pt) \in Nat \ {0}
<1>1. DayTicks \in Nat \ {0} /\ WeekDays \in Nat \ {0}
  BY StreakAssumption
<1>2. DayTicks * WeekDays \in Nat \ {0}
  BY <1>1
<1> QED BY <1>1, <1>2, StreakAssumption DEF LengthOf, PeriodTypes

\* Rounding down to a multiple of len: the number of the period q of length len.
LEMMA Division ==
  ASSUME NEW len \in Nat \ {0}, NEW a \in Int
  PROVE  /\ a \div len \in Int
         /\ (a \div len) * len \in Int
         /\ (a \div len) * len <= a /\ a < (a \div len) * len + len
OBVIOUS

LEMMA MultiplesGrow ==
  ASSUME NEW len \in Nat \ {0}, NEW p \in Int, NEW q \in Int
  PROVE  /\ p * len \in Int
         /\ p < q => p * len + len <= q * len
<1>1. SUFFICES ASSUME p < q PROVE p * len + len <= q * len
  OBVIOUS
<1>2. p * len + len = (p + 1) * len
  OBVIOUS
<1>3. q - (p + 1) \in Nat
  BY <1>1
<1>4. (q - (p + 1)) * len \in Nat
  BY <1>3
<1>5. (q - (p + 1)) * len = q * len - (p + 1) * len
  OBVIOUS
<1> QED BY <1>2, <1>4, <1>5

LEMMA DivisionGrows ==
  ASSUME NEW len \in Nat \ {0}, NEW a \in Int, NEW b \in Int, a <= b
  PROVE  a \div len <= b \div len
<1> DEFINE p == a \div len
           q == b \div len
<1>1. /\ p \in Int /\ q \in Int /\ p * len \in Int /\ q * len \in Int
      /\ p * len <= a /\ b < q * len + len
  BY Division
<1> HIDE DEF p, q
<1>2. q < p => q * len + len <= p * len
  BY <1>1, MultiplesGrow
<1>3. p <= q
  BY <1>1, <1>2
<1> QED BY <1>3 DEF p, q

LEMMA DivisionOfMultiple ==
  ASSUME NEW len \in Nat \ {0}, NEW q \in Int
  PROVE  (q * len) \div len = q
<1> DEFINE a == q * len
           p == a \div len
<1>1. /\ a \in Int /\ p \in Int /\ p * len \in Int
      /\ p * len <= a /\ a < p * len + len
  BY Division, MultiplesGrow
<1>2. (p < q => p * len + len <= q * len) /\ (q < p => q * len + len <= p * len)
  <2> HIDE DEF p
  <2> QED BY <1>1, MultiplesGrow
<1> HIDE DEF p
<1>3. p = q
  BY <1>1, <1>2
<1> QED BY <1>3 DEF p

\* PeriodStart is the first instant of a period, of its own period.
LEMMA StartsOfPeriods ==
  ASSUME NEW pt \in PeriodTypes, NEW z \in Zones \union {0}, NEW t \in Int
  PROVE  /\ PeriodStart(pt, t, z) \in Int
         /\ PeriodStart(pt, t, z) <= t
         /\ PeriodStart(pt, t, z) = ((t + z) \div LengthOf(pt)) * LengthOf(pt) - z
         /\ (PeriodStart(pt, t, z) + z) \div LengthOf(pt) = (t + z) \div LengthOf(pt)
<1> DEFINE len == LengthOf(pt)
           q == (t + z) \div len
           s == q * len - z
<1>1. len \in Nat \ {0} /\ z \in Nat /\ t + z \in Int
  BY StreakConstants
<1> HIDE DEF len
<1>2. q \in Int /\ q * len \in Int /\ q * len <= t + z
  BY <1>1, Division
<1> HIDE DEF q
<1>3. s \in Int /\ s <= t /\ s + z = q * len
  BY <1>1, <1>2
<1>4. (s + z) \div len = q
  BY <1>1, <1>2, <1>3, DivisionOfMultiple
<1> QED BY <1>3, <1>4 DEF len, q, PeriodStart

\* The same for the calendar of the label, and the order of its periods.
LEMMA Calendar ==
  ASSUME zone \in Zones, period \in PeriodTypes
  PROVE  /\ \A t \in Int : PeriodNo(t) \in Int /\ StartOf(t) \in Int /\ StartOf(t) <= t
         /\ \A t \in Int : StartOf(t) = PeriodNo(t) * LengthOf(period) - zone
         /\ \A t \in Int : PeriodNo(StartOf(t)) = PeriodNo(t)
         /\ \A s, t \in Int : s <= t => PeriodNo(s) <= PeriodNo(t)
<1> DEFINE len == LengthOf(period)
<1>1. len \in Nat \ {0} /\ zone \in Nat /\ zone \in Zones \union {0}
  BY StreakConstants
<1>2. ASSUME NEW t \in Int
      PROVE  /\ PeriodNo(t) \in Int /\ StartOf(t) \in Int /\ StartOf(t) <= t
             /\ StartOf(t) = PeriodNo(t) * LengthOf(period) - zone
             /\ PeriodNo(StartOf(t)) = PeriodNo(t)
  <2>1. (t + zone) \div len \in Int
    BY <1>1, Division
  <2> QED BY <2>1, <1>1, StartsOfPeriods DEF PeriodNo, StartOf
<1>3. ASSUME NEW s \in Int, NEW t \in Int, s <= t PROVE PeriodNo(s) <= PeriodNo(t)
  <2> HIDE DEF len
  <2>1. s + zone \in Int /\ t + zone \in Int /\ s + zone <= t + zone
    BY <1>1, <1>3
  <2>2. (s + zone) \div len <= (t + zone) \div len
    BY <1>1, <2>1, DivisionGrows
  <2> QED BY <2>2 DEF len, PeriodNo
<1> QED BY <1>2, <1>3


\* An entry of the current calendar, or one that is no later than the last
\* change once it is made.
LEMMA EntryKeeps ==
  ASSUME StreakInv, NEW pt \in PeriodTypes, NEW z \in Zones \union {0}, NEW t \in Int,
         LogAwards(pt, z, t), UNCHANGED <<zone, period>>,
         settled' \in Int, settled <= settled',
         (pt = period /\ z = zone) \/ t <= settled'
  PROVE  /\ (ledger \subseteq [start : Int, pt : PeriodTypes] /\ IsFiniteSet(ledger))'
         /\ (\A r \in ledger, s \in ledger : r.start = s.start => r = s)'
         /\ (hits \subseteq Int /\ IsFiniteSet(hits))'
         /\ Dated' /\ RowsAreOfHits' /\ HitsHaveRows'
<1> DEFINE row == [start |-> PeriodStart(pt, t, z), pt |-> pt]
<1>1. /\ ledger' = Inserted(row) /\ hits' = hits \union {t}
      /\ zone' = zone /\ period' = period
  BY DEF LogAwards
<1>2. /\ zone \in Zones /\ period \in PeriodTypes
      /\ ledger \subseteq [start : Int, pt : PeriodTypes] /\ IsFiniteSet(ledger)
      /\ hits \subseteq Int /\ IsFiniteSet(hits) /\ settled \in Int
      /\ \A r \in ledger, s \in ledger : r.start = s.start => r = s
  BY DEF StreakInv, StreakTyped
<1>3. /\ row.start \in Int /\ row.start <= t /\ row.pt = pt
      /\ row \in [start : Int, pt : PeriodTypes]
      /\ pt = period /\ z = zone => row.start = StartOf(t)
  BY StartsOfPeriods DEF StartOf
<1>4. /\ ledger \subseteq ledger' /\ ledger' \subseteq ledger \union {row}
      /\ row \in ledger' /\ row \notin ledger => \A r \in ledger : r.start # row.start
      /\ \E r \in ledger' : r.start = row.start
  BY <1>1, <1>2 DEF Inserted
<1> HIDE DEF row
<1>5. /\ (ledger \subseteq [start : Int, pt : PeriodTypes] /\ IsFiniteSet(ledger))'
      /\ (\A r \in ledger, s \in ledger : r.start = s.start => r = s)'
      /\ (hits \subseteq Int /\ IsFiniteSet(hits))'
  <2>1. IsFiniteSet(ledger \union {row}) /\ IsFiniteSet(hits \union {t})
    BY <1>2, FS_AddElement
  <2>2. IsFiniteSet(ledger')
    BY <2>1, <1>4, FS_Subset
  <2> QED BY <2>1, <2>2, <1>1, <1>2, <1>3, <1>4
<1>6. Dated'
  BY <1>1, <1>3, <1>4 DEF StreakInv, Dated
<1>7. /\ \A u \in Int : PeriodNo(u)' = PeriodNo(u) /\ StartOf(u)' = StartOf(u)
      /\ PeriodNo(settled)' = PeriodNo(settled')
      /\ PeriodNo(settled) <= PeriodNo(settled')
      /\ PeriodNo(settled) \in Int /\ PeriodNo(settled') \in Int
      /\ \A u \in Int : PeriodNo(u) \in Int
      /\ \A u \in Int : u <= settled' => PeriodNo(u) <= PeriodNo(settled')
  BY <1>1, <1>2, Calendar DEF PeriodNo, StartOf, PeriodStart
<1>8. RowsAreOfHits'
  <2> SUFFICES ASSUME NEW r \in ledger', PeriodNo(r.start) > PeriodNo(settled')
               PROVE  r.pt = period /\ \E u \in hits' : r.start = StartOf(u)
    <3>1. \A r \in ledger' : r.start \in Int
      BY <1>5
    <3>2. \A u \in hits' : u \in Int
      BY <1>5
    <3> QED BY <3>1, <3>2, <1>1, <1>7 DEF RowsAreOfHits
  <2>1. CASE r \in ledger
    <3>1. r.start \in Int
      BY <2>1, <1>2
    <3>2. PeriodNo(r.start) > PeriodNo(settled)
      BY <3>1, <1>7
    <3> QED BY <2>1, <3>2, <1>1 DEF StreakInv, RowsAreOfHits
  <2>2. CASE r = row
    <3>1. ~ (t <= settled')
      BY <2>2, <1>3, <1>7
    <3>2. pt = period /\ z = zone
      BY <3>1
    <3> QED BY <2>2, <3>2, <1>1, <1>3
  <2> QED BY <2>1, <2>2, <1>4
<1>9. HitsHaveRows'
  <2> SUFFICES ASSUME NEW u \in hits', PeriodNo(u) > PeriodNo(settled')
               PROVE  \E r \in ledger' : r.start = StartOf(u)
    <3>1. \A w \in hits' : w \in Int
      BY <1>5
    <3> QED BY <3>1, <1>7 DEF HitsHaveRows
  <2>1. CASE u \in hits
    <3>1. u \in Int
      BY <2>1, <1>2
    <3>2. PeriodNo(u) > PeriodNo(settled)
      BY <3>1, <1>7
    <3>3. PICK r \in ledger : r.start = StartOf(u)
      BY <2>1, <3>2 DEF StreakInv, HitsHaveRows
    <3> QED BY <3>3, <1>4
  <2>2. CASE u = t
    <3>1. ~ (t <= settled')
      BY <2>2, <1>7
    <3>2. pt = period /\ z = zone
      BY <3>1
    <3> QED BY <2>2, <3>2, <1>3, <1>4
  <2> QED BY <2>1, <2>2, <1>1
<1> QED BY <1>5, <1>6, <1>8, <1>9

\* Steps that enter nothing and change neither calendar.
LEMMA CalendarStays ==
  ASSUME StreakInv, UNCHANGED <<zone, period, ledger, hits, settled>>
  PROVE  /\ (ledger \subseteq [start : Int, pt : PeriodTypes] /\ IsFiniteSet(ledger))'
         /\ (\A r \in ledger, s \in ledger : r.start = s.start => r = s)'
         /\ (hits \subseteq Int /\ IsFiniteSet(hits))'
         /\ Dated' /\ RowsAreOfHits' /\ HitsHaveRows'
BY DEF StreakInv, StreakTyped, Dated, RowsAreOfHits, HitsHaveRows, StartOf, PeriodStart, PeriodNo

LEMMA NoneAreRequests == NoVisit \in AVisit /\ NoReplay \in AReplay
<1>1. 0 \in Zones \union {0} /\ "daily" \in PeriodTypes /\ 0 \in 0 .. MaxDays
  BY StreakConstants DEF PeriodTypes
<1> QED BY <1>1 DEF NoVisit, NoReplay, AVisit, AReplay

\* The later of settled and instants at which something happened.
LEMMA LatestOfThree ==
  ASSUME NEW m \in Int, NEW n \in Int, NEW k \in Int
  PROVE  LET x == Max({m, n, k}) IN x \in Int /\ m <= x /\ n <= x /\ k <= x
<1> DEFINE S == {m, n, k}
<1>0. IsFiniteSet({m} \union {n} \union {k})
  BY FS_AddElement, FS_Singleton
<1>1. IsFiniteSet(S) /\ S # {} /\ m \in S /\ n \in S /\ k \in S /\ \A x \in S : x \in Int
  <2>1. S = {m} \union {n} \union {k}
    OBVIOUS
  <2> QED BY <1>0, <2>1
<1> HIDE DEF S
<1>2. Max(S) \in S /\ \A y \in S : y <= Max(S)
  BY <1>1, MaxOfFinite
<1>3. Max(S) \in Int /\ m <= Max(S) /\ n <= Max(S) /\ k <= Max(S)
  BY <1>1, <1>2
<1> QED BY <1>3 DEF S

LEMMA LatestOfTwo ==
  ASSUME NEW m \in Int, NEW n \in Int
  PROVE  LET x == Max({m, n}) IN x \in Int /\ m <= x /\ n <= x
<1>1. {m, n} = {m, n, n}
  OBVIOUS
<1> QED BY <1>1, LatestOfThree


LEMMA StreakStarts == StreakInit => StreakInv
<1> SUFFICES ASSUME StreakInit PROVE StreakInv
  OBVIOUS
<1>1. MaxDays * DayTicks \in Nat /\ -1 - DayTicks * WeekDays \in Int
  <2>1. DayTicks * WeekDays \in Int /\ MaxDays * DayTicks \in Nat
    BY StreakConstants
  <2> QED BY <2>1
<1>2. StreakTyped
  BY <1>1, NoneAreRequests, FS_EmptySet DEF StreakInit, StreakTyped, NoReplay
<1>3. ReplayIsOld /\ Dated /\ RowsAreOfHits /\ HitsHaveRows
  BY DEF StreakInit, ReplayIsOld, Dated, RowsAreOfHits, HitsHaveRows, NoReplay
<1> QED BY <1>2, <1>3 DEF StreakInv

\* The clock, and the starts of requests.
LEMMA StartsKeep ==
  ASSUME StreakInv,
         StreakTick \/ Visit \/ \E days \in 1 .. MaxDays : StartReplay(days)
  PROVE  StreakInv'
<1>1. UNCHANGED <<zone, period, ledger, hits, settled>>
  BY DEF StreakTick, Visit, StartReplay
<1>2. /\ time \in Nat /\ zone \in Zones /\ period \in PeriodTypes /\ settled \in Int
      /\ visit \in AVisit /\ replay \in AReplay
      /\ replay.at = "running" => replay.left >= 1 /\ replay.now <= time
  BY DEF StreakInv, StreakTyped
<1>3. /\ time' \in Nat /\ visit' \in AVisit /\ replay' \in AReplay
      /\ replay'.at = "running" => replay'.left >= 1 /\ replay'.now <= time'
      /\ ReplayIsOld'
  <2>1. CASE StreakTick
    <3>1. time' = time + 1 /\ UNCHANGED <<zone, period, visit, replay, settled>>
      BY <2>1 DEF StreakTick
    <3>2. replay.now \in Nat
      BY <1>2 DEF AReplay
    <3> QED BY <3>1, <3>2, <1>2 DEF StreakInv, ReplayIsOld
  <2>2. CASE Visit
    <3>1. /\ visit' = [at |-> "evaluated", zone |-> zone, pt |-> period]
          /\ UNCHANGED <<time, zone, period, replay, settled>>
      BY <2>2 DEF Visit
    <3> QED BY <3>1, <1>2 DEF StreakInv, ReplayIsOld, AVisit
  <2>3. CASE \E days \in 1 .. MaxDays : StartReplay(days)
    <3>1. PICK days \in 1 .. MaxDays : StartReplay(days)
      BY <2>3
    <3>2. /\ replay' = [at |-> "running", zone |-> zone, pt |-> period,
                        now |-> time, left |-> days]
          /\ UNCHANGED <<time, zone, period, visit, settled>>
      BY <3>1 DEF StartReplay
    <3>3. days \in Nat /\ days >= 1 /\ days \in 0 .. MaxDays
      BY StreakConstants
    <3> QED BY <3>2, <3>3, <1>2 DEF ReplayIsOld, AReplay
  <2> QED BY <2>1, <2>2, <2>3
<1> QED BY <1>1, <1>2, <1>3, CalendarStays DEF StreakInv, StreakTyped

LEMMA VisitLogsKeeps == ASSUME StreakInv, VisitLogs PROVE StreakInv'
<1>1. /\ time \in Nat /\ zone \in Zones /\ period \in PeriodTypes /\ settled \in Int
      /\ visit \in AVisit /\ replay \in AReplay
      /\ replay.at = "running" => replay.left >= 1 /\ replay.now <= time
      /\ visit.zone \in Zones \union {0} /\ visit.pt \in PeriodTypes /\ replay.now \in Nat
  BY DEF StreakInv, StreakTyped, AVisit, AReplay
<1>2. visit' = NoVisit /\ UNCHANGED <<time, zone, period, replay>>
  BY DEF VisitLogs
<1>3. CASE UNCHANGED <<ledger, logs, hits, settled>>
  <2>1. ReplayIsOld'
    BY <1>2, <1>3 DEF StreakInv, ReplayIsOld
  <2> QED BY <1>1, <1>2, <1>3, <2>1, CalendarStays, NoneAreRequests DEF StreakInv, StreakTyped
<1>4. CASE /\ LogAwards(visit.pt, visit.zone, time)
           /\ settled' = IF visit.zone = zone /\ visit.pt = period THEN settled
                         ELSE Max({settled, time})
  <2>1. /\ settled' \in Int /\ settled <= settled'
        /\ (visit.pt = period /\ visit.zone = zone) \/ time <= settled'
    BY <1>1, <1>4, LatestOfTwo
  <2>2. ReplayIsOld'
    BY <1>1, <1>2, <2>1 DEF StreakInv, ReplayIsOld
  <2>3. /\ (ledger \subseteq [start : Int, pt : PeriodTypes] /\ IsFiniteSet(ledger))'
        /\ (\A r \in ledger, s \in ledger : r.start = s.start => r = s)'
        /\ (hits \subseteq Int /\ IsFiniteSet(hits))'
        /\ Dated' /\ RowsAreOfHits' /\ HitsHaveRows'
    BY <1>1, <1>2, <1>4, <2>1, EntryKeeps
  <2> QED BY <1>1, <1>2, <2>1, <2>2, <2>3, NoneAreRequests DEF StreakInv, StreakTyped
<1> QED BY <1>3, <1>4 DEF VisitLogs

LEMMA ReplayDayKeeps == ASSUME StreakInv, ReplayDay PROVE StreakInv'
<1> DEFINE t == replay.now - (replay.left - 1) * DayTicks
<1>1. /\ time \in Nat /\ zone \in Zones /\ period \in PeriodTypes /\ settled \in Int
      /\ visit \in AVisit /\ replay \in AReplay
      /\ replay.at = "running" /\ replay.left >= 1 /\ replay.now <= time
      /\ replay.zone \in Zones \union {0} /\ replay.pt \in PeriodTypes
      /\ replay.now \in Nat /\ replay.left \in 0 .. MaxDays
  BY DEF StreakInv, StreakTyped, AReplay, ReplayDay
<1>2. t \in Int /\ t <= replay.now
  <2>1. (replay.left - 1) * DayTicks \in Nat
    BY <1>1, StreakConstants
  <2> QED BY <2>1, <1>1
<1>3. /\ UNCHANGED <<time, zone, period, visit, settled>>
      /\ replay' = IF replay.left = 1 THEN NoReplay ELSE [replay EXCEPT !.left = @ - 1]
  BY DEF ReplayDay
<1>4. /\ replay' \in AReplay
      /\ replay'.at = "running" => replay'.left >= 1 /\ replay'.now <= time'
      /\ ReplayIsOld'
  <2>1. CASE replay.left = 1
    BY <1>3, <2>1, NoneAreRequests DEF NoReplay, ReplayIsOld
  <2>2. CASE replay.left # 1
    <3>1. replay.left - 1 \in 0 .. MaxDays /\ replay.left - 1 >= 1
      BY <1>1, <2>2, StreakConstants
    <3>2. /\ replay' = [replay EXCEPT !.left = replay.left - 1]
          /\ replay'.left = replay.left - 1 /\ replay'.now = replay.now
          /\ replay'.zone = replay.zone /\ replay'.pt = replay.pt /\ replay'.at = replay.at
      BY <1>1, <1>3, <2>2 DEF AReplay
    <3>3. replay' \in AReplay
      BY <1>1, <3>1, <3>2 DEF AReplay
    <3> QED BY <1>1, <1>3, <3>1, <3>2, <3>3 DEF StreakInv, ReplayIsOld
  <2> QED BY <2>1, <2>2
<1>5. CASE UNCHANGED <<ledger, logs, hits>>
  BY <1>1, <1>3, <1>4, <1>5, CalendarStays DEF StreakInv, StreakTyped
<1>6. CASE LogAwards(replay.pt, replay.zone, t)
  <2>1. (replay.pt = period /\ replay.zone = zone) \/ t <= settled'
    BY <1>1, <1>2, <1>3 DEF StreakInv, ReplayIsOld
  <2>2. settled' \in Int /\ settled <= settled'
    BY <1>1, <1>3
  <2> HIDE DEF t
  <2>3. /\ (ledger \subseteq [start : Int, pt : PeriodTypes] /\ IsFiniteSet(ledger))'
        /\ (\A r \in ledger, s \in ledger : r.start = s.start => r = s)'
        /\ (hits \subseteq Int /\ IsFiniteSet(hits))'
        /\ Dated' /\ RowsAreOfHits' /\ HitsHaveRows'
    BY <1>1, <1>2, <1>3, <1>6, <2>1, <2>2, EntryKeeps
  <2> QED BY <1>1, <1>3, <1>4, <2>3 DEF StreakInv, StreakTyped
<1> QED BY <1>5, <1>6 DEF ReplayDay

LEMMA AwardsLogKeeps ==
  ASSUME StreakInv, NEW pt \in PeriodTypes, NEW t \in Int, AwardsLog(pt, t)
  PROVE  StreakInv'
<1>1. /\ time \in Nat /\ zone \in Zones /\ period \in PeriodTypes /\ settled \in Int
      /\ visit \in AVisit /\ replay \in AReplay /\ replay.now \in Nat
      /\ replay.at = "running" => replay.left >= 1 /\ replay.now <= time
      /\ zone \in Zones \union {0}
  BY DEF StreakInv, StreakTyped, AReplay
<1>2. /\ UNCHANGED <<time, zone, period, visit, replay>> /\ LogAwards(pt, zone, t)
      /\ settled' = IF pt = period THEN settled ELSE Max({settled, time, t})
  BY DEF AwardsLog
<1>3. settled' \in Int /\ settled <= settled' /\ (pt = period \/ t <= settled')
  <2> DEFINE x == Max({settled, time, t})
  <2>1. x \in Int /\ settled <= x /\ t <= x
    BY <1>1, LatestOfThree
  <2> HIDE DEF x
  <2>2. settled' = IF pt = period THEN settled ELSE x
    BY <1>2 DEF x
  <2> QED BY <1>1, <2>1, <2>2
<1>4. ReplayIsOld'
  BY <1>1, <1>2, <1>3 DEF StreakInv, ReplayIsOld
<1>5. /\ (ledger \subseteq [start : Int, pt : PeriodTypes] /\ IsFiniteSet(ledger))'
      /\ (\A r \in ledger, s \in ledger : r.start = s.start => r = s)'
      /\ (hits \subseteq Int /\ IsFiniteSet(hits))'
      /\ Dated' /\ RowsAreOfHits' /\ HitsHaveRows'
  BY <1>1, <1>2, <1>3, EntryKeeps
<1> QED BY <1>1, <1>2, <1>3, <1>4, <1>5 DEF StreakInv, StreakTyped

\* A change comes after every instant that was hit, and so after every row.
LEMMA ChangesKeep ==
  ASSUME StreakInv, Changes, zone' \in Zones, period' \in PeriodTypes
  PROVE  StreakInv'
<1> DEFINE all == {time} \union hits
<1>1. /\ time \in Nat /\ hits \subseteq Int /\ IsFiniteSet(hits)
      /\ ledger \subseteq [start : Int, pt : PeriodTypes] /\ IsFiniteSet(ledger)
      /\ visit \in AVisit /\ replay \in AReplay /\ replay.now \in Nat
      /\ replay.at = "running" => replay.left >= 1 /\ replay.now <= time
  BY DEF StreakInv, StreakTyped, AReplay
<1>2. settled' = Max(all) /\ UNCHANGED <<time, ledger, visit, replay, hits>>
  BY DEF Changes
<1>3. IsFiniteSet(all) /\ all # {} /\ time \in all /\ hits \subseteq all /\ \A x \in all : x \in Int
  <2>1. IsFiniteSet(hits \union {time}) /\ all = hits \union {time}
    BY <1>1, FS_AddElement
  <2> QED BY <2>1, <1>1
<1> HIDE DEF all
<1>4. settled' \in Int /\ \A x \in all : x <= settled'
  BY <1>2, <1>3, MaxOfFinite
<1>5. time <= settled' /\ \A x \in hits : x <= settled'
  BY <1>3, <1>4
<1>6. /\ \A t \in Int : PeriodNo(t)' \in Int
      /\ \A s, t \in Int : s <= t => PeriodNo(s)' <= PeriodNo(t)'
      /\ PeriodNo(settled)' \in Int
      /\ \A s \in Int : s <= settled' => PeriodNo(s)' <= PeriodNo(settled)'
  <2> DEFINE len == LengthOf(period')
             No(t) == (t + zone') \div len
  <2>1. len \in Nat \ {0} /\ zone' \in Nat
    BY StreakConstants
  <2>2. /\ \A t \in Int : PeriodNo(t)' = No(t)
        /\ PeriodNo(settled)' = No(settled')
    BY DEF PeriodNo, LengthOf
  <2> HIDE DEF len
  <2>3. \A t \in Int : No(t) \in Int
    BY <2>1, Division
  <2>4. ASSUME NEW s \in Int, NEW t \in Int, s <= t PROVE No(s) <= No(t)
    <3> DEFINE a == s + zone'
               b == t + zone'
    <3>1. a \in Int /\ b \in Int /\ a <= b
      <4>1. \A z \in Nat : s + z \in Int /\ t + z \in Int /\ s + z <= t + z
        BY <2>4
      <4> QED BY <2>1, <4>1
    <3> HIDE DEF a, b
    <3>2. a \div len <= b \div len
      BY <2>1, <3>1, DivisionGrows
    <3> QED BY <3>2 DEF a, b
  <2> HIDE DEF No
  <2> QED BY <2>2, <2>3, <2>4, <1>4
<1>7. RowsAreOfHits'
  <2> SUFFICES ASSUME NEW r \in ledger' PROVE ~ (PeriodNo(r.start)' > PeriodNo(settled)')
    <3>1. \A r \in ledger' : r.start \in Int
      BY <1>1, <1>2
    <3> QED BY <3>1 DEF RowsAreOfHits, PeriodNo
  <2>1. r.start \in Int /\ \E t \in hits : r.start <= t
    BY <1>1, <1>2 DEF StreakInv, Dated
  <2>2. r.start <= settled'
    BY <2>1, <1>1, <1>4, <1>5
  <2> QED BY <2>1, <2>2, <1>6
<1>8. HitsHaveRows'
  <2> SUFFICES ASSUME NEW t \in hits' PROVE ~ (PeriodNo(t)' > PeriodNo(settled)')
    BY DEF HitsHaveRows, PeriodNo
  <2>1. t \in Int /\ t <= settled'
    BY <1>1, <1>2, <1>5
  <2> QED BY <2>1, <1>6
<1>9. ReplayIsOld' /\ Dated'
  BY <1>1, <1>2, <1>4, <1>5 DEF StreakInv, ReplayIsOld, Dated
<1>10. StreakTyped'
  BY <1>1, <1>2, <1>4 DEF StreakInv, StreakTyped
<1> QED BY <1>7, <1>8, <1>9, <1>10 DEF StreakInv

LEMMA StreakStep == StreakInv /\ [StreakNext]_streakVars => StreakInv'
<1> SUFFICES ASSUME StreakInv, [StreakNext]_streakVars PROVE StreakInv'
  OBVIOUS
<1>1. CASE StreakTick \/ Visit \/ \E days \in 1 .. MaxDays : StartReplay(days)
  BY <1>1, StartsKeep
<1>2. CASE VisitLogs
  BY <1>2, VisitLogsKeeps
<1>3. CASE ReplayDay
  BY <1>3, ReplayDayKeeps
<1>4. ASSUME NEW pt \in PeriodTypes, NEW t \in {time - DayTicks, time + Ahead}, AwardsLog(pt, t)
      PROVE  StreakInv'
  <2>1. t \in Int
    BY StreakConstants DEF StreakInv, StreakTyped
  <2> QED BY <1>4, <2>1, AwardsLogKeeps
<1>5. ASSUME NEW z \in Zones, SetUserTimezone(z) PROVE StreakInv'
  <2>1. zone' \in Zones /\ period' \in PeriodTypes /\ Changes
    BY <1>5 DEF SetUserTimezone, StreakInv, StreakTyped
  <2> QED BY <2>1, ChangesKeep
<1>6. ASSUME NEW pt \in PeriodTypes, SetPeriodDefault(pt) PROVE StreakInv'
  <2>1. zone' \in Zones /\ period' \in PeriodTypes /\ Changes
    BY <1>6 DEF SetPeriodDefault, StreakInv, StreakTyped
  <2> QED BY <2>1, ChangesKeep
<1>7. CASE UNCHANGED streakVars
  <2>1. UNCHANGED <<time, zone, period, ledger, visit, replay, hits, settled>>
    BY <1>7 DEF streakVars
  <2> QED BY <2>1, CalendarStays DEF StreakInv, StreakTyped, ReplayIsOld
<1> QED BY <1>1, <1>2, <1>3, <1>4, <1>5, <1>6, <1>7 DEF StreakNext


-----------------------------------------------------------------------------
(* The walk over the rows of a set L, newest first.  Its K newest slots    *)
(* start len apart, the first of them at s; slot k is taken, k \in H, when *)
(* L has a row for it, and every other row is older than these slots.      *)

Above(L, r) == {u \in L : u.start > r.start}

From(L, x) == {u \in L : u.start >= x}

Nth(L, i) == CHOOSE r \in L : Cardinality(Above(L, r)) = i

IsLedger(L) ==
  /\ IsFiniteSet(L) /\ \A r \in L : r.start \in Int
  /\ \A r \in L, u \in L : r.start = u.start => r = u

Slot(s, len, k) == s - k * len

Slotted(L, H, K, s, len) ==
  /\ \A k \in 0 .. K - 1 : k \in H <=> \E r \in L : r.start = Slot(s, len, k)
  /\ \A r \in L : \/ \E k \in 0 .. K - 1 : r.start = Slot(s, len, k)
                  \/ \A k \in 0 .. K - 1 : r.start < Slot(s, len, k)

\* The first n slots are taken.
Taken(H, n) == \A k \in 0 .. n - 1 : k \in H

\* The first n rows are those of the first n slots.
Leads(L, s, len, n) ==
  \A k \in 0 .. n - 1 : Nth(L, k) \in L /\ Nth(L, k).start = Slot(s, len, k)

LEMMA SlotsDescend ==
  ASSUME NEW s \in Int, NEW len \in Nat \ {0}
  PROVE  /\ \A k \in Int : Slot(s, len, k) \in Int
         /\ \A j, k \in Int : j < k => Slot(s, len, k) < Slot(s, len, j)
         /\ \A k \in Int : Slot(s, len, k) = Slot(s, len, k - 1) - len
         /\ Slot(s, len, 0) = s
<1>1. ASSUME NEW k \in Int PROVE k * len \in Int /\ (k - 1) * len \in Int /\ k * len = (k - 1) * len + len
  OBVIOUS
<1>2. ASSUME NEW j \in Int, NEW k \in Int, j < k PROVE j * len + len <= k * len
  BY <1>2, MultiplesGrow
<1>3. 0 * len = 0
  OBVIOUS
<1>4. ASSUME NEW j \in Int, NEW k \in Int, j < k PROVE Slot(s, len, k) < Slot(s, len, j)
  <2>1. j * len \in Int /\ k * len \in Int /\ j * len + len <= k * len
    BY <1>1, <1>2, <1>4
  <2> QED BY <2>1 DEF Slot
<1> QED BY <1>1, <1>3, <1>4 DEF Slot

LEMMA LatestRow ==
  ASSUME NEW L, IsFiniteSet(L), L # {}, \A u \in L : u.start \in Int
  PROVE  \E r \in L : \A u \in L : u.start <= r.start
<1> DEFINE f == [u \in L |-> u.start]
           V == {f[u] : u \in L}
<1>1. /\ V # {} /\ (\A x \in V : x \in Int) /\ DOMAIN f = L
      /\ \A u \in L : u.start \in V
      /\ \A x \in V : \E u \in L : x = u.start
  OBVIOUS
<1>2. IsFiniteSet(V)
  <2> HIDE DEF f
  <2> QED BY <1>1, ImageIsFinite
<1> HIDE DEF V
<1>3. PICK x \in V : \A y \in V : x >= y
  BY <1>1, <1>2, FiniteHasExtremes
<1>4. PICK r \in L : x = r.start
  BY <1>1, <1>3
<1>5. \A u \in L : u.start <= r.start
  BY <1>1, <1>3, <1>4
<1> QED BY <1>5

\* No two rows have the same number of rows above them.
LEMMA NthIs ==
  ASSUME NEW L, IsLedger(L), NEW r \in L
  PROVE  Nth(L, Cardinality(Above(L, r))) = r
<1> DEFINE i == Cardinality(Above(L, r))
           q == Nth(L, i)
<1>1. q \in L /\ Cardinality(Above(L, q)) = i
  BY DEF Nth
<1> HIDE DEF q
<1>2. ASSUME NEW x \in L, NEW y \in L, x.start > y.start
      PROVE  Cardinality(Above(L, x)) < Cardinality(Above(L, y))
  <2>1. x.start \in Int /\ y.start \in Int /\ \A u \in L : u.start \in Int
    BY DEF IsLedger
  <2>2. IsFiniteSet(Above(L, y)) /\ x \in Above(L, y)
    BY <1>2, FS_Subset DEF Above, IsLedger
  <2>3. Above(L, x) \subseteq Above(L, y) \ {x}
    BY <2>1, <1>2 DEF Above
  <2>4. IsFiniteSet(Above(L, y) \ {x})
        /\ Cardinality(Above(L, y) \ {x}) = Cardinality(Above(L, y)) - 1
    BY <2>2, FS_RemoveElement
  <2>5. Cardinality(Above(L, x)) <= Cardinality(Above(L, y) \ {x})
        /\ IsFiniteSet(Above(L, x))
    BY <2>3, <2>4, FS_Subset
  <2>6. Cardinality(Above(L, x)) \in Nat /\ Cardinality(Above(L, y)) \in Nat
    BY <2>2, <2>5, FS_CardinalityType
  <2> QED BY <2>4, <2>5, <2>6
<1>3. IsFiniteSet(Above(L, r)) /\ i \in Nat
  BY FS_Subset, FS_CardinalityType DEF Above, IsLedger
<1>4. q.start = r.start
  <2>1. q.start \in Int /\ r.start \in Int
    BY <1>1 DEF IsLedger
  <2>2. ~ (q.start > r.start) /\ ~ (r.start > q.start)
    BY <1>1, <1>2, <1>3
  <2> QED BY <2>1, <2>2
<1>5. q = r
  BY <1>1, <1>4 DEF IsLedger
<1> QED BY <1>5 DEF q

\* When the first n slots are taken, they are the first n rows.
LEMMA TakenSlots ==
  ASSUME NEW L, IsLedger(L), NEW H, NEW K \in Nat, NEW s \in Int, NEW len \in Nat \ {0},
         Slotted(L, H, K, s, len), NEW n \in 1 .. K, Taken(H, n)
  PROVE  /\ Leads(L, s, len, n)
         /\ n <= Cardinality(L)
         /\ Cardinality(From(L, Slot(s, len, n - 1))) = n
<1> DEFINE At(k) == Slot(s, len, k)
           R == [k \in 0 .. n - 1 |-> CHOOSE r \in L : r.start = At(k)]
<1>1. /\ \A k \in Int : At(k) \in Int
      /\ \A j, k \in Int : j < k => At(k) < At(j)
  BY SlotsDescend
<1> HIDE DEF At
<1>2. \A k \in 0 .. n - 1 : R[k] \in L /\ R[k].start = At(k)
  <2> SUFFICES ASSUME NEW k \in 0 .. n - 1 PROVE R[k] \in L /\ R[k].start = At(k)
    OBVIOUS
  <2>1. k \in 0 .. K - 1 /\ k \in H
    BY DEF Taken
  <2>2. \E r \in L : r.start = At(k)
    BY <2>1 DEF Slotted, At
  <2> QED BY <2>2
<1>3. DOMAIN R = 0 .. n - 1
  OBVIOUS
<1> HIDE DEF R
<1>4. \A j, k \in 0 .. n - 1 : R[j] = R[k] => j = k
  <2> SUFFICES ASSUME NEW j \in 0 .. n - 1, NEW k \in 0 .. n - 1, R[j] = R[k], j # k PROVE FALSE
    OBVIOUS
  <2>1. At(j) = At(k) /\ j \in Int /\ k \in Int /\ At(j) \in Int /\ At(k) \in Int
    BY <1>1, <1>2
  <2> QED BY <2>1, <1>1
<1>5. ASSUME NEW u \in L, NEW m \in 0 .. n - 1, u.start >= At(m)
      PROVE  \E j \in 0 .. m : u = R[j]
  <2>1. u.start \in Int /\ At(m) \in Int /\ m \in 0 .. K - 1
    BY <1>1 DEF IsLedger
  <2>2. PICK j \in 0 .. K - 1 : u.start = At(j)
    BY <2>1, <1>5 DEF Slotted, At
  <2>3. j <= m
    BY <2>1, <2>2, <1>5, <1>1
  <2>4. j \in 0 .. n - 1 /\ j \in 0 .. m
    BY <2>3
  <2>5. u = R[j]
    BY <2>2, <2>4, <1>2 DEF IsLedger
  <2> QED BY <2>4, <2>5
<1> DEFINE Top(k) == {R[j] : j \in 0 .. k - 1}
<1>6. ASSUME NEW k \in 0 .. n PROVE Cardinality(Top(k)) = k
  <2> DEFINE f == [j \in 0 .. k - 1 |-> R[j]]
             D == 0 .. k - 1
             T == Top(k)
  <2>1. f \in Surjection(D, T)
    BY DEF Surjection
  <2>2. f \in Injection(D, T)
    BY <1>4 DEF Injection, IsInjective
  <2>3. IsFiniteSet(D) /\ Cardinality(D) = k
    BY FS_Interval
  <2> HIDE DEF f, D, T
  <2>4. Cardinality(T) = Cardinality(D)
    BY <2>1, <2>2, <2>3, FS_Surjection
  <2> QED BY <2>3, <2>4 DEF T
<1>7. ASSUME NEW k \in 0 .. n - 1 PROVE Above(L, R[k]) = Top(k)
  <2>1. At(k) \in Int /\ R[k].start = At(k) /\ \A u \in L : u.start \in Int
    BY <1>1, <1>2 DEF IsLedger
  <2>2. ASSUME NEW u \in Above(L, R[k]) PROVE u \in Top(k)
    <3>1. u \in L /\ u.start > At(k) /\ u.start >= At(k)
      BY <2>1 DEF Above
    <3>2. PICK j \in 0 .. k : u = R[j]
      BY <1>5, <3>1
    <3>3. j # k
      BY <2>1, <3>1, <3>2
    <3> QED BY <3>2, <3>3
  <2>3. ASSUME NEW j \in 0 .. k - 1 PROVE R[j] \in Above(L, R[k])
    <3>1. j \in 0 .. n - 1 /\ j \in Int /\ k \in Int /\ j < k
      OBVIOUS
    <3>2. R[j] \in L /\ R[j].start = At(j) /\ At(j) \in Int /\ At(k) < At(j)
      BY <3>1, <1>1, <1>2
    <3> QED BY <2>1, <3>2 DEF Above
  <2> QED BY <2>2, <2>3
<1>8. From(L, At(n - 1)) = Top(n)
  <2>1. ASSUME NEW u \in L, u.start >= At(n - 1) PROVE u \in Top(n)
    BY <2>1, <1>5
  <2>2. ASSUME NEW j \in 0 .. n - 1 PROVE R[j] \in L /\ R[j].start >= At(n - 1)
    <3>1. R[j] \in L /\ R[j].start = At(j) /\ At(j) \in Int /\ At(n - 1) \in Int
      BY <1>1, <1>2
    <3>2. j = n - 1 \/ At(n - 1) < At(j)
      BY <1>1
    <3> QED BY <3>1, <3>2
  <2> QED BY <2>1, <2>2 DEF From
<1>9. Cardinality(From(L, At(n - 1))) = n
  BY <1>6, <1>8
<1>10. n <= Cardinality(L)
  <2>1. Top(n) \subseteq L /\ IsFiniteSet(L)
    BY <1>2 DEF IsLedger
  <2> HIDE DEF Top
  <2>2. Cardinality(Top(n)) <= Cardinality(L)
    BY <2>1, FS_Subset
  <2> QED BY <2>2, <1>6
<1>11. ASSUME NEW k \in 0 .. n - 1 PROVE Nth(L, k) \in L /\ Nth(L, k).start = At(k)
  <2>1. Cardinality(Above(L, R[k])) = k
    <3>1. k \in 0 .. n
      OBVIOUS
    <3> HIDE DEF Top
    <3>2. Above(L, R[k]) = Top(k)
      BY <1>7
    <3>3. Cardinality(Top(k)) = k
      BY <1>6, <3>1
    <3> QED BY <3>2, <3>3
  <2>2. Nth(L, k) = R[k]
    <3>1. R[k] \in L
      BY <1>2
    <3> QED BY <2>1, <3>1, NthIs
  <2> QED BY <2>2, <1>2
<1> QED BY <1>9, <1>10, <1>11 DEF At, Leads

\* The walk goes on over the first n slots exactly when they are taken.
WalkOf(L, len, n) == \A i \in 1 .. n - 1 : Nth(L, i).start = Nth(L, i - 1).start - len

LEMMA WalkIsOverSlots ==
  ASSUME NEW L, IsLedger(L), NEW H, NEW K \in Nat, NEW s \in Int, NEW len \in Nat \ {0},
         Slotted(L, H, K, s, len), 0 \in H, NEW n \in 1 .. K
  PROVE  Taken(H, n) <=> n <= Cardinality(L) /\ WalkOf(L, len, n)
<1> DEFINE At(k) == Slot(s, len, k)
<1>1. /\ \A k \in Int : At(k) \in Int
      /\ \A j, k \in Int : j < k => At(k) < At(j)
      /\ \A k \in Int : At(k) = At(k - 1) - len
  BY SlotsDescend
<1>2. ASSUME Taken(H, n) PROVE n <= Cardinality(L) /\ WalkOf(L, len, n)
  <2>1. n <= Cardinality(L) /\ Leads(L, s, len, n)
    BY <1>2, TakenSlots
  <2>2. ASSUME NEW k \in 0 .. n - 1 PROVE Nth(L, k).start = At(k)
    BY <2>1 DEF Leads
  <2>3. ASSUME NEW i \in 1 .. n - 1 PROVE Nth(L, i).start = Nth(L, i - 1).start - len
    <3>1. i \in 0 .. n - 1 /\ i - 1 \in 0 .. n - 1 /\ i \in Int
      OBVIOUS
    <3>2. Nth(L, i).start = At(i) /\ Nth(L, i - 1).start = At(i - 1)
      BY <2>2, <3>1
    <3> QED BY <3>1, <3>2, <1>1
  <2> QED BY <2>1, <2>3 DEF WalkOf
<1>3. ASSUME n <= Cardinality(L), WalkOf(L, len, n), ~ Taken(H, n) PROVE FALSE
  <2> DEFINE Free == {j \in 0 .. n - 1 : j \notin H}
  <2>1. IsFiniteSet(Free) /\ Free # {} /\ \A x \in Free : x \in Int
    <3>0. 0 \in Int /\ n - 1 \in Int
      OBVIOUS
    <3>1. Free \subseteq 0 .. n - 1 /\ IsFiniteSet(0 .. n - 1)
      BY <3>0, FS_Interval
    <3>2. IsFiniteSet(Free)
      <4> HIDE DEF Free
      <4> QED BY <3>1, FS_Subset
    <3> QED BY <1>3, <3>2 DEF Taken
  <2>2. PICK k \in Free : \A j \in Free : k <= j
    <3> HIDE DEF Free
    <3> QED BY <2>1, FiniteHasExtremes
  <2>3. k \in 1 .. n - 1 /\ k \notin H /\ k \in 1 .. K /\ Taken(H, k)
    BY <2>2 DEF Taken
  <2> DEFINE High == From(L, At(k - 1))
             Rest == L \ High
  <2>4. /\ Nth(L, k - 1) \in L /\ Nth(L, k - 1).start = At(k - 1)
        /\ Cardinality(High) = k
    <3>1. Leads(L, s, len, k) /\ Cardinality(High) = k
      BY <2>3, TakenSlots
    <3> QED BY <2>3, <3>1 DEF Leads
  <2>5. Nth(L, k).start = At(k)
    <3>1. Nth(L, k).start = Nth(L, k - 1).start - len
      BY <2>3, <1>3 DEF WalkOf
    <3>2. At(k) = At(k - 1) - len
      BY <2>3, <1>1
    <3> QED BY <3>1, <3>2, <2>4
  <2> HIDE DEF At
  <2>6. /\ Rest # {} /\ IsFiniteSet(Rest) /\ \A u \in L : u.start \in Int
        /\ IsFiniteSet(High) /\ IsFiniteSet(L) /\ At(k - 1) \in Int
    <3>1. /\ IsFiniteSet(Rest) /\ IsFiniteSet(High) /\ IsFiniteSet(L)
          /\ \A u \in L : u.start \in Int
      BY FS_Subset DEF IsLedger, From
    <3>2. High # L
      <4>1. k < n /\ k \in Nat /\ n \in Nat /\ Cardinality(L) \in Nat
        BY <2>3, <3>1, FS_CardinalityType
      <4> HIDE DEF High
      <4> QED BY <4>1, <2>4, <1>3
    <3>3. At(k - 1) \in Int
      BY <2>3, <1>1
    <3>4. Rest # {}
      <4>1. High \subseteq L
        BY DEF From
      <4> HIDE DEF High
      <4> QED BY <3>2, <4>1
    <3> HIDE DEF High, Rest
    <3> QED BY <3>1, <3>3, <3>4
  <2>7. PICK r \in Rest : \A u \in Rest : u.start <= r.start
    <3>1. \A u \in Rest : u.start \in Int
      BY <2>6
    <3> HIDE DEF Rest
    <3> QED BY <3>1, <2>6, LatestRow
  <2>8. Above(L, r) = High
    BY <2>6, <2>7 DEF Above, From
  <2>9. Nth(L, k) = r
    <3>1. r \in L /\ Cardinality(Above(L, r)) = k
      BY <2>4, <2>7, <2>8
    <3> QED BY <3>1, NthIs
  <2>10. k \in H
    <3>1. r \in L /\ r.start = At(k) /\ k \in 0 .. K - 1
      BY <2>3, <2>5, <2>7, <2>9
    <3> QED BY <3>1 DEF Slotted, At
  <2> QED BY <2>3, <2>10
<1> QED BY <1>2, <1>3


LEMMA LeastOfTwo ==
  ASSUME NEW m \in Int, NEW n \in Int
  PROVE  LET x == Min({m, n}) IN x \in {m, n} /\ x \in Int /\ x <= m /\ x <= n
<1> DEFINE S == {m, n}
<1>1. IsFiniteSet({m} \union {n}) /\ S = {m} \union {n}
  BY FS_AddElement, FS_Singleton
<1>2. IsFiniteSet(S) /\ S # {} /\ m \in S /\ n \in S /\ \A x \in S : x \in Int
  BY <1>1
<1> HIDE DEF S
<1>3. Min(S) \in S /\ \A y \in S : Min(S) <= y
  BY <1>2, MinOfFinite
<1>4. Min(S) \in S /\ Min(S) \in Int /\ Min(S) <= m /\ Min(S) <= n
  BY <1>2, <1>3
<1> QED BY <1>4 DEF S

\* The periods, counted back from the current one, that were hit.
HitSlots == {k \in Nat : PeriodNo(time) - k \in HitPeriods}

\* What has to hold for the streak to be exact.
Exactly ==
  /\ StreakInv
  /\ \E t \in hits : PeriodNo(t) > PeriodNo(settled)
  /\ \A t \in hits : PeriodNo(t) <= PeriodNo(time)

LEMMA SlotsArePeriods ==
  ASSUME zone \in Zones, period \in PeriodTypes, time \in Int, NEW k \in Int
  PROVE  LET t == Slot(StartOf(time), LengthOf(period), k)
         IN  t \in Int /\ PeriodNo(t) = PeriodNo(time) - k
<1> DEFINE cur == PeriodNo(time)
           len == LengthOf(period)
           t == Slot(StartOf(time), len, k)
<1>1. /\ len \in Nat \ {0} /\ zone \in Nat /\ cur \in Int
      /\ StartOf(time) \in Int /\ StartOf(time) = cur * len - zone
  BY StreakConstants, Calendar
<1> HIDE DEF cur, len
<1>2. t \in Int
  BY <1>1, SlotsDescend
<1>3. t + zone = (cur - k) * len
  <2>1. (cur - k) * len = cur * len - k * len /\ cur * len \in Int /\ k * len \in Int
    BY <1>1
  <2> QED BY <2>1, <1>1 DEF Slot
<1>4. ((cur - k) * len) \div len = cur - k
  <2>1. cur - k \in Int
    BY <1>1
  <2> QED BY <2>1, <1>1, DivisionOfMultiple
<1>5. (t + zone) \div len = cur - k
  BY <1>3, <1>4
<1> QED BY <1>2, <1>5 DEF PeriodNo, len, cur

\* The ledger has the rows of the periods that were hit since the last change.
LEMMA LedgerIsSlotted ==
  ASSUME Exactly
  PROVE  /\ IsLedger(ledger) /\ StartOf(time) \in Int /\ LengthOf(period) \in Nat \ {0}
         /\ PeriodNo(time) - PeriodNo(settled) \in Nat \ {0}
         /\ Slotted(ledger, HitSlots, PeriodNo(time) - PeriodNo(settled),
                    StartOf(time), LengthOf(period))
         /\ \E r \in ledger : \E k \in 0 .. (PeriodNo(time) - PeriodNo(settled)) - 1 :
               r.start = Slot(StartOf(time), LengthOf(period), k)
<1> DEFINE cur == PeriodNo(time)
           set == PeriodNo(settled)
           K == cur - set
           len == LengthOf(period)
           At(k) == Slot(StartOf(time), len, k)
<1>1. /\ time \in Int /\ zone \in Zones /\ zone \in Nat /\ period \in PeriodTypes
      /\ hits \subseteq Int /\ settled \in Int /\ \A r \in ledger : r.start \in Int
      /\ IsLedger(ledger) /\ len \in Nat \ {0}
  BY StreakConstants DEF Exactly, StreakInv, StreakTyped, IsLedger
<1>2. /\ cur \in Int /\ set \in Int /\ StartOf(time) \in Int
      /\ \A t \in Int : PeriodNo(t) \in Int /\ StartOf(t) \in Int
      /\ \A t \in Int : StartOf(t) = PeriodNo(t) * len - zone
      /\ \A t \in Int : PeriodNo(StartOf(t)) = PeriodNo(t)
      /\ \A s, t \in Int : s <= t => PeriodNo(s) <= PeriodNo(t)
  BY <1>1, Calendar
<1>3. /\ \A t \in hits : PeriodNo(t) <= cur
      /\ \E t \in hits : PeriodNo(t) > set
      /\ \A t \in hits : PeriodNo(t) > set => \E r \in ledger : r.start = StartOf(t)
      /\ \A r \in ledger : PeriodNo(r.start) > set => \E t \in hits : r.start = StartOf(t)
  BY DEF Exactly, StreakInv, HitsHaveRows, RowsAreOfHits
<1>4. HitPeriods = {PeriodNo(t) : t \in hits}
  BY DEF HitPeriods
<1>5. \A k \in Nat : k \in HitSlots <=> \E t \in hits : cur - k = PeriodNo(t)
  BY <1>4 DEF HitSlots
<1> HIDE DEF cur, set, len
<1>6. ASSUME NEW t \in Int, NEW k \in Int, PeriodNo(t) = cur - k
      PROVE  StartOf(t) = At(k)
  <2> DEFINE p == PeriodNo(t)
  <2>1. StartOf(t) = p * len - zone /\ StartOf(time) = cur * len - zone /\ p \in Int /\ p = cur - k
    BY <1>1, <1>2, <1>6 DEF cur
  <2> HIDE DEF p
  <2>2. p * len = cur * len - k * len /\ cur * len \in Int /\ k * len \in Int
    BY <2>1, <1>1, <1>2
  <2> QED BY <2>1, <2>2, <1>1 DEF Slot
<1>7. K \in Nat \ {0}
  <2>1. PICK t \in hits : PeriodNo(t) > set
    BY <1>3
  <2>2. PeriodNo(t) \in Int /\ PeriodNo(t) <= cur
    BY <2>1, <1>1, <1>2, <1>3
  <2> QED BY <2>1, <2>2, <1>2
<1>8. \A k \in Int : At(k) \in Int /\ PeriodNo(At(k)) = cur - k
  BY <1>1, SlotsArePeriods DEF cur, len
<1>9. ASSUME NEW t \in hits, PeriodNo(t) > set
      PROVE  cur - PeriodNo(t) \in 0 .. K - 1 /\ StartOf(t) = At(cur - PeriodNo(t))
  <2>1. t \in Int /\ PeriodNo(t) \in Int /\ PeriodNo(t) <= cur
    BY <1>1, <1>2, <1>3
  <2>2. cur - PeriodNo(t) \in 0 .. K - 1 /\ cur - PeriodNo(t) \in Int
        /\ PeriodNo(t) = cur - (cur - PeriodNo(t))
    BY <2>1, <1>2, <1>9
  <2> QED BY <2>1, <2>2, <1>6
<1>10. ASSUME NEW k \in 0 .. K - 1 PROVE k \in HitSlots <=> \E r \in ledger : r.start = At(k)
  <2>0. k \in Nat /\ k \in Int /\ cur - k \in Int /\ cur - k > set
    BY <1>2, <1>7
  <2>1. ASSUME k \in HitSlots PROVE \E r \in ledger : r.start = At(k)
    <3>1. PICK t \in hits : cur - k = PeriodNo(t)
      BY <2>0, <2>1, <1>5
    <3>2. t \in Int /\ StartOf(t) = At(k) /\ PeriodNo(t) > set
      BY <3>1, <2>0, <1>1, <1>6
    <3> QED BY <3>2, <1>3
  <2>2. ASSUME NEW r \in ledger, r.start = At(k) PROVE k \in HitSlots
    <3>1. PeriodNo(r.start) = cur - k
      BY <2>0, <2>2, <1>8
    <3>2. PICK t \in hits : r.start = StartOf(t)
      BY <3>1, <2>0, <1>3
    <3>3. PeriodNo(t) = cur - k
      BY <3>1, <3>2, <1>1, <1>2
    <3> QED BY <3>3, <2>0, <1>5
  <2> QED BY <2>1, <2>2
<1>11. ASSUME NEW r \in ledger
       PROVE  \/ \E k \in 0 .. K - 1 : r.start = At(k)
              \/ \A k \in 0 .. K - 1 : r.start < At(k)
  <2>1. r.start \in Int /\ PeriodNo(r.start) \in Int
    BY <1>1, <1>2
  <2>2. CASE PeriodNo(r.start) > set
    <3>1. PICK t \in hits : r.start = StartOf(t)
      BY <2>2, <1>3
    <3>2. PeriodNo(t) > set
      BY <3>1, <2>2, <1>1, <1>2
    <3> QED BY <3>1, <3>2, <1>9
  <2>3. CASE ~ (PeriodNo(r.start) > set)
    <3> SUFFICES ASSUME NEW k \in 0 .. K - 1, ~ (r.start < At(k)) PROVE FALSE
      OBVIOUS
    <3>1. k \in Int /\ At(k) \in Int /\ PeriodNo(At(k)) = cur - k /\ cur - k > set
      BY <1>2, <1>7, <1>8
    <3>2. PeriodNo(At(k)) <= PeriodNo(r.start)
      <4>1. At(k) <= r.start
        BY <2>1, <3>1
      <4> HIDE DEF At
      <4> QED BY <4>1, <2>1, <3>1, <1>2
    <3> QED BY <2>1, <2>3, <3>1, <3>2, <1>2
  <2> QED BY <2>2, <2>3
<1>12. \E r \in ledger : \E k \in 0 .. K - 1 : r.start = At(k)
  <2>1. PICK t \in hits : PeriodNo(t) > set
    BY <1>3
  <2>2. PICK r \in ledger : r.start = StartOf(t)
    BY <2>1, <1>3
  <2> QED BY <2>1, <2>2, <1>9
<1> QED BY <1>1, <1>2, <1>7, <1>10, <1>11, <1>12 DEF cur, set, len, Slotted


\* The newest row is of the label's period, and of the current one exactly when
\* that was hit.
LEMMA NewestRow ==
  ASSUME Exactly
  PROVE  /\ ledger # {} /\ Newest.pt = period
         /\ Newest.start = StartOf(time) <=> 0 \in HitSlots
<1> DEFINE K == PeriodNo(time) - PeriodNo(settled)
           len == LengthOf(period)
           At(k) == Slot(StartOf(time), len, k)
           N == Newest
<1>1. /\ IsLedger(ledger) /\ StartOf(time) \in Int /\ len \in Nat \ {0}
      /\ K \in Nat \ {0} /\ Slotted(ledger, HitSlots, K, StartOf(time), len)
      /\ \E r \in ledger : \E k \in 0 .. K - 1 : r.start = At(k)
  BY LedgerIsSlotted
<1>2. /\ \A k \in Int : At(k) \in Int
      /\ \A j, k \in Int : j < k => At(k) < At(j)
      /\ At(0) = StartOf(time)
  BY <1>1, SlotsDescend
<1>3. /\ ledger # {} /\ \A r \in ledger : r.start \in Int
      /\ \A k \in 0 .. K - 1 : k \in HitSlots <=> \E r \in ledger : r.start = At(k)
      /\ \A r \in ledger : \/ \E k \in 0 .. K - 1 : r.start = At(k)
                           \/ \A k \in 0 .. K - 1 : r.start < At(k)
  BY <1>1 DEF IsLedger, Slotted
<1> HIDE DEF K, len, At
<1>4. N \in ledger /\ \A r \in ledger : r.start <= N.start
  <2>1. \E r \in ledger : \A s \in ledger : s.start <= r.start
    BY <1>1, <1>3, LatestRow DEF IsLedger
  <2> QED BY <2>1 DEF Newest
<1> HIDE DEF N
<1>5. PICK j \in 0 .. K - 1 : N.start = At(j)
  <2>1. PICK r \in ledger, k \in 0 .. K - 1 : r.start = At(k)
    BY <1>1
  <2>2. r.start \in Int /\ N.start \in Int /\ r.start <= N.start
    BY <1>3, <1>4, <2>1
  <2> QED BY <2>1, <2>2, <1>3, <1>4
<1>6. 0 \in 0 .. K - 1 /\ j \in Int /\ 0 \in Int
  BY <1>1
<1>7. N.pt = period
  <2>1. j \in HitSlots
    BY <1>3, <1>4, <1>5
  <2>2. PICK t \in hits : PeriodNo(time) - j = PeriodNo(t)
    BY <2>1 DEF HitSlots, HitPeriods
  <2>3. /\ time \in Int /\ settled \in Int /\ t \in Int
        /\ zone \in Zones /\ period \in PeriodTypes
    BY <2>2 DEF Exactly, StreakInv, StreakTyped
  <2>4. /\ PeriodNo(time) \in Int /\ PeriodNo(settled) \in Int
    BY <2>3, Calendar
  <2>5. PeriodNo(time) - j > PeriodNo(settled)
    BY <2>4, <1>5, <1>6 DEF K
  <2>6. PeriodNo(N.start) = PeriodNo(time) - j
    BY <1>5, <1>6, SlotsArePeriods, <2>3 DEF At, len
  <2> QED BY <2>5, <2>6, <1>4 DEF Exactly, StreakInv, RowsAreOfHits
<1>8. N.start = StartOf(time) <=> 0 \in HitSlots
  <2>1. ASSUME 0 \in HitSlots PROVE N.start = StartOf(time)
    <3>1. PICK r \in ledger : r.start = At(0)
      BY <2>1, <1>3, <1>6
    <3>2. At(0) <= N.start /\ ~ (0 < j)
      BY <3>1, <1>2, <1>4, <1>5, <1>6
    <3> QED BY <3>2, <1>2, <1>5
  <2>2. ASSUME N.start = StartOf(time) PROVE 0 \in HitSlots
    BY <2>2, <1>2, <1>3, <1>4, <1>6
  <2> QED BY <2>1, <2>2
<1> QED BY <1>3, <1>7, <1>8 DEF N

\* As many instants were hit as periods.
LEMMA HitsPerSlot ==
  ASSUME hits \subseteq Int, IsFiniteSet(hits), NEW n \in Nat, Taken(HitSlots, n),
         PeriodNo(time) \in Int
  PROVE  n <= Cardinality(hits)
<1> DEFINE D == 0 .. n - 1
           f == [k \in D |-> CHOOSE t \in hits : PeriodNo(time) - k = PeriodNo(t)]
<1>1. \A k \in D : f[k] \in hits /\ PeriodNo(time) - k = PeriodNo(f[k])
  <2> SUFFICES ASSUME NEW k \in D PROVE f[k] \in hits /\ PeriodNo(time) - k = PeriodNo(f[k])
    OBVIOUS
  <2>1. \E t \in hits : PeriodNo(time) - k = PeriodNo(t)
    BY DEF Taken, HitSlots, HitPeriods
  <2> QED BY <2>1
<1>2. DOMAIN f = D /\ f \in [D -> hits]
  BY <1>1
<1>3. IsFiniteSet(D) /\ Cardinality(D) = n /\ \A k \in D : k \in Int
  BY FS_Interval
<1> HIDE DEF f, D
<1>4. f \in Injection(D, hits)
  <2>1. ASSUME NEW j \in D, NEW k \in D, f[j] = f[k] PROVE j = k
    BY <2>1, <1>1, <1>3
  <2> QED BY <1>2, <2>1 DEF Injection, IsInjective
<1>5. Cardinality(D) <= Cardinality(hits)
  BY <1>4, FS_Injection
<1> QED BY <1>3, <1>5


\* Where the current period was hit, the walk and the count agree as far as the
\* last change.
LEMMA WalkAgrees ==
  ASSUME Exactly, 0 \in HitSlots, NEW n \in 1 .. PeriodNo(time) - PeriodNo(settled)
  PROVE  n \in 1 .. Cardinality(ledger) /\ Walks(n)
         <=> n \in 0 .. Cardinality(hits) /\ Taken(HitSlots, n)
<1> DEFINE K == PeriodNo(time) - PeriodNo(settled)
           len == LengthOf(period)
           s == StartOf(time)
<1>1. /\ IsLedger(ledger) /\ s \in Int /\ len \in Nat \ {0}
      /\ K \in Nat \ {0} /\ Slotted(ledger, HitSlots, K, s, len)
  BY LedgerIsSlotted
<1>2. /\ hits \subseteq Int /\ IsFiniteSet(hits) /\ PeriodNo(time) \in Int
      /\ Cardinality(hits) \in Nat /\ Cardinality(ledger) \in Nat
  <2>1. /\ hits \subseteq Int /\ IsFiniteSet(hits) /\ IsFiniteSet(ledger)
        /\ time \in Int /\ zone \in Zones /\ period \in PeriodTypes
    BY DEF Exactly, StreakInv, StreakTyped
  <2> QED BY <2>1, Calendar, FS_CardinalityType
<1>3. Walks(n) <=> WalkOf(ledger, len, n)
  <2>1. \A i : NewestFirst(i) = Nth(ledger, i)
    BY DEF NewestFirst, Nth, Above
  <2>2. \A x : PeriodStepBackward(Newest.pt, x) = x - len
    BY NewestRow DEF PeriodStepBackward
  <2> HIDE DEF len
  <2> QED BY <2>1, <2>2 DEF Walks, WalkOf
<1>4. n \in 1 .. K /\ n \in Nat /\ n >= 1
  BY <1>1
<1> HIDE DEF K, len, s
<1>5. Taken(HitSlots, n) <=> n <= Cardinality(ledger) /\ WalkOf(ledger, len, n)
  <2>1. \A H : 0 \in H /\ Slotted(ledger, H, K, s, len)
          => (Taken(H, n) <=> n <= Cardinality(ledger) /\ WalkOf(ledger, len, n))
    BY <1>1, <1>4, WalkIsOverSlots
  <2> QED BY <2>1, <1>1
<1>6. Taken(HitSlots, n) => n <= Cardinality(hits)
  BY <1>2, <1>4, HitsPerSlot
<1> QED BY <1>2, <1>3, <1>4, <1>5, <1>6

LEMMA StreakInvExact == StreakInv => StreakIsExact
<1> SUFFICES ASSUME Exactly
             PROVE  Min({LabelStreak, PeriodsSince}) = Min({ConsecutiveHits, PeriodsSince})
  BY DEF StreakIsExact, Exactly
<1> DEFINE K == PeriodNo(time) - PeriodNo(settled)
           A == {n \in 1 .. Cardinality(ledger) : Walks(n)}
           B == {n \in 0 .. Cardinality(hits) : Taken(HitSlots, n)}
<1>1. /\ K \in Nat \ {0} /\ IsFiniteSet(ledger) /\ IsFiniteSet(hits)
      /\ Cardinality(hits) \in Nat /\ Cardinality(ledger) \in Nat /\ PeriodNo(time) \in Int
  <2>1. /\ IsFiniteSet(hits) /\ IsFiniteSet(ledger)
        /\ time \in Int /\ zone \in Zones /\ period \in PeriodTypes
    BY DEF Exactly, StreakInv, StreakTyped
  <2> QED BY <2>1, Calendar, FS_CardinalityType, LedgerIsSlotted
<1>2. PeriodsSince = K
  <2> DEFINE S == {0, K}
  <2>1. IsFiniteSet({0} \union {K}) /\ S = {0} \union {K}
    BY FS_AddElement, FS_Singleton
  <2>2. IsFiniteSet(S) /\ S # {} /\ K \in S /\ (\A x \in S : x \in Int) /\ \A y \in S : y <= K
    BY <2>1, <1>1
  <2> HIDE DEF S, K
  <2>3. K = Max(S)
    BY <2>2, MaxOfFinite
  <2> QED BY <2>3 DEF PeriodsSince, S, K
<1>3. ConsecutiveHits = Max(B)
  <2>1. ASSUME NEW n \in 0 .. Cardinality(hits)
        PROVE  Taken(HitSlots, n) <=> \A k \in 0 .. n - 1 : PeriodNo(time) - k \in HitPeriods
    <3>1. \A k \in 0 .. n - 1 : k \in Nat
      OBVIOUS
    <3> QED BY <3>1 DEF Taken, HitSlots
  <2>2. B = {n \in 0 .. Cardinality(hits) :
               \A k \in 0 .. n - 1 : PeriodNo(time) - k \in HitPeriods}
    BY <2>1
  <2> HIDE DEF B
  <2> QED BY <2>2 DEF ConsecutiveHits
<1>4. LabelStreak = IF 0 \in HitSlots THEN Max(A) ELSE 0
  <2>1. ledger # {} /\ (Newest.start = PeriodStart(Newest.pt, time, zone) <=> 0 \in HitSlots)
    BY NewestRow DEF StartOf
  <2> QED BY <2>1 DEF LabelStreak
<1>5. /\ IsFiniteSet(A) /\ \A n \in A : n \in Int
      /\ IsFiniteSet(B) /\ \A n \in B : n \in Int
  <2>1. IsFiniteSet(1 .. Cardinality(ledger)) /\ IsFiniteSet(0 .. Cardinality(hits))
    BY <1>1, FS_Interval
  <2>2. A \subseteq 1 .. Cardinality(ledger) /\ B \subseteq 0 .. Cardinality(hits)
    OBVIOUS
  <2> HIDE DEF A, B
  <2>3. IsFiniteSet(A) /\ IsFiniteSet(B)
    BY <2>1, <2>2, FS_Subset
  <2> QED BY <2>2, <2>3, <1>1
\* Both sets contain, with a number, every smaller one.
<1>6. /\ \A n \in A : \A m \in 1 .. n : m \in A
      /\ \A n \in B : \A m \in 0 .. n : m \in B
  <2>1. ASSUME NEW n \in A, NEW m \in 1 .. n PROVE m \in A
    <3>1. n \in 1 .. Cardinality(ledger) /\ Walks(n)
      OBVIOUS
    <3>2. m \in 1 .. Cardinality(ledger) /\ 1 .. m - 1 \subseteq 1 .. n - 1
      BY <3>1, <1>1
    <3> QED BY <3>1, <3>2 DEF Walks
  <2>2. ASSUME NEW n \in B, NEW m \in 0 .. n PROVE m \in B
    <3>1. n \in 0 .. Cardinality(hits) /\ Taken(HitSlots, n)
      OBVIOUS
    <3>2. m \in 0 .. Cardinality(hits) /\ 0 .. m - 1 \subseteq 0 .. n - 1
      BY <3>1, <1>1
    <3> QED BY <3>1, <3>2 DEF Taken
  <2> QED BY <2>1, <2>2
<1>7. CASE 0 \notin HitSlots
  <2>1. 0 \in B /\ \A n \in B : n <= 0
    <3>1. 0 \in B
      BY <1>1 DEF Taken
    <3>2. ASSUME NEW n \in B, ~ (n <= 0) PROVE FALSE
      BY <3>2, <1>1, <1>7 DEF Taken
    <3> QED BY <3>1, <3>2
  <2> HIDE DEF A, B
  <2>2. Max(B) = 0
    BY <2>1, <1>5, MaxOfFinite
  <2> QED BY <2>2, <1>3, <1>4, <1>7
<1>8. CASE 0 \in HitSlots
  <2>1. \A n \in 1 .. K : n \in A <=> n \in B
    BY <1>8, WalkAgrees
  <2>2. 1 \in B /\ 1 \in A
    <3>1. Taken(HitSlots, 1)
      BY <1>8 DEF Taken
    <3>2. 1 <= Cardinality(hits)
      <4>1. hits \subseteq Int
        BY DEF Exactly, StreakInv, StreakTyped
      <4> QED BY <3>1, <4>1, <1>1, HitsPerSlot
    <3>3. 1 \in B /\ 1 \in 1 .. K
      BY <3>1, <3>2, <1>1
    <3> QED BY <3>3, <2>1
  <2> DEFINE a == Max(A)
             b == Max(B)
             x == Min({a, K})
             y == Min({b, K})
  <2> HIDE DEF A, B, K
  <2>3. /\ a \in A /\ a \in Int /\ \A n \in A : n <= a
        /\ b \in B /\ b \in Int /\ \A n \in B : n <= b
    BY <2>2, <1>5, MaxOfFinite
  <2>4. a >= 1 /\ b >= 1
    BY <2>2, <2>3
  <2> HIDE DEF a, b
  <2>5. /\ x \in {a, K} /\ x \in Int /\ x <= a /\ x <= K
        /\ y \in {b, K} /\ y \in Int /\ y <= b /\ y <= K
    <3>1. a \in Int /\ b \in Int /\ K \in Int
      BY <2>3, <1>1
    <3>2. x \in {a, K} /\ x \in Int /\ x <= a /\ x <= K
      BY <3>1, LeastOfTwo
    <3>3. y \in {b, K} /\ y \in Int /\ y <= b /\ y <= K
      BY <3>1, LeastOfTwo
    <3> QED BY <3>2, <3>3
  <2>6. x \in 1 .. a /\ x \in 1 .. K /\ y \in 1 .. K /\ y \in 0 .. b
    BY <2>3, <2>4, <2>5, <1>1
  <2> HIDE DEF x, y
  <2>7. x \in A /\ y \in B
    BY <2>3, <2>6, <1>6
  <2>8. x \in B /\ y \in A
    BY <2>1, <2>6, <2>7
  <2>9. x <= b /\ y <= a
    BY <2>3, <2>8
  <2>10. x = y
    BY <2>3, <2>5, <2>9, <1>1
  <2> QED BY <2>10, <1>2, <1>3, <1>4, <1>8 DEF x, y, a, b
<1> QED BY <1>7, <1>8

StreakSpec == StreakInit /\ [][StreakNext]_streakVars

\* The streak is the number of consecutive periods that were hit, up to the last
\* change of zone or period, whatever the order of visits, replays and entries:
\* StreakIsExact, for every length of day and week, every set of zones and any
\* number of entries and changes (GetLabelStreaks over rows that LogAwards wrote).
THEOREM StreaksAreExact == StreakSpec => []StreakIsExact
BY StreakStarts, StreakStep, StreakInvExact, PTL DEF StreakSpec

LEMMA StreakInvTypes == StreakInv => StreakTypeOK
BY DEF StreakInv, StreakTyped, StreakTypeOK, AVisit, AReplay

\* Ledger, visits and replays have their shape, and no period has two rows, for
\* every value of the constants.
THEOREM StreakTypes == StreakSpec => []StreakTypeOK
BY StreakStarts, StreakStep, StreakInvTypes, PTL DEF StreakSpec

-----------------------------------------------------------------------------
(* The instance that is model-checked.                                     *)

\* A behaviour of the instance is, for each component, one of its behaviours.
LEMMA PartsBehave ==
  Spec => AudibleSpec /\ LiberationSpec /\ KindleSpec /\ CachesSpec /\ StreakSpec
<1>1. Init => AudibleInit /\ LiberationInit /\ KindleInit /\ CachesInit /\ StreakInit
  BY Zenon DEF Init
<1>2. [Next]_vars => /\ [AudibleNext]_audibleVars /\ [LiberationNext]_liberationVars
                     /\ [KindleNext]_kindleVars /\ [CachesNext]_cacheVars
                     /\ [StreakNext]_streakVars
  <2> SUFFICES ASSUME [Next]_vars
               PROVE  /\ [AudibleNext]_audibleVars /\ [LiberationNext]_liberationVars
                      /\ [KindleNext]_kindleVars /\ [CachesNext]_cacheVars
                      /\ [StreakNext]_streakVars
    OBVIOUS
  <2>1. CASE AudibleTurn
    BY <2>1, Zenon DEF AudibleTurn
  <2>2. CASE LiberationTurn
    BY <2>2, Zenon DEF LiberationTurn
  <2>3. CASE KindleTurn
    BY <2>3, Zenon DEF KindleTurn
  <2>4. CASE CachesTurn
    BY <2>4, Zenon DEF CachesTurn
  <2>5. CASE StreaksTurn
    BY <2>5, Zenon DEF StreaksTurn
  <2>6. CASE UNCHANGED vars
    BY <2>6, Zenon DEF vars
  <2> QED BY <2>1, <2>2, <2>3, <2>4, <2>5, <2>6, Zenon DEF Next
<1> QED BY <1>1, <1>2, PTL DEF Spec, AudibleSpec, LiberationSpec, KindleSpec, CachesSpec, StreakSpec

\* Every variable of the component that runs keeps the shape the code gives it:
\* TypeOK, for every value of the constants.
THEOREM ComponentTypes == Spec => []TypeOK
<1>1. /\ AudibleTypeOK /\ Typed /\ KindleTypeOK /\ CachesTypeOK /\ StreakTypeOK
      => TypeOK
  BY Zenon DEF TypeOK, Typed
<1> QED BY <1>1, PartsBehave, AudibleTypes, LiberationTypes, KindleTypes, CachesTypes,
           StreakTypes, PTL
=============================================================================
