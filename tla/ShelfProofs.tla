---------------------------- MODULE ShelfProofs ----------------------------
(***************************************************************************)
(* The sync with a Hardcover shelf, for any choice of statuses, any number *)
(* of edits, finishes and progress, and any number of faults.              *)
(*                                                                         *)
(* Both properties are stated for jobs that took turns (latest # Unclear), *)
(* so the first fact is that they did: OneAtATime.  Stands ties what a job *)
(* holds to the row.  While the last decision is the reader's own, every   *)
(* entry the pull may look at is older than the decision or is our last    *)
(* recorded write come back (Known), and between a write and its record    *)
(* the entry is older or says what is about to be recorded (Wrote).        *)
(* OneRead follows the id of the read from Hardcover to the row.           *)
(*                                                                         *)
(* Times are ranks; RankedKeeps says that ranking them changes no answer   *)
(* to a question the code asks.                                            *)
(***************************************************************************)
EXTENDS ShelfSync, FiniteSetTheorems, TLAPS

Maybe == CurationStatuses \union {NoStatus}

\* At most four times are kept, so the ranks are:
Time == 0 .. 4

Row(T) ==
  [status : CurationStatuses, finished : BOOLEAN, pct : Nat, over : Maybe, cur : T,
   linked : BOOLEAN, mirror : Maybe, pushedAt : T, pushedStatus : Maybe, pushedPct : Nat,
   readId : Nat]

Entry(T) == [status : Maybe, at : T]

Pulling(T) ==
  [at : {"idle", "fetched", "reconciled", "listed", "written"}, snap : Entry(T), list : Maybe]

Push == [at : {"idle", "loaded", "written", "dated"}, status : Maybe, dated : BOOLEAN,
         readId : Nat]

Typed ==
  /\ item \in Row(Time) /\ shelf \in Entry(Time) /\ pull \in Pulling(Time)
  /\ reads \in Nat /\ dry \in BOOLEAN /\ inProgress \in Nat
  /\ queue \in [Pushers -> Nat] /\ pusher \in [Pushers -> Push]
  /\ edits \in Nat /\ faults \in Nat
  /\ latest \in {Unclear, Elsewhere} \union {Here(s) : s \in Maybe}

\* Jobs took turns.
OneAtATime ==
  latest # Unclear =>
    /\ \A p, q \in Pushers : pusher[p].at # "idle" /\ pusher[q].at # "idle" => p = q
    /\ \A p \in Pushers : pusher[p].at # "idle" => pull.at = "idle" /\ inProgress = 0
    /\ pull.at # "idle" => inProgress = 0

\* The entry x of the shelf is not newer than the reader's decision, or it is
\* our last recorded write.
Known(x, it) == x.at <= it.cur \/ (x.at <= it.pushedAt /\ x.status = it.pushedStatus)

\* The entry x is not newer than the reader's decision, or it is the write of
\* status s that has yet to be recorded.
Wrote(x, it, s) == x.at <= it.cur \/ x.status = s

Writing(t) == t.at \in {"written", "dated"}

Stands ==
  latest.who = "here" =>
    /\ item.over = latest.status
    /\ pull.at = "fetched" => Known(pull.snap, item)
    /\ pull.at = "written" => Wrote(shelf, item, pull.list)
    /\ \A p \in Pushers : Writing(pusher[p]) => Wrote(shelf, item, pusher[p].status)
    /\ pull.at # "written" /\ (\A p \in Pushers : ~ Writing(pusher[p])) => Known(shelf, item)

\* The id of the one read is in the row, or with the push that has inserted it.
OneRead ==
  latest # Unclear =>
    /\ reads <= 1
    /\ \A p \in Pushers : /\ pusher[p].at \in {"loaded", "written"} => pusher[p].readId = item.readId
                          /\ pusher[p].at = "dated" => reads = 0 \/ pusher[p].readId # 0
    /\ (\A p \in Pushers : pusher[p].at # "dated") => reads = 0 \/ item.readId # 0

ShelfInv == Typed /\ OneAtATime /\ Stands /\ OneRead

-----------------------------------------------------------------------------
(* Ranks.                                                                  *)

RankIn(T, t) == Cardinality({u \in T : u <= t})

\* Ranks of at most four times are times again, and have their order.
LEMMA RankOrder ==
  ASSUME NEW T \in SUBSET Nat, IsFiniteSet(T), Cardinality(T) <= 4, 0 \notin T,
         NEW s \in T \union {0}, NEW t \in T \union {0}
  PROVE  RankIn(T, s) \in Time /\ (RankIn(T, s) <= RankIn(T, t) <=> s <= t)
<1> DEFINE Upto(x) == {u \in T : u <= x}
<1>1. ASSUME NEW x
      PROVE  /\ IsFiniteSet(Upto(x)) /\ Cardinality(Upto(x)) \in Nat
             /\ Cardinality(Upto(x)) <= Cardinality(T)
  <2>1. Upto(x) \in SUBSET T
    OBVIOUS
  <2> QED BY <2>1, FS_Subset, FS_CardinalityType
<1>2. Cardinality(T) \in Nat
  BY FS_CardinalityType
<1>3. RankIn(T, s) \in Time /\ RankIn(T, s) = Cardinality(Upto(s)) /\ RankIn(T, t) = Cardinality(Upto(t))
  BY <1>1, <1>2 DEF RankIn, Time
<1>4. s \in Nat /\ t \in Nat
  OBVIOUS
<1>5. CASE s <= t
  <2>1. Upto(s) \in SUBSET Upto(t)
    <3>1. \A u \in T : u <= s => u <= t
      BY <1>4, <1>5
    <3> QED BY <3>1
  <2>2. IsFiniteSet(Upto(t))
    BY <1>1
  <2> HIDE DEF Upto
  <2>3. Cardinality(Upto(s)) <= Cardinality(Upto(t))
    BY <2>1, <2>2, FS_Subset
  <2> QED BY <1>3, <1>5, <2>3
<1>6. CASE ~ (s <= t)
  <2>1. t < s /\ s \in T
    BY <1>4, <1>6
  <2>2. Upto(t) \in SUBSET Upto(s) /\ s \in Upto(s) /\ s \notin Upto(t)
    <3>1. (\A u \in T : u <= t => u <= s) /\ s <= s /\ ~ (s <= t)
      BY <1>4, <2>1
    <3> QED BY <2>1, <3>1
  <2>3. IsFiniteSet(Upto(s)) /\ Cardinality(Upto(s)) \in Nat /\ Cardinality(Upto(t)) \in Nat
    BY <1>1
  <2> HIDE DEF Upto
  <2>4. /\ Cardinality(Upto(t)) <= Cardinality(Upto(s))
        /\ Cardinality(Upto(s)) = Cardinality(Upto(t)) => Upto(s) = Upto(t)
    BY <2>2, <2>3, FS_Subset
  <2>5. Cardinality(Upto(t)) < Cardinality(Upto(s))
    BY <2>2, <2>3, <2>4
  <2> QED BY <1>3, <1>6, <2>3, <2>5
<1> QED BY <1>5, <1>6

\* No more than four times are ranked.
LEMMA FourTimes ==
  ASSUME NEW a \in Nat, NEW b \in Nat, NEW c \in Nat, NEW d \in Nat
  PROVE  /\ IsFiniteSet({a, b, c, d} \ {0}) /\ Cardinality({a, b, c, d} \ {0}) <= 4
         /\ {a, b, c, d} \ {0} \in SUBSET Nat /\ 0 \notin {a, b, c, d} \ {0}
         /\ {a, b, c, d} \subseteq ({a, b, c, d} \ {0}) \union {0}
<1>1. IsFiniteSet({a}) /\ Cardinality({a}) = 1
  BY FS_Singleton
<1>2. IsFiniteSet({a} \union {b}) /\ Cardinality({a} \union {b}) <= 2
  BY <1>1, FS_AddElement
<1> DEFINE T2 == {a} \union {b}  T3 == T2 \union {c}  T4 == T3 \union {d}
<1>3. {a, b, c, d} = T4
  OBVIOUS
<1>4. IsFiniteSet(T2) /\ Cardinality(T2) \in Nat /\ Cardinality(T2) <= 2
  BY <1>2, FS_CardinalityType
<1> HIDE DEF T2
<1>5. IsFiniteSet(T3) /\ Cardinality(T3) \in Nat /\ Cardinality(T3) <= 3
  <2>1. IsFiniteSet(T3) /\ Cardinality(T3) \in {Cardinality(T2), Cardinality(T2) + 1}
    BY <1>4, FS_AddElement
  <2> QED BY <1>4, <2>1
<1> HIDE DEF T3
<1>6. IsFiniteSet(T4) /\ Cardinality(T4) \in Nat /\ Cardinality(T4) <= 4
  <2>1. IsFiniteSet(T4) /\ Cardinality(T4) \in {Cardinality(T3), Cardinality(T3) + 1}
    BY <1>5, FS_AddElement
  <2> QED BY <1>5, <2>1
<1> HIDE DEF T4
<1>7. T4 \ {0} \in SUBSET T4
  OBVIOUS
<1>8. IsFiniteSet(T4 \ {0}) /\ Cardinality(T4 \ {0}) <= Cardinality(T4) /\ Cardinality(T4 \ {0}) \in Nat
  BY <1>6, <1>7, FS_Subset, FS_CardinalityType
<1>9. IsFiniteSet(T4 \ {0}) /\ Cardinality(T4 \ {0}) <= 4
  BY <1>6, <1>8
<1> QED BY <1>3, <1>9

\* The fields of a row that are not times.
Apart(new, old) ==
  /\ new.status = old.status /\ new.finished = old.finished /\ new.pct = old.pct
  /\ new.over = old.over /\ new.linked = old.linked /\ new.mirror = old.mirror
  /\ new.pushedStatus = old.pushedStatus /\ new.pushedPct = old.pushedPct
  /\ new.readId = old.readId

\* Ranking the times changes none of the comparisons.
LEMMA RankedKeeps ==
  ASSUME NEW i \in Row(Nat), NEW s \in Entry(Nat), NEW q \in Pulling(Nat), Ranked(i, s, q)
  PROVE  /\ item' \in Row(Time) /\ shelf' \in Entry(Time) /\ pull' \in Pulling(Time)
         /\ Apart(item', i) /\ shelf'.status = s.status
         /\ pull'.at = q.at /\ pull'.list = q.list /\ pull'.snap.status = q.snap.status
         /\ Known(shelf', item') <=> Known(s, i)
         /\ Known(pull'.snap, item') <=> Known(q.snap, i)
         /\ \A w : Wrote(shelf', item', w) <=> Wrote(s, i, w)
<1> DEFINE T == {i.cur, i.pushedAt, s.at, q.snap.at} \ {0}
<1>1. i.cur \in Nat /\ i.pushedAt \in Nat /\ s.at \in Nat /\ q.snap \in Entry(Nat) /\ q.snap.at \in Nat
  BY DEF Row, Entry, Pulling
<1>2. /\ item' = [i EXCEPT !.cur = RankIn(T, i.cur), !.pushedAt = RankIn(T, i.pushedAt)]
      /\ shelf' = [s EXCEPT !.at = RankIn(T, s.at)]
      /\ pull' = [q EXCEPT !.snap.at = RankIn(T, q.snap.at)]
  BY DEF Ranked, RankIn, Row, Entry, Pulling
<1>3. /\ T \in SUBSET Nat /\ IsFiniteSet(T) /\ Cardinality(T) <= 4 /\ 0 \notin T
      /\ {i.cur, i.pushedAt, s.at, q.snap.at} \subseteq T \union {0}
  <2> DEFINE a == i.cur  b == i.pushedAt  c == s.at  d == q.snap.at
  <2>1. a \in Nat /\ b \in Nat /\ c \in Nat /\ d \in Nat
    BY <1>1
  <2> HIDE DEF a, b, c, d
  <2>2. /\ IsFiniteSet({a, b, c, d} \ {0}) /\ Cardinality({a, b, c, d} \ {0}) <= 4
        /\ {a, b, c, d} \ {0} \in SUBSET Nat /\ 0 \notin {a, b, c, d} \ {0}
        /\ {a, b, c, d} \subseteq ({a, b, c, d} \ {0}) \union {0}
    BY <2>1, FourTimes
  <2> QED BY <2>2 DEF a, b, c, d
<1> HIDE DEF T
<1>4. \A x, y \in {i.cur, i.pushedAt, s.at, q.snap.at} :
         RankIn(T, x) \in Time /\ (RankIn(T, x) <= RankIn(T, y) <=> x <= y)
  BY <1>3, RankOrder
<1>5. /\ item' \in Row(Time) /\ Apart(item', i)
      /\ item'.cur = RankIn(T, i.cur) /\ item'.pushedAt = RankIn(T, i.pushedAt)
  BY <1>2, <1>4 DEF Row, Apart
<1>6. shelf' \in Entry(Time) /\ shelf'.status = s.status /\ shelf'.at = RankIn(T, s.at)
  BY <1>2, <1>4 DEF Entry
<1>7. /\ pull' \in Pulling(Time) /\ pull'.at = q.at /\ pull'.list = q.list
      /\ pull'.snap.status = q.snap.status /\ pull'.snap.at = RankIn(T, q.snap.at)
  BY <1>1, <1>2, <1>4 DEF Pulling, Entry
<1>8. /\ shelf'.at <= item'.cur <=> s.at <= i.cur
      /\ shelf'.at <= item'.pushedAt <=> s.at <= i.pushedAt
      /\ pull'.snap.at <= item'.cur <=> q.snap.at <= i.cur
      /\ pull'.snap.at <= item'.pushedAt <=> q.snap.at <= i.pushedAt
  BY <1>4, <1>5, <1>6, <1>7
<1>9. item'.pushedStatus = i.pushedStatus
  BY <1>5 DEF Apart
<1> QED BY <1>5, <1>6, <1>7, <1>8, <1>9 DEF Known, Wrote

-----------------------------------------------------------------------------
(* Helpers.                                                                *)

\* Ranks are times.
LEMMA Wider ==
  /\ Time \subseteq Nat /\ Now \in Nat /\ Absent \in Entry(Time) /\ NoPull \in Pulling(Time)
  /\ \A i \in Row(Time) : i \in Row(Nat)
  /\ \A x \in Entry(Time) : x \in Entry(Nat)
  /\ \A q \in Pulling(Time) : q \in Pulling(Nat)
<1>1. Time \subseteq Nat /\ Now \in Nat
  BY DEF Time, Now
<1>2. Absent \in Entry(Time)
  BY DEF Absent, Entry, Time, Maybe
<1>3. NoPull \in Pulling(Time)
  BY <1>2 DEF NoPull, Pulling, Maybe
<1>4. \A i \in Row(Time) : i \in Row(Nat)
  BY <1>1 DEF Row
<1>5. \A x \in Entry(Time) : x \in Entry(Nat)
  BY <1>1 DEF Entry
<1>6. \A q \in Pulling(Time) : q \in Pulling(Nat)
  BY <1>5 DEF Pulling
<1> QED BY <1>1, <1>2, <1>3, <1>4, <1>5, <1>6

\* Who took the last decision.
LEMMA Deciders ==
  /\ Unclear.who = "unclear" /\ Elsewhere.who = "there" /\ Unclear # Elsewhere
  /\ \A s : Here(s).who = "here" /\ Here(s).status = s /\ Here(s) # Unclear
BY DEF Unclear, Elsewhere, Here

\* Once the history is unclear nothing is claimed but types.
LEMMA UnclearIsEnough == Typed' /\ latest' = Unclear => ShelfInv'
BY Deciders DEF ShelfInv, OneAtATime, Stands, OneRead

\* A decision of the reader is later than whatever a job holds.
LEMMA LaterThanAll ==
  ASSUME NEW i, i.cur = Now, NEW x \in Entry(Time)
  PROVE  Known(x, i) /\ \A s : Wrote(x, i, s)
BY DEF Known, Wrote, Entry, Time, Now

-----------------------------------------------------------------------------
(* The reader.                                                             *)

\* An edit here, there, or a finish that decides: no job is touched.
LEMMA ReaderDecides ==
  ASSUME ShelfInv, NEW i \in Row(Nat), NEW x \in Entry(Nat), Ranked(i, x, pull),
         i.readId = item.readId,
         UNCHANGED <<reads, dry, pusher, inProgress>>,
         queue' \in [Pushers -> Nat], edits' \in Nat, faults' \in Nat,
         \/ latest' = Unclear
         \/ latest' = Elsewhere /\ latest # Unclear
         \/ /\ latest' \in {Here(s) : s \in Maybe} /\ latest # Unclear
            /\ i.cur = Now /\ x = shelf /\ i.over = latest'.status
  PROVE  ShelfInv'
<1>0. Typed /\ OneAtATime /\ OneRead /\ pull \in Pulling(Nat)
  BY Wider DEF ShelfInv, Typed
<1>1. /\ item' \in Row(Time) /\ shelf' \in Entry(Time) /\ pull' \in Pulling(Time)
      /\ item'.over = i.over /\ item'.readId = item.readId /\ pull'.at = pull.at /\ pull'.list = pull.list
      /\ Known(shelf', item') <=> Known(x, i)
      /\ Known(pull'.snap, item') <=> Known(pull.snap, i)
      /\ \A w : Wrote(shelf', item', w) <=> Wrote(x, i, w)
  BY <1>0, RankedKeeps DEF Apart
<1>2. Typed'
  BY <1>0, <1>1 DEF Typed
<1>3. CASE latest' = Unclear
  BY <1>2, <1>3, UnclearIsEnough
<1>4. CASE latest' # Unclear
  <2>1. OneAtATime' /\ OneRead'
    BY <1>0, <1>1, <1>4 DEF OneAtATime, OneRead
  <2>2. Stands'
    <3>1. CASE latest'.who # "here"
      BY <3>1 DEF Stands
    <3>2. CASE latest'.who = "here"
      <4>1. i.cur = Now /\ x = shelf /\ i.over = latest'.status
        BY <1>4, <3>2, Deciders
      <4>2. shelf \in Entry(Time) /\ pull.snap \in Entry(Time)
        BY <1>0 DEF Typed, Pulling
      <4>3. Known(shelf', item') /\ Known(pull'.snap, item') /\ \A w : Wrote(shelf', item', w)
        BY <1>1, <4>1, <4>2, LaterThanAll
      <4> QED BY <1>1, <4>1, <4>3 DEF Stands
    <3> QED BY <3>1, <3>2
  <2> QED BY <1>2, <2>1, <2>2 DEF ShelfInv
<1> QED BY <1>3, <1>4

\* SetBookCuration, with or without the push job.
LEMMA CurationKeeps ==
  ASSUME ShelfInv, NEW s \in Statuses \union {NoStatus}, SetBookCuration(s)
  PROVE  ShelfInv'
<1>0. Typed /\ s \in Maybe /\ item \in Row(Time) /\ shelf \in Entry(Nat)
  BY Wider, ShelfAssumption DEF ShelfInv, Typed, Maybe
<1> DEFINE i == SetReadingItemCuration(item, s, Now)
<1>1. i \in Row(Nat) /\ i.cur = Now /\ i.over = s /\ i.readId = item.readId
  BY <1>0, Wider DEF SetReadingItemCuration, Row
<1>2. /\ Ranked(i, shelf, pull) /\ Decided(Here(s)) /\ UNCHANGED <<reads, dry, pusher, inProgress>>
      /\ queue' = queue \/ queue' = [queue EXCEPT !["curation"] = @ + 1]
      /\ edits' = edits + 1 /\ (faults' = faults \/ faults' = faults + 1)
  BY DEF SetBookCuration, Edited, Fails
<1> HIDE DEF i
<1>3. queue' \in [Pushers -> Nat] /\ edits' \in Nat /\ faults' \in Nat
  BY <1>0, <1>2 DEF Typed, Pushers
<1>4. latest' = Unclear \/ (latest' = Here(s) /\ latest # Unclear)
  BY <1>2 DEF Decided
<1>5. latest' = Here(s) => latest' \in {Here(c) : c \in Maybe} /\ i.over = latest'.status
  BY <1>0, <1>1, Deciders
<1> QED BY <1>0, <1>1, <1>2, <1>3, <1>4, <1>5, ReaderDecides

\* An edit on Hardcover.
LEMMA EditKeeps ==
  ASSUME ShelfInv, NEW s \in Statuses, EditOnHardcover(s)
  PROVE  ShelfInv'
<1>0. Typed /\ s \in Maybe /\ item \in Row(Nat)
  BY Wider, ShelfAssumption DEF ShelfInv, Typed, Maybe
<1> DEFINE x == [status |-> s, at |-> Now]
<1>1. x \in Entry(Nat)
  BY <1>0, Wider DEF Entry
<1>2. /\ Ranked(item, x, pull) /\ Decided(Elsewhere)
      /\ UNCHANGED <<reads, dry, queue, pusher, inProgress, faults>> /\ edits' = edits + 1
  BY DEF EditOnHardcover, Edited
<1> HIDE DEF x
<1>3. queue' \in [Pushers -> Nat] /\ edits' \in Nat /\ faults' \in Nat
  BY <1>0, <1>2 DEF Typed
<1>4. latest' = Unclear \/ (latest' = Elsewhere /\ latest # Unclear)
  BY <1>2 DEF Decided
<1> QED BY <1>0, <1>1, <1>2, <1>3, <1>4, ReaderDecides

\* The row i differs from the row in nothing that is compared, pushed or kept
\* of an earlier push.
SameChoice(i) ==
  /\ i.over = item.over /\ i.cur = item.cur /\ i.pushedAt = item.pushedAt
  /\ i.pushedStatus = item.pushedStatus /\ i.readId = item.readId

\* What comes from Amazon or from the match sweep and decides nothing.
LEMMA QuietKeeps ==
  ASSUME ShelfInv, NEW i \in Row(Time), SameChoice(i),
         Ranked(i, shelf, pull) \/ (item' = i /\ UNCHANGED <<shelf, pull>>),
         UNCHANGED <<reads, dry, pusher, inProgress, latest>>,
         queue' \in [Pushers -> Nat], edits' \in Nat, faults' \in Nat
  PROVE  ShelfInv'
<1>0. /\ Typed /\ OneAtATime /\ Stands /\ OneRead
      /\ pull \in Pulling(Nat) /\ shelf \in Entry(Nat) /\ i \in Row(Nat)
  BY Wider DEF ShelfInv, Typed
<1>1. /\ item' \in Row(Time) /\ shelf' \in Entry(Time) /\ pull' \in Pulling(Time)
      /\ item'.over = item.over /\ item'.readId = item.readId
      /\ pull'.at = pull.at /\ pull'.list = pull.list
      /\ Known(shelf', item') <=> Known(shelf, i)
      /\ Known(pull'.snap, item') <=> Known(pull.snap, i)
      /\ \A w : Wrote(shelf', item', w) <=> Wrote(shelf, i, w)
  <2>1. CASE Ranked(i, shelf, pull)
    BY <1>0, <2>1, RankedKeeps DEF Apart, SameChoice
  <2>2. CASE item' = i /\ UNCHANGED <<shelf, pull>>
    BY <1>0, <2>2 DEF Typed, SameChoice
  <2> QED BY <2>1, <2>2
<1>2. /\ \A x : Known(x, i) <=> Known(x, item)
      /\ \A x, w : Wrote(x, i, w) <=> Wrote(x, item, w)
  BY DEF Known, Wrote, SameChoice
<1>3. Typed'
  BY <1>0, <1>1 DEF Typed
<1>4. OneAtATime' /\ OneRead'
  BY <1>0, <1>1 DEF OneAtATime, OneRead
<1>5. Stands'
  BY <1>0, <1>1, <1>2 DEF Stands
<1> QED BY <1>3, <1>4, <1>5 DEF ShelfInv

\* A finish decides if it is promoted, and only then.
LEMMA FinishKeeps == ShelfInv /\ Finish => ShelfInv'
<1> SUFFICES ASSUME ShelfInv, Finish PROVE ShelfInv'
  OBVIOUS
<1>0. /\ Typed /\ item \in Row(Time) /\ item \in Row(Nat) /\ shelf \in Entry(Nat)
      /\ item.cur # Now
  BY Wider DEF ShelfInv, Typed, Row, Time, Now
<1> DEFINE i == MarkReadingItemFinished(item, Now)
<1>1. /\ Ranked(i, shelf, pull)
      /\ Decided(IF i.cur = Now THEN Here("read") ELSE latest)
      /\ UNCHANGED <<reads, dry, pusher, inProgress, faults>>
      /\ queue' = [queue EXCEPT !["finish"] = @ + 1] /\ edits' = edits + 1
  BY DEF Finish, Edited
<1>2. \/ /\ i \in Row(Nat) /\ i.cur = Now /\ i.over = "read" /\ i.readId = item.readId
      \/ i \in Row(Time) /\ SameChoice(i)
  <2>1. "read" \in CurationStatuses /\ "read" \in Maybe
    BY DEF CurationStatuses, Maybe
  <2>2. CASE ~ item.finished /\ EffectiveStatus(item) # "read"
    <3>1. i = [item EXCEPT !.finished = TRUE, !.status = "read", !.over = "read", !.cur = Now]
      BY <1>0, <2>2 DEF MarkReadingItemFinished, Row
    <3> QED BY <1>0, <2>1, <3>1, Wider DEF Row
  <2>3. CASE ~ (~ item.finished /\ EffectiveStatus(item) # "read")
    <3>1. i = [item EXCEPT !.finished = TRUE, !.status = "read", !.over = item.over,
                           !.cur = item.cur]
      BY <1>0, <2>3 DEF MarkReadingItemFinished, Row
    <3> QED BY <1>0, <2>1, <3>1 DEF Row, SameChoice
  <2> QED BY <2>2, <2>3
<1> HIDE DEF i
<1>3. queue' \in [Pushers -> Nat] /\ edits' \in Nat /\ faults' \in Nat
  BY <1>0, <1>1 DEF Typed, Pushers
<1>4. CASE i \in Row(Nat) /\ i.cur = Now /\ i.over = "read" /\ i.readId = item.readId
  <2>1. latest' = Unclear \/ (latest' = Here("read") /\ latest # Unclear)
    BY <1>1, <1>4 DEF Decided
  <2>2. latest' = Here("read") => latest' \in {Here(c) : c \in Maybe} /\ i.over = latest'.status
    BY <1>4, Deciders DEF Maybe, CurationStatuses
  <2> QED BY <1>0, <1>1, <1>3, <1>4, <2>1, <2>2, ReaderDecides
<1>5. CASE i \in Row(Time) /\ SameChoice(i)
  <2>1. latest' = latest
    BY <1>0, <1>1, <1>5 DEF Decided, SameChoice
  <2> QED BY <1>1, <1>3, <1>5, <2>1, QuietKeeps
<1> QED BY <1>2, <1>4, <1>5

\* The library sweep and the match sweep.
LEMMA SweepsKeep == ShelfInv /\ (Progress \/ Link) => ShelfInv'
<1> SUFFICES ASSUME ShelfInv, Progress \/ Link PROVE ShelfInv'
  OBVIOUS
<1>0. Typed /\ item \in Row(Time)
  BY DEF ShelfInv, Typed
<1>1. item' \in Row(Time) /\ SameChoice(item')
  <2>1. CASE Progress
    <3>1. item' = [item EXCEPT !.status = "reading", !.pct = item.pct + 1, !.finished = FALSE]
      BY <2>1 DEF Progress, UpsertReadingItem
    <3>2. "reading" \in CurationStatuses /\ item.pct + 1 \in Nat
      BY <1>0 DEF CurationStatuses, Row
    <3> QED BY <1>0, <3>1, <3>2 DEF Row, SameChoice
  <2>2. CASE Link
    BY <1>0, <2>2 DEF Link, SetReadingItemHardcoverLink, Row, SameChoice
  <2> QED BY <2>1, <2>2
<1>2. /\ UNCHANGED <<shelf, pull>> /\ UNCHANGED <<reads, dry, pusher, inProgress, latest>>
      /\ queue' \in [Pushers -> Nat] /\ edits' \in Nat /\ faults' \in Nat
  BY <1>0 DEF Progress, Link, Typed
<1>3. \A i : item' = i /\ i \in Row(Time) /\ SameChoice(i) => ShelfInv'
  BY <1>2, QuietKeeps
<1> QED BY <1>1, <1>3

-----------------------------------------------------------------------------
(* The pushes.                                                             *)

\* One push moves.
LEMMA PusherMoves ==
  ASSUME Typed, NEW p \in Pushers, NEW t \in Push, pusher' = [pusher EXCEPT ![p] = t]
  PROVE  /\ pusher' \in [Pushers -> Push] /\ pusher'[p] = t
         /\ \A o \in Pushers \ {p} : pusher'[o] = pusher[o]
BY DEF Typed

\* As long as jobs take turns, a push that is under way is the only one, and no
\* pull or progress push runs.
LEMMA Alone ==
  ASSUME OneAtATime, latest # Unclear, NEW p \in Pushers, pusher[p].at # "idle"
  PROVE  /\ \A o \in Pushers \ {p} : pusher[o].at = "idle"
         /\ pull.at = "idle" /\ inProgress = 0
BY DEF OneAtATime

\* A push that is over.
LEMMA IdleIsAPush == Idle \in Push /\ Idle.at = "idle"
BY DEF Idle, Push, Maybe

\* A push is taken from the queue and reads the row, or ends at once.
LEMMA LoadKeeps ==
  ASSUME ShelfInv, NEW p \in Pushers, Load(p) \/ LoadUnlinked(p)
  PROVE  ShelfInv'
<1>0. /\ Typed /\ OneAtATime /\ Stands /\ OneRead /\ item \in Row(Time) /\ item.readId \in Nat
      /\ queue \in [Pushers -> Nat] /\ queue[p] \in Nat /\ queue[p] > 0
  BY DEF ShelfInv, Typed, Row, Load, LoadUnlinked, Taken
<1>1. /\ UNCHANGED <<shelf, reads, dry, pull, inProgress, edits, faults>>
      /\ queue' = [queue EXCEPT ![p] = @ - 1] /\ Blurred(Busy) /\ pusher[p].at = "idle"
  BY DEF Load, LoadUnlinked, Taken
<1>2. item' \in Row(Time) /\ SameChoice(item')
  <2>1. item' \in {item, SetReadingItemHardcoverLink(item)}
    BY DEF Load, LoadUnlinked
  <2> QED BY <1>0, <2>1 DEF SetReadingItemHardcoverLink, Row, SameChoice
<1>3. PICK t : /\ t = [at |-> "loaded",
                       status |-> IF p = "finish" THEN "read" ELSE EffectiveStatus(item),
                       dated |-> p = "finish" \/ item.finished,
                       readId |-> item.readId]
               /\ pusher' = pusher \/ pusher' = [pusher EXCEPT ![p] = t]
  BY DEF Load, LoadUnlinked, Loaded
<1>4. t \in Push /\ t.at = "loaded" /\ t.readId = item.readId
  <2>1. EffectiveStatus(item) \in Maybe /\ "read" \in Maybe /\ (p = "finish" \/ item.finished) \in BOOLEAN
    BY <1>0 DEF EffectiveStatus, Row, Maybe, CurationStatuses
  <2> QED BY <1>0, <1>3, <2>1 DEF Push
<1>5. /\ pusher' \in [Pushers -> Push]
      /\ \A o \in Pushers \ {p} : pusher'[o] = pusher[o]
      /\ pusher'[p] \in {pusher[p], t}
  BY <1>0, <1>3, <1>4, PusherMoves DEF Typed
<1>6. queue' \in [Pushers -> Nat]
  BY <1>0, <1>1
<1>7. Typed'
  BY <1>0, <1>1, <1>2, <1>5, <1>6 DEF Typed, Blurred
<1>8. CASE latest' = Unclear
  BY <1>7, <1>8, UnclearIsEnough
<1>9. CASE latest' # Unclear
  <2>1. ~ Busy /\ latest' = latest
    BY <1>1, <1>9 DEF Blurred
  <2>2. /\ \A o \in Pushers : pusher[o].at = "idle"
        /\ pull.at = "idle" /\ inProgress = 0
    BY <2>1 DEF Busy
  <2>3. \A o \in Pushers : /\ o # p => pusher'[o].at = "idle"
                           /\ pusher'[o].at \in {"idle", "loaded"}
                           /\ pusher'[o].at = "loaded" => pusher'[o].readId = item.readId
    BY <1>4, <1>5, <2>2
  <2>4. OneAtATime'
    BY <1>1, <2>2, <2>3 DEF OneAtATime
  <2>5. OneRead'
    BY <1>0, <1>1, <1>2, <1>9, <2>1, <2>2, <2>3 DEF OneRead, SameChoice
  <2>6. Stands'
    BY <1>0, <1>1, <1>2, <2>1, <2>2, <2>3 DEF Stands, SameChoice, Known, Writing
  <2> QED BY <1>7, <2>4, <2>5, <2>6 DEF ShelfInv
<1> QED BY <1>8, <1>9

\* The write to Hardcover is not newer than the decision, or it is what the
\* push will record.
LEMMA WriteKeeps ==
  ASSUME ShelfInv, NEW p \in Pushers, Write(p)
  PROVE  ShelfInv'
<1>0. /\ Typed /\ OneAtATime /\ Stands /\ OneRead /\ item \in Row(Nat) /\ item.readId \in Nat
      /\ pull \in Pulling(Nat) /\ pusher[p] \in Push /\ pusher[p].at = "loaded"
      /\ pusher[p].status \in Maybe /\ pusher[p].readId \in Nat
  BY Wider DEF ShelfInv, Typed, Row, Write, Push
<1> DEFINE x == [status |-> pusher[p].status, at |-> Now]
           n == IF p = "finish" THEN item.readId ELSE pusher[p].readId
           t == [pusher[p] EXCEPT !.at = "written", !.readId = n]
<1>1. x \in Entry(Nat) /\ \A i : Wrote(x, i, pusher[p].status)
  BY <1>0, Wider DEF Entry, Wrote
<1>2. n \in Nat
  BY <1>0
<1>3. pusher' = [pusher EXCEPT ![p] = t]
  <2>1. pusher' = [pusher EXCEPT ![p].at = "written",
                                 ![p].readId = IF p = "finish" THEN item.readId ELSE @]
    BY DEF Write
  <2>2. t = [pusher[p] EXCEPT !.at = "written",
                              !.readId = IF p = "finish" THEN item.readId ELSE @]
    BY <1>0 DEF Push
  <2> HIDE DEF t
  <2> QED BY <1>0, <2>1, <2>2 DEF Typed
<1>4. Ranked(item, x, pull) /\ UNCHANGED <<reads, dry, queue, inProgress, edits, faults, latest>>
  BY DEF Write
<1> HIDE DEF n
<1>5. t \in Push /\ t.at = "written" /\ t.status = pusher[p].status /\ t.readId = n
  BY <1>0, <1>2 DEF Push
<1> HIDE DEF t, x
<1>6. /\ pusher' \in [Pushers -> Push] /\ pusher'[p] = t
      /\ \A o \in Pushers \ {p} : pusher'[o] = pusher[o]
  BY <1>0, <1>3, <1>5, PusherMoves
<1>7. /\ item' \in Row(Time) /\ shelf' \in Entry(Time) /\ pull' \in Pulling(Time)
      /\ item'.over = item.over /\ item'.readId = item.readId /\ pull'.at = pull.at
      /\ Wrote(shelf', item', pusher[p].status)
  BY <1>0, <1>1, <1>4, RankedKeeps DEF Apart
<1>8. Typed'
  BY <1>0, <1>4, <1>6, <1>7 DEF Typed
<1>9. CASE latest' = Unclear
  BY <1>8, <1>9, UnclearIsEnough
<1>10. CASE latest' # Unclear
  <2>1. /\ latest # Unclear /\ \A o \in Pushers \ {p} : pusher'[o].at = "idle"
        /\ pull'.at = "idle" /\ inProgress' = 0
    BY <1>0, <1>4, <1>6, <1>7, <1>10, Alone
  <2>2. OneAtATime'
    BY <2>1 DEF OneAtATime
  <2>3. /\ n = item.readId /\ reads <= 1 /\ (reads = 0 \/ item.readId # 0)
    <3>1. \A o \in Pushers : pusher[o].at # "dated"
      BY <1>0, <1>6, <2>1
    <3> QED BY <1>0, <2>1, <3>1 DEF OneRead, n
  <2>4. OneRead'
    BY <1>4, <1>5, <1>6, <1>7, <2>1, <2>3 DEF OneRead
  <2>5. Stands'
    BY <1>0, <1>4, <1>5, <1>6, <1>7, <2>1 DEF Stands, Writing
  <2> QED BY <1>8, <2>2, <2>4, <2>5 DEF ShelfInv
<1> QED BY <1>9, <1>10

\* The read is inserted only if none is known.
LEMMA UpsertReadKeeps ==
  ASSUME ShelfInv, NEW p \in Pushers, UpsertRead(p)
  PROVE  ShelfInv'
<1>0. /\ Typed /\ OneAtATime /\ Stands /\ OneRead /\ reads \in Nat /\ item.readId \in Nat
      /\ pusher[p] \in Push /\ pusher[p].at = "written" /\ pusher[p].readId \in Nat
  BY DEF ShelfInv, Typed, Row, UpsertRead, Push
<1> DEFINE n == IF Inserts(p) THEN reads + 1 ELSE pusher[p].readId
           t == [pusher[p] EXCEPT !.at = "dated", !.readId = n]
<1>1. n \in Nat
  BY <1>0
<1>2. pusher' = [pusher EXCEPT ![p] = t]
  <2>1. pusher' = [pusher EXCEPT ![p].at = "dated",
                                 ![p].readId = IF Inserts(p) THEN reads + 1 ELSE @]
    BY DEF UpsertRead
  <2>2. t = [pusher[p] EXCEPT !.at = "dated",
                              !.readId = IF Inserts(p) THEN reads + 1 ELSE @]
    BY <1>0 DEF Push
  <2> HIDE DEF t
  <2> QED BY <1>0, <2>1, <2>2 DEF Typed
<1>3. /\ UNCHANGED <<item, shelf, dry, queue, pull, inProgress, edits, faults, latest>>
      /\ reads' = IF Inserts(p) THEN reads + 1 ELSE reads
  BY DEF UpsertRead
<1> HIDE DEF n
<1>4. t \in Push /\ t.at = "dated" /\ t.status = pusher[p].status /\ t.readId = n
  BY <1>0, <1>1 DEF Push
<1> HIDE DEF t
<1>5. /\ pusher' \in [Pushers -> Push] /\ pusher'[p] = t
      /\ \A o \in Pushers \ {p} : pusher'[o] = pusher[o]
  BY <1>0, <1>2, <1>4, PusherMoves
<1>6. Typed'
  BY <1>0, <1>3, <1>5 DEF Typed
<1>7. CASE latest' = Unclear
  BY <1>6, <1>7, UnclearIsEnough
<1>8. CASE latest' # Unclear
  <2>1. /\ latest # Unclear /\ \A o \in Pushers \ {p} : pusher'[o].at = "idle" /\ pusher[o].at = "idle"
        /\ pull'.at = "idle" /\ inProgress' = 0
    BY <1>0, <1>3, <1>5, <1>8, Alone
  <2>2. OneAtATime'
    BY <2>1 DEF OneAtATime
  <2>3. /\ pusher[p].readId = item.readId /\ reads <= 1 /\ (reads = 0 \/ item.readId # 0)
    <3>1. \A o \in Pushers : pusher[o].at # "dated"
      BY <1>0, <2>1
    <3> QED BY <1>0, <2>1, <3>1 DEF OneRead
  <2>4. reads' <= 1 /\ (reads' = 0 \/ n # 0)
    BY <1>0, <1>3, <2>3 DEF Inserts, n
  <2>5. OneRead'
    BY <1>4, <1>5, <2>1, <2>4 DEF OneRead
  <2>6. Stands'
    BY <1>0, <1>3, <1>4, <1>5, <2>1 DEF Stands, Writing
  <2> QED BY <1>6, <2>2, <2>5, <2>6 DEF ShelfInv
<1> QED BY <1>7, <1>8

\* The record makes an echo of the write, and keeps the id of the read.
LEMMA RecordKeeps ==
  ASSUME ShelfInv, NEW p \in Pushers, Record(p)
  PROVE  ShelfInv'
<1>0. /\ Typed /\ OneAtATime /\ Stands /\ OneRead /\ item \in Row(Time) /\ item.readId \in Nat
      /\ shelf \in Entry(Nat) /\ shelf \in Entry(Time) /\ pull \in Pulling(Nat)
      /\ pusher[p] \in Push /\ pusher[p].at = "dated"
      /\ pusher[p].status \in Maybe /\ pusher[p].readId \in Nat
  BY Wider DEF ShelfInv, Typed, Row, Record, Push
<1> DEFINE i == Recorded(p)
           n == IF pusher[p].readId = 0 THEN item.readId ELSE pusher[p].readId
<1>1. i \in Row(Nat) /\ i.over = item.over /\ i.cur = item.cur /\ i.pushedAt = Now
      /\ i.pushedStatus = pusher[p].status /\ i.readId = n
  <2>1. n \in Nat /\ item \in Row(Nat)
    BY <1>0, Wider
  <2>2. i = [item EXCEPT !.readId = n, !.pushedAt = Now, !.pushedStatus = pusher[p].status,
                         !.mirror = pusher[p].status]
    BY <2>1 DEF Recorded, SetReadingItemPushed, SetReadingItemPushedReadID, Row
  <2> HIDE DEF i, n
  <2> QED BY <1>0, <2>1, <2>2, Wider DEF Row
<1>2. /\ Ranked(i, shelf, pull) /\ pusher' = [pusher EXCEPT ![p] = Idle]
      /\ UNCHANGED <<reads, dry, queue, inProgress, edits, faults, latest>>
  BY DEF Record
<1> HIDE DEF i
<1>3. /\ pusher' \in [Pushers -> Push] /\ pusher'[p] = Idle
      /\ \A o \in Pushers \ {p} : pusher'[o] = pusher[o]
  BY <1>0, <1>2, IdleIsAPush, PusherMoves
<1>4. /\ item' \in Row(Time) /\ shelf' \in Entry(Time) /\ pull' \in Pulling(Time)
      /\ item'.over = item.over /\ item'.readId = n /\ pull'.at = pull.at
      /\ Known(shelf', item') <=> Known(shelf, i)
  BY <1>0, <1>1, <1>2, RankedKeeps DEF Apart
<1>5. Typed'
  BY <1>0, <1>2, <1>3, <1>4 DEF Typed
<1>6. CASE latest' = Unclear
  BY <1>5, <1>6, UnclearIsEnough
<1>7. CASE latest' # Unclear
  <2>1. /\ latest # Unclear /\ \A o \in Pushers : pusher'[o].at = "idle"
        /\ pull'.at = "idle" /\ inProgress' = 0
    BY <1>0, <1>2, <1>3, <1>4, <1>7, Alone, IdleIsAPush
  <2>2. OneAtATime'
    BY <2>1 DEF OneAtATime
  <2>3. reads <= 1 /\ (reads = 0 \/ n # 0)
    BY <1>0, <2>1 DEF OneRead
  <2>4. OneRead'
    BY <1>2, <1>4, <2>1, <2>3 DEF OneRead
  <2>5. ASSUME latest'.who = "here" PROVE Known(shelf', item') /\ item'.over = latest'.status
    <3>1. Wrote(shelf, item, pusher[p].status) /\ item.over = latest.status
      BY <1>0, <1>2, <2>5 DEF Stands, Writing
    <3>2. shelf.at <= Now
      BY <1>0 DEF Entry, Time, Now
    <3> QED BY <1>1, <1>2, <1>4, <3>1, <3>2 DEF Known, Wrote
  <2>6. Stands'
    BY <2>1, <2>5 DEF Stands, Writing
  <2> QED BY <1>5, <2>2, <2>4, <2>6 DEF ShelfInv
<1> QED BY <1>6, <1>7

\* A push that fails before it wrote leaves nothing; later the history is
\* unclear.
LEMMA PushFailsKeeps ==
  ASSUME ShelfInv, NEW p \in Pushers, PushFails(p)
  PROVE  ShelfInv'
<1>0. /\ Typed /\ OneAtATime /\ Stands /\ OneRead /\ pusher[p].at # "idle" /\ faults \in Nat
      /\ queue \in [Pushers -> Nat]
  BY DEF ShelfInv, Typed, PushFails
<1>1. /\ pusher' = [pusher EXCEPT ![p] = Idle] /\ faults' = faults + 1
      /\ queue' \in {queue, [queue EXCEPT ![p] = @ + 1]}
      /\ Blurred(pusher[p].at # "loaded")
      /\ UNCHANGED <<item, shelf, reads, dry, pull, inProgress, edits>>
  BY DEF PushFails, Fails
<1>2. /\ pusher' \in [Pushers -> Push] /\ pusher'[p] = Idle
      /\ \A o \in Pushers \ {p} : pusher'[o] = pusher[o]
  BY <1>0, <1>1, IdleIsAPush, PusherMoves
<1>3. queue' \in [Pushers -> Nat] /\ faults' \in Nat
  BY <1>0, <1>1
<1>4. Typed'
  BY <1>0, <1>1, <1>2, <1>3 DEF Typed, Blurred
<1>5. CASE latest' = Unclear
  BY <1>4, <1>5, UnclearIsEnough
<1>6. CASE latest' # Unclear
  <2>1. latest # Unclear /\ latest' = latest /\ pusher[p].at = "loaded"
    BY <1>1, <1>6 DEF Blurred
  <2>2. /\ \A o \in Pushers : /\ pusher'[o].at = "idle"
                              /\ pusher[o].at # "dated" /\ ~ Writing(pusher[o])
        /\ pull.at = "idle" /\ inProgress = 0
    BY <1>0, <1>2, <2>1, Alone, IdleIsAPush DEF Writing
  <2>3. OneAtATime' /\ OneRead'
    BY <1>0, <1>1, <2>1, <2>2 DEF OneAtATime, OneRead
  <2>4. Stands'
    BY <1>0, <1>1, <2>1, <2>2 DEF Stands, Writing
  <2> QED BY <1>4, <2>3, <2>4 DEF ShelfInv
<1> QED BY <1>5, <1>6

\* The progress push: its list is read while nothing else runs, or the history
\* is unclear; its write always makes it so.
LEMMA ProgressPushKeeps == ShelfInv /\ (ListInProgress \/ PushProgressMatched) => ShelfInv'
<1> SUFFICES ASSUME ShelfInv, ListInProgress \/ PushProgressMatched PROVE ShelfInv'
  OBVIOUS
<1>0. Typed /\ OneAtATime /\ Stands /\ OneRead /\ item \in Row(Time)
  BY DEF ShelfInv, Typed
<1>1. CASE ListInProgress
  <2>1. /\ inProgress' = item.pct /\ Blurred(Busy)
        /\ UNCHANGED <<item, shelf, reads, dry, queue, pusher, pull, edits, faults>>
    BY <1>1 DEF ListInProgress
  <2>2. Typed'
    BY <1>0, <2>1 DEF Typed, Row, Blurred
  <2>3. CASE latest' = Unclear
    BY <2>2, <2>3, UnclearIsEnough
  <2>4. CASE latest' # Unclear
    <3>1. /\ latest' = latest /\ \A o \in Pushers : pusher[o].at = "idle"
          /\ pull.at = "idle"
      BY <2>1, <2>4 DEF Blurred, Busy
    <3>2. OneAtATime' /\ OneRead'
      BY <1>0, <2>1, <3>1 DEF OneAtATime, OneRead
    <3>3. Stands'
      BY <1>0, <2>1, <3>1 DEF Stands
    <3> QED BY <2>2, <3>2, <3>3 DEF ShelfInv
  <2> QED BY <2>3, <2>4
<1>2. CASE PushProgressMatched
  <2> DEFINE i == SetReadingItemPushedProgress(item, inProgress)
             x == [status |-> "reading", at |-> Now]
  <2>1. i \in Row(Nat) /\ x \in Entry(Nat) /\ pull \in Pulling(Nat)
    <3>1. i = [item EXCEPT !.pushedPct = inProgress] /\ inProgress \in Nat /\ item \in Row(Nat)
      BY <1>0, Wider DEF SetReadingItemPushedProgress, Typed
    <3> QED BY <1>0, <3>1, Wider DEF Row, Entry, Maybe, CurationStatuses, Typed
  <2>2. /\ Ranked(i, x, pull) /\ inProgress' = 0 /\ latest' = Unclear
        /\ UNCHANGED <<reads, dry, queue, pusher, edits, faults>>
    BY <1>2 DEF PushProgressMatched, Blurred
  <2> HIDE DEF i, x
  <2>3. Typed'
    BY <1>0, <2>1, <2>2, RankedKeeps DEF Typed
  <2> QED BY <2>2, <2>3, UnclearIsEnough
<1> QED BY <1>1, <1>2

-----------------------------------------------------------------------------
(* The pull.                                                               *)

\* The list of a pull that takes its turn holds what was known.
LEMMA FetchKeeps == ShelfInv /\ Fetch => ShelfInv'
<1> SUFFICES ASSUME ShelfInv, Fetch PROVE ShelfInv'
  OBVIOUS
<1>0. Typed /\ OneAtATime /\ Stands /\ OneRead /\ shelf \in Entry(Time)
  BY DEF ShelfInv, Typed
<1>1. /\ Blurred(Busy)
      /\ UNCHANGED <<item, shelf, reads, dry, queue, pusher, inProgress, edits, faults>>
  BY DEF Fetch
<1>2. pull' \in Pulling(Time) /\ pull'.at = "fetched" /\ pull'.snap = shelf
  BY <1>0, Wider DEF Fetch, NoPull, Pulling
<1>3. Typed'
  BY <1>0, <1>1, <1>2 DEF Typed, Blurred
<1>4. CASE latest' = Unclear
  BY <1>3, <1>4, UnclearIsEnough
<1>5. CASE latest' # Unclear
  <2>1. /\ latest' = latest /\ \A o \in Pushers : pusher[o].at = "idle"
        /\ pull.at = "idle" /\ inProgress = 0
    BY <1>1, <1>5 DEF Blurred, Busy
  <2>2. OneAtATime' /\ OneRead'
    BY <1>0, <1>1, <2>1 DEF OneAtATime, OneRead
  <2>3. Stands'
    BY <1>0, <1>1, <1>2, <2>1 DEF Stands, Writing
  <2> QED BY <1>3, <2>2, <2>3 DEF ShelfInv
<1> QED BY <1>4, <1>5

\* The gate adopts nothing that is known.
LEMMA KnownIsNotAdopted ==
  ASSUME NEW x \in Entry(Time), NEW past \in BOOLEAN, item \in Row(Time)
  PROVE  LET i == UpdateHardcoverLinkFromPull(item, x, past)
         IN  i \in Row(Time) /\ i.readId = item.readId /\ (Known(x, item) => SameChoice(i))
<1> DEFINE i == UpdateHardcoverLinkFromPull(item, x, past)
           seen == [item EXCEPT !.mirror = x.status]
<1>1. x.status \in Maybe /\ x.at \in Time /\ x.at \in Nat /\ item.cur \in Nat /\ item.pushedAt \in Nat
  BY Wider DEF Entry, Row
<1>2. CASE ~ item.linked
  BY <1>2 DEF UpdateHardcoverLinkFromPull, SameChoice
<1>3. CASE item.linked /\ ~ AdoptGate(item, x, past)
  <2>1. i = seen
    BY <1>3 DEF UpdateHardcoverLinkFromPull
  <2>2. seen \in Row(Time) /\ SameChoice(seen)
    BY <1>1 DEF Row, SameChoice
  <2> QED BY <2>1, <2>2 DEF SameChoice
<1>4. CASE item.linked /\ AdoptGate(item, x, past)
  <2>1. i = [seen EXCEPT !.over = x.status, !.cur = x.at]
    BY <1>4 DEF UpdateHardcoverLinkFromPull
  <2>2. i \in Row(Time) /\ i.readId = item.readId
    BY <1>1, <2>1 DEF Row
  <2>3. ~ Known(x, item)
    BY <1>1, <1>4 DEF AdoptGate, Known
  <2> QED BY <2>2, <2>3
<1> QED BY <1>2, <1>3, <1>4

\* What the pull fetched does not replace a decision of the reader.
LEMMA ReconcileKeeps == ShelfInv /\ Reconcile => ShelfInv'
<1> SUFFICES ASSUME ShelfInv, Reconcile PROVE ShelfInv'
  OBVIOUS
<1>0. /\ Typed /\ OneAtATime /\ Stands /\ OneRead /\ item \in Row(Time) /\ shelf \in Entry(Nat)
      /\ pull \in Pulling(Time) /\ pull.snap \in Entry(Time) /\ pull.at = "fetched"
  BY Wider DEF ShelfInv, Typed, Reconcile, Pulling
<1> DEFINE q == [NoPull EXCEPT !.at = "reconciled"]
<1>1. q \in Pulling(Nat) /\ q.at = "reconciled"
  BY Wider DEF NoPull, Pulling
<1>2. PICK past \in BOOLEAN :
        Ranked(IF pull.snap = Absent THEN item
               ELSE UpdateHardcoverLinkFromPull(item, pull.snap, past), shelf, q)
  BY DEF Reconcile
<1> DEFINE i == IF pull.snap = Absent THEN item
                ELSE UpdateHardcoverLinkFromPull(item, pull.snap, past)
<1>3. i \in Row(Time) /\ i.readId = item.readId /\ (Known(pull.snap, item) => SameChoice(i))
  BY <1>0, KnownIsNotAdopted DEF SameChoice
<1>4. Ranked(i, shelf, q)
  BY <1>2
<1>5. UNCHANGED <<reads, dry, queue, pusher, inProgress, edits, faults, latest>>
  BY DEF Reconcile
<1> HIDE DEF i, q
<1>6. /\ item' \in Row(Time) /\ shelf' \in Entry(Time) /\ pull' \in Pulling(Time)
      /\ item'.over = i.over /\ item'.readId = item.readId /\ pull'.at = "reconciled"
      /\ Known(shelf', item') <=> Known(shelf, i)
  BY <1>0, <1>1, <1>3, <1>4, RankedKeeps, Wider DEF Apart
<1>7. Typed'
  BY <1>0, <1>5, <1>6 DEF Typed
<1>8. OneAtATime' /\ OneRead'
  BY <1>0, <1>5, <1>6 DEF OneAtATime, OneRead
<1>9. Stands'
  <2> SUFFICES ASSUME latest'.who = "here" PROVE Stands'
    BY DEF Stands
  <2>1. /\ item.over = latest.status /\ Known(pull.snap, item) /\ latest # Unclear
        /\ (\A o \in Pushers : ~ Writing(pusher[o])) => Known(shelf, item)
    BY <1>0, <1>5, Deciders DEF Stands
  <2>2. \A o \in Pushers : ~ Writing(pusher[o])
    BY <1>0, <2>1 DEF OneAtATime, Writing
  <2>3. i.over = item.over /\ Known(shelf, i)
    BY <1>3, <2>1, <2>2 DEF SameChoice, Known
  <2> QED BY <1>5, <1>6, <2>1, <2>2, <2>3 DEF Stands
<1> QED BY <1>7, <1>8, <1>9 DEF ShelfInv

\* The work-list of the push-back is read.
LEMMA ListDivergedKeeps == ShelfInv /\ ListDiverged => ShelfInv'
<1> SUFFICES ASSUME ShelfInv, ListDiverged PROVE ShelfInv'
  OBVIOUS
<1>0. /\ Typed /\ OneAtATime /\ Stands /\ OneRead /\ item \in Row(Time)
      /\ pull \in Pulling(Time) /\ pull.at = "reconciled"
  BY DEF ShelfInv, Typed, ListDiverged
<1>1. UNCHANGED <<item, shelf, reads, dry, queue, pusher, inProgress, edits, faults, latest>>
  BY DEF ListDiverged
<1>2. pull' \in Pulling(Time) /\ pull'.at \in {"listed", "idle"}
  <2>1. EffectiveStatus(item) \in Maybe
    BY <1>0 DEF EffectiveStatus, Row, Maybe
  <2>2. \/ pull' = [pull EXCEPT !.at = "listed", !.list = EffectiveStatus(item)]
        \/ pull' = NoPull
    BY DEF ListDiverged
  <2> QED BY <1>0, <2>1, <2>2, Wider DEF Pulling, NoPull
<1>3. Typed'
  BY <1>0, <1>1, <1>2 DEF Typed
<1>4. OneAtATime' /\ OneRead'
  BY <1>0, <1>1, <1>2 DEF OneAtATime, OneRead
<1>5. Stands'
  BY <1>0, <1>1, <1>2 DEF Stands
<1> QED BY <1>3, <1>4, <1>5 DEF ShelfInv

\* The push-back writes what it has listed.
LEMMA BulkUpsertKeeps == ShelfInv /\ BulkUpsert => ShelfInv'
<1> SUFFICES ASSUME ShelfInv, BulkUpsert PROVE ShelfInv'
  OBVIOUS
<1>0. /\ Typed /\ OneAtATime /\ Stands /\ OneRead /\ item \in Row(Nat)
      /\ pull \in Pulling(Nat) /\ pull.at = "listed" /\ pull.list \in Maybe
  BY Wider DEF ShelfInv, Typed, BulkUpsert, Pulling
<1> DEFINE x == [status |-> pull.list, at |-> Now]
           q == [pull EXCEPT !.at = "written"]
<1>1. /\ x \in Entry(Nat) /\ q \in Pulling(Nat) /\ q.at = "written" /\ q.list = pull.list
      /\ \A i : Wrote(x, i, q.list)
  BY <1>0, Wider DEF Entry, Pulling, Wrote
<1>2. Ranked(item, x, q) /\ UNCHANGED <<reads, dry, queue, pusher, inProgress, edits, faults, latest>>
  BY DEF BulkUpsert
<1> HIDE DEF x, q
<1>3. /\ item' \in Row(Time) /\ shelf' \in Entry(Time) /\ pull' \in Pulling(Time)
      /\ item'.over = item.over /\ item'.readId = item.readId
      /\ pull'.at = "written" /\ Wrote(shelf', item', pull'.list)
  BY <1>0, <1>1, <1>2, RankedKeeps DEF Apart
<1>4. Typed'
  BY <1>0, <1>2, <1>3 DEF Typed
<1>5. OneAtATime' /\ OneRead'
  BY <1>0, <1>2, <1>3 DEF OneAtATime, OneRead
<1>6. Stands'
  <2>1. latest # Unclear => \A o \in Pushers : ~ Writing(pusher[o])
    BY <1>0 DEF OneAtATime, Writing
  <2> QED BY <1>0, <1>2, <1>3, <2>1, Deciders DEF Stands
<1> QED BY <1>4, <1>5, <1>6 DEF ShelfInv

\* Its record makes an echo of it.
LEMMA MirrorKeeps == ShelfInv /\ Mirror => ShelfInv'
<1> SUFFICES ASSUME ShelfInv, Mirror PROVE ShelfInv'
  OBVIOUS
<1>0. /\ Typed /\ OneAtATime /\ Stands /\ OneRead /\ item \in Row(Nat)
      /\ shelf \in Entry(Time) /\ shelf \in Entry(Nat)
      /\ pull.at = "written" /\ pull.list \in Maybe
  BY Wider DEF ShelfInv, Typed, Mirror, Pulling
<1> DEFINE i == SetReadingItemPushed(item, pull.list, Now)
<1>1. /\ i \in Row(Nat) /\ i.over = item.over /\ i.cur = item.cur /\ i.pushedAt = Now
      /\ i.pushedStatus = pull.list /\ i.readId = item.readId
  BY <1>0, Wider DEF SetReadingItemPushed, Row
<1>2. /\ Ranked(i, shelf, NoPull)
      /\ UNCHANGED <<reads, dry, queue, pusher, inProgress, edits, faults, latest>>
  BY DEF Mirror
<1> HIDE DEF i
<1>3. NoPull \in Pulling(Nat) /\ NoPull.at = "idle"
  BY Wider DEF NoPull
<1>4. /\ item' \in Row(Time) /\ shelf' \in Entry(Time) /\ pull' \in Pulling(Time)
      /\ item'.over = item.over /\ item'.readId = item.readId /\ pull'.at = "idle"
      /\ Known(shelf', item') <=> Known(shelf, i)
  BY <1>0, <1>1, <1>2, <1>3, RankedKeeps DEF Apart
<1>5. Typed'
  BY <1>0, <1>2, <1>4 DEF Typed
<1>6. OneAtATime' /\ OneRead'
  BY <1>0, <1>2, <1>4 DEF OneAtATime, OneRead
<1>7. Stands'
  <2> SUFFICES ASSUME latest'.who = "here" PROVE Stands'
    BY DEF Stands
  <2>1. Wrote(shelf, item, pull.list) /\ item.over = latest.status /\ latest # Unclear
    BY <1>0, <1>2, Deciders DEF Stands
  <2>2. shelf.at <= Now
    BY <1>0 DEF Entry, Time, Now
  <2>3. Known(shelf', item')
    BY <1>1, <1>4, <2>1, <2>2 DEF Known, Wrote
  <2>4. \A o \in Pushers : ~ Writing(pusher[o])
    BY <1>0, <2>1 DEF OneAtATime, Writing
  <2> QED BY <1>2, <1>4, <2>1, <2>3, <2>4 DEF Stands
<1> QED BY <1>5, <1>6, <1>7 DEF ShelfInv

\* A pull that fails between its write and the record makes the history unclear.
LEMMA PullFailsKeeps == ShelfInv /\ PullFails => ShelfInv'
<1> SUFFICES ASSUME ShelfInv, PullFails PROVE ShelfInv'
  OBVIOUS
<1>0. /\ Typed /\ OneAtATime /\ Stands /\ OneRead /\ item \in Row(Nat) /\ shelf \in Entry(Nat)
      /\ pull.at # "idle" /\ faults \in Nat
  BY Wider DEF ShelfInv, Typed, PullFails
<1> DEFINE q == IF pull.at = "fetched" THEN [NoPull EXCEPT !.at = "reconciled"] ELSE NoPull
<1>1. q \in Pulling(Nat) /\ q.at \in {"reconciled", "idle"}
  BY Wider DEF NoPull, Pulling
<1>2. /\ Ranked(item, shelf, q) /\ Blurred(pull.at = "written") /\ faults' = faults + 1
      /\ UNCHANGED <<reads, dry, queue, pusher, inProgress, edits>>
  BY DEF PullFails, Fails
<1> HIDE DEF q
<1>3. /\ item' \in Row(Time) /\ shelf' \in Entry(Time) /\ pull' \in Pulling(Time)
      /\ item'.over = item.over /\ item'.readId = item.readId
      /\ pull'.at \in {"reconciled", "idle"}
      /\ Known(shelf', item') <=> Known(shelf, item)
  BY <1>0, <1>1, <1>2, RankedKeeps DEF Apart
<1>4. Typed'
  BY <1>0, <1>2, <1>3 DEF Typed, Blurred
<1>5. CASE latest' = Unclear
  BY <1>4, <1>5, UnclearIsEnough
<1>6. CASE latest' # Unclear
  <2>1. latest' = latest /\ pull.at # "written"
    BY <1>2, <1>6 DEF Blurred
  <2>2. \A o \in Pushers : ~ Writing(pusher[o])
    BY <1>0, <1>6, <2>1 DEF OneAtATime, Writing
  <2>3. OneAtATime' /\ OneRead'
    BY <1>0, <1>2, <1>3, <2>1 DEF OneAtATime, OneRead
  <2>4. Stands'
    BY <1>0, <1>2, <1>3, <2>1, <2>2 DEF Stands
  <2> QED BY <1>4, <2>3, <2>4 DEF ShelfInv
<1> QED BY <1>5, <1>6

-----------------------------------------------------------------------------
(* Theorems.                                                               *)

\* At first nothing runs and nothing was decided here.
LEMMA InitShelf == Init => ShelfInv
<1> SUFFICES ASSUME Init PROVE ShelfInv
  OBVIOUS
<1>1. item \in Row(Time)
  <2>1. "want" \in CurationStatuses /\ NoStatus \in Maybe /\ 0 \in Time
    BY DEF CurationStatuses, Maybe, Time
  <2>2. NewItem \in Row(Time)
    BY <2>1 DEF NewItem, Row
  <2>3. [NewItem EXCEPT !.linked = TRUE] \in Row(Time)
    BY <2>2 DEF Row
  <2> QED BY <2>2, <2>3 DEF Init
<1>2. shelf \in Entry(Time)
  <2>1. "want" \in Maybe /\ 1 \in Time
    BY DEF Maybe, CurationStatuses, Time
  <2> QED BY <2>1, Wider DEF Init, Entry
<1>3. pusher = [p \in Pushers |-> Idle] /\ pull = NoPull /\ reads = 0 /\ inProgress = 0
      /\ latest = Elsewhere /\ NoPull.at = "idle"
  BY DEF Init, NoPull
<1>4. Typed
  BY <1>1, <1>2, <1>3, Wider, IdleIsAPush DEF Init, Typed
<1> QED BY <1>3, <1>4, IdleIsAPush, Deciders DEF ShelfInv, OneAtATime, Stands, OneRead

\* Every step keeps the invariant.
LEMMA ShelfStep == ShelfInv /\ [Next]_vars => ShelfInv'
<1> SUFFICES ASSUME ShelfInv, [Next]_vars PROVE ShelfInv'
  OBVIOUS
<1>1. ASSUME NEW s \in Statuses \union {NoStatus}, SetBookCuration(s) PROVE ShelfInv'
  BY <1>1, CurationKeeps
<1>2. ASSUME NEW s \in Statuses, EditOnHardcover(s) PROVE ShelfInv'
  BY <1>2, EditKeeps
<1>3. CASE Finish \/ Progress \/ Link
  BY <1>3, FinishKeeps, SweepsKeep
<1>4. ASSUME NEW p \in Pushers, PushNext(p) PROVE ShelfInv'
  BY <1>4, LoadKeeps, WriteKeeps, UpsertReadKeeps, RecordKeeps, PushFailsKeeps DEF PushNext
<1>5. CASE ListInProgress \/ PushProgressMatched
  BY <1>5, ProgressPushKeeps
<1>6. CASE PullNext
  BY <1>6, FetchKeeps, ReconcileKeeps, ListDivergedKeeps, BulkUpsertKeeps, MirrorKeeps,
     PullFailsKeeps DEF PullNext
<1>7. CASE UNCHANGED vars
  BY <1>7 DEF vars, ShelfInv, Typed, OneAtATime, Stands, OneRead
<1> QED BY <1>1, <1>2, <1>3, <1>4, <1>5, <1>6, <1>7 DEF Next

\* The invariant holds for any statuses and any number of events and faults.
THEOREM ShelfCorrect == Spec => []ShelfInv
<1> QED BY InitShelf, ShelfStep, PTL DEF Spec

\* The row, the shelf and the jobs keep their types, and the times their ranks.
THEOREM ShelfTypes == Spec => []Typed
<1>1. ShelfInv => Typed
  BY DEF ShelfInv
<1> QED BY <1>1, ShelfCorrect, PTL

\* For any number of edits, finishes, pushes and pulls that take turns, and
\* wherever they fail before they write: no pull and no push replaces what the
\* reader chose here or Amazon reported as a finish (AdoptGate,
\* SetReadingItemPushed).
THEOREM DecisionsStand == Spec => []LocalEditStands
<1>1. ShelfInv => LocalEditStands
  BY DEF ShelfInv, Stands, LocalEditStands
<1> QED BY <1>1, ShelfCorrect, PTL

\* However often the two pushes carry the finish of a book, in either order,
\* one read is inserted as long as they take turns and are recorded
\* (SetReadingItemPushedReadID).
THEOREM FinishesLeaveOneRead == Spec => []OneReadPerFinish
<1>1. ShelfInv => OneReadPerFinish
  BY DEF ShelfInv, OneRead, OneReadPerFinish
<1> QED BY <1>1, ShelfCorrect, PTL
=============================================================================
