--------------------------- MODULE KindleReading ---------------------------
(***************************************************************************)
(* Reading time from Kindle positions (internal/books/ingest/kindle:       *)
(* reading_time.go, monitor.go).  Two jobs of different kinds sample the   *)
(* furthest page of the books being read and then rewrite the day buckets  *)
(* of reading_activity from the stored samples: "poll" (PollReadingTime,   *)
(* every book, always rewrites) and "monitor" (runMonitorPass, the books   *)
(* that are due, rewrites only after a new sample).  Each kind runs once   *)
(* at a time; the two overlap.                                             *)
(*                                                                         *)
(* Amazon's sidecar is external: the furthest page of a book and the time  *)
(* it was reached, both from the first reading on.  One reader, whose      *)
(* monitor is enabled; the gap-sum method; a lookback longer than the      *)
(* instance.  Toasts and histograms are left out.                          *)
(***************************************************************************)
EXTENDS Integers, FiniteSets, FiniteSetsExt

CONSTANTS Volumes,          \* the books (ASINs)
          DayLen,           \* ticks of a UTC day
          SessionGap, IdleGap, DetectInterval, CaptureInterval,
          MaxTick, MaxPage, \* bounds of the clock and of the pages
          FirstTick,        \* now, when the monitor is switched on
          Past,             \* [Volumes -> samples earlier polls have stored]
          MaxMishaps        \* passes an error cuts short, and finished books

ASSUME KindleAssumption ==
  /\ IsFiniteSet(Volumes)
  /\ {DayLen, SessionGap, IdleGap} \subseteq Nat \ {0}
  /\ IdleGap <= SessionGap  \* the defaults: 300 s and 900 s
  /\ FirstTick \in 0 .. MaxTick
  /\ Past \in [Volumes -> SUBSET [at : 0 .. FirstTick, pos : 1 .. MaxPage]]
  /\ \A v \in Volumes : \A r \in Past[v], s \in Past[v] : r.at = s.at => r = s
  /\ {DetectInterval, CaptureInterval, MaxTick, MaxPage, MaxMishaps} \subseteq Nat

\* The order of ListReadingItems.
NextOf(left) == CHOOSE v \in left : TRUE

VARIABLES tick,     \* the time
          page,     \* [Volumes -> the furthest page at Amazon]
          status,   \* [Volumes -> "reading" | "read"], reading_items.status
          samples,  \* [Volumes -> rows of kindle_reading_positions]
          tracked,  \* [Volumes -> row of kindle_reading_monitor_state]
          bucket,   \* [days -> reading_activity.listening_seconds]
          pass,     \* ["poll", "monitor" -> where the job is]
          counted,  \* the metric ReadingActivitySecondsTotal
          cuts      \* passes cut short, and fetches that failed

kindleVars == <<tick, page, status, samples, tracked, bucket, pass, counted, cuts>>

ReadingJobs == {"poll", "monitor"}
Days == 0 .. (MaxTick \div DayLen)
Never == -1
Position == [at : 0 .. MaxTick, pos : 0 .. MaxPage]
Untracked == [existed |-> FALSE, loc |-> 0, advanced |-> Never, active |-> FALSE,
              polled |-> Never]
NoSums == [d \in Days |-> 0]
NoPass == [at |-> "idle", now |-> 0, books |-> {}, left |-> {}, sampled |-> FALSE,
           sums |-> NoSums, days |-> {}, alone |-> FALSE]

\* The sum of the values of a function.
Total(F) == MapThenSumSet(LAMBDA x : F[x], DOMAIN F)

CanFail == cuts + Cardinality({w \in Volumes : status[w] = "read"}) < MaxMishaps

-----------------------------------------------------------------------------
\* ----- reading_time.go: samples to seconds per day

\* Mutant: an interval belongs to the day it ends on.
OnDay_Ends(from, to, d) == IF (to - 1) \div DayLen = d THEN to - from ELSE 0

\* Seconds of the interval from..to that fall on day d.
OnDay(from, to, d) ==
  LET first == Max({from, d * DayLen})
      last == Min({to, (d + 1) * DayLen})
  IN  IF first < last THEN last - first ELSE 0

Consecutive(S) == {p \in S \X S :
  p[1].at < p[2].at /\ ~\E c \in S : p[1].at < c.at /\ c.at < p[2].at}

Counts(a, b) == b.at - a.at <= SessionGap /\ a.pos # b.pos

ComposeSessions(S) == [d \in Days |->
  Total([p \in {q \in Consecutive(S) : Counts(q[1], q[2])} |-> OnDay(p[1].at, p[2].at, d)])]

-----------------------------------------------------------------------------
\* ----- the reader, the clock, the library sync

Tick == /\ tick < MaxTick /\ tick' = tick + 1
        /\ UNCHANGED <<page, status, samples, tracked, bucket, pass, counted, cuts>>

TurnPages(v) ==
  /\ status[v] = "reading"
  /\ page[v].pos < MaxPage
  /\ page[v].pos > 0 => page[v].at < tick
  /\ page' = [page EXCEPT ![v] = [at |-> tick, pos |-> @.pos + 1]]
  /\ UNCHANGED <<tick, status, samples, tracked, bucket, pass, counted, cuts>>

FinishReading(v) ==
  /\ status[v] = "reading"
  /\ CanFail
  /\ status' = [status EXCEPT ![v] = "read"]
  /\ UNCHANGED <<tick, page, samples, tracked, bucket, pass, counted, cuts>>

-----------------------------------------------------------------------------
\* ----- both jobs

InProgress == {v \in Volumes : status[v] = "reading"}

AllIdle == \A i \in ReadingJobs : pass[i].at = "idle"

\* `alone` is history: no other pass has run since this one started.
StartPass(j) ==
  /\ pass[j].at = "idle"
  /\ pass' = [i \in ReadingJobs |->
       IF i = j THEN [NoPass EXCEPT !.at = "sample", !.now = tick, !.books = InProgress,
                        !.left = InProgress, !.alone = AllIdle]
       ELSE [pass[i] EXCEPT !.alone = FALSE]]
  /\ UNCHANGED <<tick, page, status, samples, tracked, bucket, counted, cuts>>

\* InsertKindleReadingPosition: a sample of the same time is dropped.
Store(v, s) ==
  samples' = IF \E r \in samples[v] : r.at = s.at THEN samples
             ELSE [samples EXCEPT ![v] = @ \union {s}]

\* Mutant: the sample carries the time of the poll.
InsertPosition_Polled(j, v) == Store(v, [at |-> pass[j].now, pos |-> page[v].pos])

InsertPosition(j, v) == Store(v, page[v])

\* The poll of one book: no position yet, or a failed fetch, is skipped.
PollBook(v) ==
  /\ pass["poll"].at = "sample" /\ pass["poll"].left # {} /\ v = NextOf(pass["poll"].left)
  /\ pass' = [pass EXCEPT !["poll"].left = @ \ {v}]
  /\ \/ page[v].pos > 0 /\ InsertPosition("poll", v) /\ UNCHANGED cuts
     \/ page[v].pos = 0 /\ UNCHANGED <<samples, cuts>>
     \/ CanFail /\ cuts' = cuts + 1 /\ UNCHANGED samples
  /\ UNCHANGED <<tick, page, status, tracked, bucket, counted>>

\* ListKindleReadingPositions and composeSessions, book by book.
StartRecompose(j) ==
  /\ pass[j].at = "sample" /\ pass[j].left = {}
  /\ pass' = [pass EXCEPT ![j] = IF j = "poll" \/ @.sampled
                                  THEN [NoPass EXCEPT !.at = "compose", !.left = pass[j].books,
                                                       !.alone = pass[j].alone]
                                  ELSE NoPass]
  /\ UNCHANGED <<tick, page, status, samples, tracked, bucket, counted, cuts>>

AddBook(old, v) == LET s == ComposeSessions(samples[v])
                   IN  [d \in Days |-> old[d] + s[d]]

ComposeBook(j, v) ==
  /\ pass[j].at = "compose" /\ pass[j].left # {} /\ v = NextOf(pass[j].left)
  /\ LET sums == AddBook(pass[j].sums, v)
     IN  pass' = [pass EXCEPT ![j].left = @ \ {v}, ![j].sums = sums,
                                ![j].days = {d \in Days : sums[d] > 0}]
  /\ UNCHANGED <<tick, page, status, samples, tracked, bucket, counted, cuts>>

\* UpsertReadingActivity overwrites the bucket of a day.
WriteBucket(j, d) ==
  /\ pass[j].at = "compose" /\ pass[j].left = {} /\ d \in pass[j].days
  /\ bucket' = [bucket EXCEPT ![d] = pass[j].sums[d]]
  /\ pass' = [pass EXCEPT ![j].days = @ \ {d}]
  /\ UNCHANGED <<tick, page, status, samples, tracked, counted, cuts>>

EndPass(j) ==
  /\ pass[j].at = "compose" /\ pass[j].left = {} /\ pass[j].days = {}
  /\ pass' = [pass EXCEPT ![j] = NoPass]
  /\ UNCHANGED <<tick, page, status, samples, tracked, bucket, counted, cuts>>

\* A statement fails, or the job's context ends: the rest is not done.
CutPass(j) ==
  /\ pass[j].at # "idle"
  /\ CanFail /\ cuts' = cuts + 1
  /\ pass' = [pass EXCEPT ![j] = NoPass]
  /\ UNCHANGED <<tick, page, status, samples, tracked, bucket, counted>>

-----------------------------------------------------------------------------
\* ----- the monitor's pass over one book

Expired(st, now) ==
  IF st.active /\ st.advanced # Never /\ now >= st.advanced + IdleGap
  THEN [st EXCEPT !.active = FALSE] ELSE st

\* While the user calibrates, every book is due at every tick.
Due(st, now, calibrating) ==
  \/ st.polled = Never
  \/ calibrating
  \/ now >= st.polled + (IF st.active THEN CaptureInterval ELSE DetectInterval)

\* An advance of a book in a live session counts the time since the last one.
Interval(st, v) ==
  IF st.active /\ st.advanced # Never /\ page[v].at > st.advanced
  THEN page[v].at - st.advanced ELSE 0

Observe(v, st) == tracked' = [tracked EXCEPT ![v] = [st EXCEPT !.existed = TRUE]]

\* A stale position of a book never seen before only anchors the state.
Stale(st, v, now) == ~st.existed /\ now - page[v].at > IdleGap

Passed(v, new) == pass' = [pass EXCEPT !["monitor"].left = @ \ {v},
                                        !["monitor"].sampled = @ \/ new]

MonitorBook(v) ==
  LET m == pass["monitor"]
      st == Expired(tracked[v], m.now)
      seen == [st EXCEPT !.polled = m.now]
      anchor == [seen EXCEPT !.loc = page[v].pos, !.advanced = page[v].at]
      new == Interval(seen, v)
  IN  /\ m.at = "sample" /\ m.left # {} /\ v = NextOf(m.left)
      /\ \E calibrating \in BOOLEAN :
           \/ /\ ~Due(st, m.now, calibrating)
              /\ tracked' = [tracked EXCEPT ![v] = st]
              /\ Passed(v, FALSE) /\ UNCHANGED <<samples, counted, cuts>>
           \/ /\ Due(st, m.now, calibrating)
              /\ page[v].pos <= st.loc
              /\ Observe(v, seen) /\ Passed(v, FALSE) /\ UNCHANGED <<samples, counted, cuts>>
           \/ /\ Due(st, m.now, calibrating)  \* the fetch fails
              /\ CanFail /\ cuts' = cuts + 1
              /\ Observe(v, seen) /\ Passed(v, FALSE) /\ UNCHANGED <<samples, counted>>
           \/ /\ Due(st, m.now, calibrating)
              /\ page[v].pos > st.loc /\ Stale(st, v, m.now)
              /\ InsertPosition("monitor", v) /\ UNCHANGED counted
              /\ \/ Observe(v, anchor) /\ Passed(v, TRUE) /\ UNCHANGED cuts
                 \/ /\ CanFail /\ cuts' = cuts + 1  \* the row of the state is not saved
                    /\ pass' = [pass EXCEPT !["monitor"] = NoPass] /\ UNCHANGED tracked
           \/ /\ Due(st, m.now, calibrating)
              /\ page[v].pos > st.loc /\ ~Stale(st, v, m.now)
              /\ counted' = counted + (IF new <= SessionGap THEN new ELSE 0)
              /\ \/ /\ InsertPosition("monitor", v)
                    /\ Observe(v, [anchor EXCEPT !.active = TRUE])
                    /\ Passed(v, TRUE) /\ UNCHANGED cuts
                 \/ /\ CanFail /\ cuts' = cuts + 1  \* nor is it here, or not even the sample
                    /\ InsertPosition("monitor", v) \/ UNCHANGED samples
                    /\ pass' = [pass EXCEPT !["monitor"] = NoPass]
                    /\ UNCHANGED tracked
      /\ UNCHANGED <<tick, page, status, bucket>>

-----------------------------------------------------------------------------
Latest(S) == IF S = {} THEN [at |-> 0, pos |-> 0]
             ELSE CHOOSE s \in S : \A r \in S : r.at <= s.at

KindleInit ==
  /\ tick = FirstTick
  /\ page = [v \in Volumes |-> Latest(Past[v])]
  /\ status = [v \in Volumes |-> "reading"]
  /\ samples = Past
  /\ tracked = [v \in Volumes |-> Untracked]
  /\ bucket = [d \in Days |-> Total([v \in Volumes |-> ComposeSessions(Past[v])[d]])]
  /\ pass = [j \in ReadingJobs |-> NoPass]
  /\ counted = 0 /\ cuts = 0

Recompose(j) ==
  \/ StartRecompose(j) \/ EndPass(j)
  \/ \E v \in Volumes : ComposeBook(j, v)
  \/ \E d \in Days : WriteBucket(j, d)

PollStep == StartPass("poll") \/ (\E v \in Volumes : PollBook(v)) \/ Recompose("poll")
MonitorStep == (\E v \in Volumes : MonitorBook(v)) \/ Recompose("monitor")

KindleNext ==
  \/ Tick \/ \E v \in Volumes : TurnPages(v) \/ FinishReading(v)
  \/ PollStep \/ StartPass("monitor") \/ MonitorStep
  \/ \E j \in ReadingJobs : CutPass(j)

KindleTypeOK ==
  /\ tick \in 0 .. MaxTick
  /\ page \in [Volumes -> Position] /\ status \in [Volumes -> {"reading", "read"}]
  /\ \A v \in Volumes : samples[v] \subseteq Position
  /\ bucket \in [Days -> Nat] /\ counted \in Nat /\ cuts \in 0 .. MaxMishaps

-----------------------------------------------------------------------------
\* ----- properties

\* Reference: the book was being read at instant t if the samples around t are
\* of different pages and at most SessionGap apart.
ReadAt(S, t) == \E a \in S, b \in S :
  /\ a.at <= t /\ t < b.at /\ b.at - a.at <= SessionGap /\ a.pos # b.pos
  /\ \A c \in S : c.at <= a.at \/ c.at >= b.at

ReadingTime(v, d) ==
  Cardinality({t \in 0 .. MaxTick : t \div DayLen = d /\ ReadAt(samples[v], t)})

\* A poll that no other pass overlaps leaves every day at its reading time,
\* whatever stale sums and missing days overlapping or interrupted passes left
\* before it (the rewrite of recomposeReadingActivity); the days of a book that
\* has been finished since are exempt, its samples are no longer read.
PollRepairs ==
  LET p == pass["poll"]
  IN  p.at = "compose" /\ p.left = {} /\ p.days = {} /\ p.alone =>
        \A d \in Days :
          \/ \E v \in Volumes : status[v] = "read" /\ ReadingTime(v, d) > 0
          \/ bucket[d] = Total([v \in Volumes |-> ReadingTime(v, d)])

\* The counter of the monitor never runs ahead of the reading time the samples
\* prove, once the pass has stored its sample (monitor.go: "exactly those new
\* seconds"); a pass that is cut short counts an advance twice.
CounterIsBacked ==
  cuts = 0 /\ counted > 0 =>
    counted <= Total([v \in Volumes |-> Total([d \in Days |-> ReadingTime(v, d)])])
=============================================================================
