--------------------------- MODULE HeartbeatStore ---------------------------
(***************************************************************************)
(* The heartbeats of one sender and the data derived from them: the column *)
(* gap_seconds and the table hb_rollup_daily                               *)
(* (internal/shared/db/ingest.go).  Senders share no row.                  *)
(*                                                                         *)
(* A table is a function whose domain are the rows that are there.  The    *)
(* eight axes a rollup row is keyed by are one label.  Instants are whole  *)
(* units of time; a zone shifts the day boundary.                          *)
(***************************************************************************)
EXTENDS Integers, FiniteSets, FiniteSetsExt

CONSTANTS Beats,        \* what UNIQUE (entity, sender, time_sent) tells apart
          TimeOf,       \* the instant of each
          Workouts,     \* the beats that are workouts
          Labels, Zones,
          MaxGap,       \* 900 s
          DayLength,
          WorkoutTime,  \* workout_duration_s of every workout
          NoGap         \* NULL

ASSUME HeartbeatAssumption ==
  /\ IsFiniteSet(Beats)
  /\ TimeOf \in [Beats -> Nat]
  /\ Workouts \subseteq Beats
  /\ Zones \subseteq Nat
  /\ MaxGap \in Nat /\ WorkoutTime \in Nat
  /\ DayLength \in Nat \ {0}
  /\ NoGap \notin Nat

Row == [label: Labels, gap: Nat \cup {NoGap}]

IsTable(f, S, T) == DOMAIN f \subseteq S /\ \A x \in DOMAIN f : f[x] \in T

\* The table f with the rows of g written over it.
Over(g, f) ==
  [x \in DOMAIN f \cup DOMAIN g |-> IF x \in DOMAIN g THEN g[x] ELSE f[x]]

Without(f, S) == [x \in DOMAIN f \ S |-> f[x]]

\* insertHeartbeatsBatch: a new row has no gap yet; a row that is there keeps
\* everything but its machine, one of the axes of its label.
Upserted(table, batch) ==
  [b \in DOMAIN batch |-> [label |-> batch[b],
                           gap |-> IF b \in DOMAIN table THEN table[b].gap ELSE NoGap]]

-----------------------------------------------------------------------------
(* recomputeGapsUntil.                                                     *)

Earlier(S, t) == {TimeOf[b] : b \in {c \in S : TimeOf[c] < t}}
Later(S, t) == {TimeOf[b] : b \in {c \in S : TimeOf[c] > t}}

Anchor(S, since) == IF Earlier(S, since) = {} THEN -1 ELSE Max(Earlier(S, since))

\* The horizon cuts the window off after the first beat behind the batch.
WithinHorizon(S, b, until) == \A t \in Later(S, until) : TimeOf[b] <= t

\* Mutated form of Window: the beat behind the batch is left out.
Window_Short(S, since, bounded, until) ==
  {b \in S : TimeOf[b] >= Anchor(S, since) /\ (bounded => TimeOf[b] <= until)}

\* Mutated form of Window: it starts with the batch itself.
Window_NoAnchor(S, since, bounded, until) ==
  {b \in S : TimeOf[b] >= since /\ (bounded => WithinHorizon(S, b, until))}

Window(S, since, bounded, until) ==
  {b \in S : TimeOf[b] >= Anchor(S, since) /\ (bounded => WithinHorizon(S, b, until))}

\* Which of several rows of one instant the ORDER BY puts first is open.
Leaders(S) ==
  {L \in SUBSET S : \A b \in S : Cardinality({c \in L : TimeOf[c] = TimeOf[b]}) = 1}

\* Mutated form of Lag: the difference is taken the wrong way round.
Lag_Reversed(S, lead, b) ==
  IF b \notin lead THEN 0
  ELSE IF Earlier(S, TimeOf[b]) = {} THEN NoGap
  ELSE Max(Earlier(S, TimeOf[b])) - TimeOf[b]

\* lag(time_sent) over the rows S.
Lag(S, lead, b) ==
  IF b \notin lead THEN 0
  ELSE IF Earlier(S, TimeOf[b]) = {} THEN NoGap
  ELSE TimeOf[b] - Max(Earlier(S, TimeOf[b]))

\* The gaps the UPDATE assigns.
RecomputedGaps(S, since, bounded, until) ==
  LET W == Window(S, since, bounded, until) IN
  {[b \in {c \in W : TimeOf[c] >= since} |-> Lag(W, lead, b)] : lead \in Leaders(W)}

-----------------------------------------------------------------------------
(* refreshRollup.                                                          *)

Day(t, zone) == (t + zone) \div DayLength

\* A rebuild starts at time zero, the year 1: no beat is of an earlier day.
ASSUME ZeroTimeAssumption ==
  \A b \in Beats, y, z \in Zones : Day(0, y) <= Day(TimeOf[b], z)

\* The seconds a row counts for: workouts bring their own.
Counted(b, r) ==
  IF b \in Workouts THEN WorkoutTime
  ELSE IF r.gap # NoGap /\ r.gap <= MaxGap THEN r.gap ELSE 0

RollupKey(b, r, zone) == <<Day(TimeOf[b], zone), r.label>>

\* The SELECT of the rollup: the rows from the given day on, by day and label.
Aggregate(table, from, zone) ==
  LET rows == {b \in DOMAIN table : Day(TimeOf[b], zone) >= from}
  IN  [k \in {RollupKey(b, table[b], zone) : b \in rows} |->
         MapThenSumSet(LAMBDA b : Counted(b, table[b]),
                       {b \in rows : RollupKey(b, table[b], zone) = k})]

-----------------------------------------------------------------------------
(* What the derived data should be: every gap reaches back to the beat     *)
(* before, and the rollup is the aggregate of all rows.                    *)

ExactGaps(table) ==
  \E lead \in Leaders(DOMAIN table) :
    \A b \in DOMAIN table : table[b].gap = Lag(DOMAIN table, lead, b)

ExactRollup(table, rollup, zone) == rollup = Aggregate(table, 0, zone)
=============================================================================
