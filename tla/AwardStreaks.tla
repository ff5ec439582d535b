---------------------------- MODULE AwardStreaks ----------------------------
(***************************************************************************)
(* The ledger of one label's awards and its streak                         *)
(* (shared/db/award_ledger.go, internal/boomtime/awards): a row says that  *)
(* the label fired in a period, and the streak is a walk over the rows     *)
(* from the current period back.  Rows come from the owner's visits        *)
(* (OwnAwards), from a replay of past days (AwardsBackfill) and from       *)
(* POST /awards/log; meanwhile the owner may move to another time zone and *)
(* an admin may give the label another period.                             *)
(*                                                                         *)
(* Time is in ticks, DayTicks to a day and WeekDays days to a week; a zone *)
(* is the number of ticks it is ahead of UTC.  Months are left out.        *)
(***************************************************************************)
EXTENDS Integers, FiniteSets, FiniteSetsExt

CONSTANTS DayTicks, WeekDays,
          Zones,
          Ahead,       \* how far in the future an entry may be dated
          MaxTime, MaxLogs, MaxChanges, MaxDays

ASSUME StreakAssumption ==
  /\ {DayTicks, WeekDays} \subseteq Nat \ {0}
  /\ Zones \subseteq Nat
  /\ {Ahead, MaxTime, MaxLogs, MaxChanges, MaxDays} \subseteq Nat

PeriodTypes == {"daily", "weekly"}
LengthOf(pt) == IF pt = "daily" THEN DayTicks ELSE DayTicks * WeekDays

VARIABLES time,
          zone,     \* the owner's zone
          period,   \* the period of the label
          ledger,   \* rows [start, pt]; no two have one start
          visit,    \* an OwnAwards request that has evaluated the label
          replay,   \* the AwardsBackfill request
          logs, changes,
          hits,     \* history: the instants the label was logged for
          settled   \* history: the last instant at which zone or period changed,
                    \* or an entry was made for another zone or period

streakVars == <<time, zone, period, ledger, visit, replay, logs, changes, hits, settled>>

NoVisit == [at |-> "idle", zone |-> 0, pt |-> "daily"]
NoReplay == [at |-> "idle", zone |-> 0, pt |-> "daily", now |-> 0, left |-> 0]

-----------------------------------------------------------------------------
\* ----- award_ledger.go

\* Mutant: days and weeks of UTC.
PeriodStart_UTC(pt, t, z) == (t \div LengthOf(pt)) * LengthOf(pt)

\* PeriodBounds: the start, as an instant, of the local period around t.
PeriodStart(pt, t, z) == ((t + z) \div LengthOf(pt)) * LengthOf(pt) - z

PeriodStepBackward(pt, start) == start - LengthOf(pt)

\* Mutant: no conflict on the start of a period.
Inserted_Twice(row) == ledger \union {row}

\* ON CONFLICT DO NOTHING: a period that has a row keeps it.
Inserted(row) ==
  IF \E r \in ledger : r.start = row.start THEN ledger ELSE ledger \union {row}

LogAwards(pt, z, t) ==
  /\ logs < MaxLogs /\ logs' = logs + 1
  /\ ledger' = Inserted([start |-> PeriodStart(pt, t, z), pt |-> pt])
  /\ hits' = hits \union {t}

\* GetLabelStreaks: the newest row must be of the current period, and the
\* following ones each a period earlier.
Newest == CHOOSE r \in ledger : \A s \in ledger : s.start <= r.start

NewestFirst(n) == CHOOSE r \in ledger : Cardinality({s \in ledger : s.start > r.start}) = n

Walks(n) ==
  \A i \in 1 .. n - 1 :
    NewestFirst(i).start = PeriodStepBackward(Newest.pt, NewestFirst(i - 1).start)

LabelStreak ==
  IF ledger = {} \/ Newest.start # PeriodStart(Newest.pt, time, zone) THEN 0
  ELSE Max({n \in 1 .. Cardinality(ledger) : Walks(n)})

-----------------------------------------------------------------------------
\* ----- requests

StreakTick ==
  /\ time < MaxTime /\ time' = time + 1
  /\ UNCHANGED <<zone, period, ledger, visit, replay, logs, changes, hits, settled>>

\* OwnAwards: the label fires on the payload; its period and the zone are read.
Visit ==
  /\ visit.at = "idle"
  /\ visit' = [at |-> "evaluated", zone |-> zone, pt |-> period]
  /\ UNCHANGED <<time, zone, period, ledger, replay, logs, changes, hits, settled>>

\* The entry is made for the time it is made at; a failure is only logged.
VisitLogs ==
  /\ visit.at = "evaluated" /\ visit' = NoVisit
  /\ \/ /\ LogAwards(visit.pt, visit.zone, time)
        /\ settled' = IF visit.zone = zone /\ visit.pt = period THEN settled
                      ELSE Max({settled, time})
     \/ UNCHANGED <<ledger, logs, hits, settled>>
  /\ UNCHANGED <<time, zone, period, replay, changes>>

\* AwardsBackfill: zone, catalog and now are read once.
StartReplay(days) ==
  /\ replay.at = "idle"
  /\ replay' = [at |-> "running", zone |-> zone, pt |-> period, now |-> time, left |-> days]
  /\ UNCHANGED <<time, zone, period, ledger, visit, logs, changes, hits, settled>>

\* Oldest day first; a day without the award, or whose payload or write fails,
\* is skipped.
ReplayDay ==
  /\ replay.at = "running"
  /\ LET t == replay.now - (replay.left - 1) * DayTicks
     IN  LogAwards(replay.pt, replay.zone, t) \/ UNCHANGED <<ledger, logs, hits>>
  /\ replay' = IF replay.left = 1 THEN NoReplay ELSE [replay EXCEPT !.left = @ - 1]
  /\ UNCHANGED <<time, zone, period, visit, changes, settled>>

\* POST /awards/log, with the client's period and, if it likes, a time.
AwardsLog(pt, t) ==
  /\ t <= time + Ahead
  /\ LogAwards(pt, zone, t)
  /\ settled' = IF pt = period THEN settled ELSE Max({settled, time, t})
  /\ UNCHANGED <<time, zone, period, visit, replay, changes>>

Changes ==
  /\ changes < MaxChanges /\ changes' = changes + 1
  /\ settled' = Max({time} \union hits)
  /\ UNCHANGED <<time, ledger, visit, replay, logs, hits>>

SetUserTimezone(z) == Changes /\ z # zone /\ zone' = z /\ UNCHANGED period

\* The catalog's period_default of the label is edited.
SetPeriodDefault(pt) == Changes /\ pt # period /\ period' = pt /\ UNCHANGED zone

-----------------------------------------------------------------------------
StreakInit ==
  /\ time = MaxDays * DayTicks
  /\ zone \in Zones /\ period \in PeriodTypes
  /\ ledger = {} /\ hits = {}
  /\ visit = NoVisit /\ replay = NoReplay
  /\ logs = 0 /\ changes = 0
  /\ settled = -1 - DayTicks * WeekDays

StreakNext ==
  \/ StreakTick \/ Visit \/ VisitLogs \/ ReplayDay
  \/ \E days \in 1 .. MaxDays : StartReplay(days)
  \/ \E pt \in PeriodTypes, t \in {time - DayTicks, time + Ahead} : AwardsLog(pt, t)
  \/ \E z \in Zones : SetUserTimezone(z)
  \/ \E pt \in PeriodTypes : SetPeriodDefault(pt)

StreakTypeOK ==
  /\ time \in Nat /\ zone \in Zones /\ period \in PeriodTypes
  /\ ledger \subseteq [start : Int, pt : PeriodTypes]
  /\ \A r \in ledger, s \in ledger : r.start = s.start => r = s
  /\ visit.zone \in Zones \union {0} /\ replay.left \in 0 .. MaxDays

\* Reference: the periods of the calendar, numbered, and those that were hit.
PeriodNo(t) == (t + zone) \div LengthOf(period)
HitPeriods == {PeriodNo(t) : t \in hits}
ConsecutiveHits == Max({n \in 0 .. Cardinality(hits) :
                      \A k \in 0 .. n - 1 : PeriodNo(time) - k \in HitPeriods})

\* Periods that began after the last change of zone or period.
PeriodsSince == Max({0, PeriodNo(time) - PeriodNo(settled)})

\* The streak is the number of consecutive periods the label was logged for,
\* up to now, whatever the order of visits, replays and entries and however
\* often they repeat; a change of zone or period, which leaves rows of another
\* calendar behind, spoils no period that begins after it, from the first entry
\* in such a period on.  An entry dated into the next period ends the streak
\* until then (AwardsLog: "could poison the streak walker").
StreakIsExact ==
  /\ \E t \in hits : PeriodNo(t) > PeriodNo(settled)
  /\ \A t \in hits : PeriodNo(t) <= PeriodNo(time)
  => Min({LabelStreak, PeriodsSince}) = Min({ConsecutiveHits, PeriodsSince})
=============================================================================
