--------------------------- MODULE ResponseCaches ---------------------------
(***************************************************************************)
(* The two caches in front of the aggregation queries, for one owner.      *)
(* Every replica keeps the payloads of its dashboards and widgets in       *)
(* memory (shared/cache, CachedJSON, CachedBlob); the progress of a goal   *)
(* is cached in its row (goals/handler.go, goals/db.go).  Both answer from *)
(* the cache or compute and store what they computed, while writes commit  *)
(* first and invalidate afterwards: settings (curation, spaces, zone,      *)
(* widgets) on the replica that served them, heartbeats in the goals only. *)
(*                                                                         *)
(* Entries do not touch each other, so a behaviour is about one of them:   *)
(* `cache` is "stats", one key in the memory of one replica, or "goals",   *)
(* the progress in the row of one goal.  A payload is what it was computed *)
(* from: the version of the rules (the owner's settings, the goal's spec)  *)
(* and the version of the activity.                                        *)
(***************************************************************************)
EXTENDS Naturals

CONSTANTS Requests,            \* reads that may be under way at a time
          StatsTTL, GoalTTL,
          Slowest,             \* ticks a read may take
          MaxNow, MaxWrites    \* bounds of the clock and of each kind of write

ASSUME CachesAssumption ==
  /\ {StatsTTL, GoalTTL} \subseteq Nat \ {0}
  /\ {Slowest, MaxNow, MaxWrites} \subseteq Nat

VARIABLES now,
          cache,     \* "stats" | "goals"
          rules,     \* the commit times of the settings, or of the spec
          activity,  \* the commit times of heartbeats, workouts and samples
          entry,     \* what is cached, or NoEntry
          request,   \* [Requests -> where the read is]
          pending,   \* committed writes that have yet to invalidate
          floor      \* history: the versions every later answer must show

cacheVars == <<now, cache, rules, activity, entry, request, pending, floor>>

Nothing == [rules |-> 0, beats |-> 0]
NoEntry == [present |-> FALSE, at |-> 0, shows |-> Nothing]
NoRequest == [at |-> "idle", began |-> 0, seen |-> NoEntry, shows |-> Nothing,
              floor |-> Nothing]

Payload == [rules : 0 .. MaxWrites, beats : 0 .. MaxWrites]
CacheEntry == [present : BOOLEAN, at : 0 .. MaxNow, shows : Payload]
Read == [at : {"idle", "looked", "loaded", "computed", "answered"}, began : 0 .. MaxNow,
         seen : CacheEntry, shows : Payload, floor : Payload]

\* Commit times are kept in order; the version is their number.
NoWrites == [count |-> 0, at |-> [n \in 1 .. MaxWrites |-> 0]]
CanWrite(w) == w.count < MaxWrites
Written(w) == [count |-> w.count + 1, at |-> [w.at EXCEPT ![w.count + 1] = now]]
OlderThan(w, age) ==
  CHOOSE n \in 0 .. w.count : /\ n > 0 => w.at[n] + age < now
                              /\ n < w.count => w.at[n + 1] + age >= now

TTL == IF cache = "goals" THEN GoalTTL ELSE StatsTTL

-----------------------------------------------------------------------------
\* ----- a read: CachedJSON, CachedBlob, evalGoal

\* Mutant: an entry is good until the sweeper removes it.
IsFresh_Present(e) == e.present

\* Get answers until the expiry has passed; last_evaluated_at must be younger
\* than GoalCacheTTL.
IsFresh(e) ==
  e.present /\ IF cache = "goals" THEN now < e.at + GoalTTL ELSE now <= e.at + StatsTTL

\* The lookup.  GetGoal and ListGoals read the spec with the progress; the
\* goals of a batch wait for their turn with the rows that were read.
Look(q) ==
  /\ request[q].at = "idle"
  /\ request' = [request EXCEPT ![q] =
       [at |-> "looked", began |-> now, seen |-> entry,
        shows |-> IF cache = "goals" THEN [Nothing EXCEPT !.rules = rules.count] ELSE Nothing,
        floor |-> floor]]
  /\ UNCHANGED <<now, cache, rules, activity, entry, pending, floor>>

Hit(q) ==
  /\ request[q].at = "looked" /\ IsFresh(request[q].seen)
  /\ request' = [request EXCEPT ![q].at = "answered", ![q].seen = NoEntry,
                                ![q].shows = request[q].seen.shows]
  /\ UNCHANGED <<now, cache, rules, activity, entry, pending, floor>>

\* A miss of the TTL cache removes the expired entry it saw, unless a newer one
\* has taken its place, and loads the owner's settings.
Miss(q) ==
  /\ request[q].at = "looked" /\ ~IsFresh(request[q].seen)
  /\ entry' = IF cache = "stats" /\ request[q].seen.present /\ entry.at <= request[q].seen.at
              THEN NoEntry ELSE entry
  /\ request' = [request EXCEPT ![q].at = "loaded", ![q].seen = NoEntry,
                                ![q].shows.rules = IF cache = "goals" THEN @ ELSE rules.count]
  /\ UNCHANGED <<now, cache, rules, activity, pending, floor>>

Query(q) ==
  /\ request[q].at = "loaded"
  /\ request' = [request EXCEPT ![q].at = "computed", ![q].shows.beats = activity.count]
  /\ UNCHANGED <<now, cache, rules, activity, entry, pending, floor>>

\* Set; UpdateGoalProgress, whose failure is only logged.
StoreAnswer(q) ==
  /\ request[q].at = "computed"
  /\ \/ entry' = [present |-> TRUE, at |-> now, shows |-> request[q].shows]
     \/ cache = "goals" /\ UNCHANGED entry
  /\ request' = [request EXCEPT ![q].at = "answered"]
  /\ UNCHANGED <<now, cache, rules, activity, pending, floor>>

\* The answer leaves, or a query has failed.
EndRead(q) ==
  /\ request[q].at \in {"answered", "loaded"}
  /\ request' = [request EXCEPT ![q] = NoRequest]
  /\ UNCHANGED <<now, cache, rules, activity, entry, pending, floor>>

Sweep ==
  /\ cache = "stats" /\ entry.present /\ ~IsFresh(entry)
  /\ entry' = NoEntry
  /\ UNCHANGED <<now, cache, rules, activity, request, pending, floor>>

-----------------------------------------------------------------------------
\* ----- writes

\* Reads that may still store what they saw before.
Underway ==
  \E q \in Requests : \/ request[q].at \in {"loaded", "computed"}
                      \/ request[q].at = "looked" /\ cache = "goals"

\* What an invalidation promises: later answers show what is committed now.
Raised(r) ==
  floor' = IF Underway THEN floor ELSE [rules |-> r.count, beats |-> activity.count]

\* A handler of curation, spaces, widgets or the zone has committed: on this
\* replica, and it will invalidate, or on another one.
WriteSettings ==
  /\ cache = "stats"
  /\ CanWrite(rules) /\ rules' = Written(rules)
  /\ pending' \in {pending, pending + 1}
  /\ UNCHANGED <<now, cache, activity, entry, request, floor>>

\* Mutant: a new spec keeps the progress of the old one.
Cleared_Kept == entry

\* UpdateGoal writes the spec and clears the progress in one statement.
Cleared == NoEntry

UpdateGoal ==
  /\ cache = "goals"
  /\ CanWrite(rules) /\ rules' = Written(rules)
  /\ entry' = Cleared
  /\ Raised(Written(rules))
  /\ UNCHANGED <<now, cache, activity, request, pending>>

\* Heartbeats invalidate the goals and no dashboard, workouts and samples the
\* dashboards of this replica and no goal.
WriteActivity ==
  /\ CanWrite(activity) /\ activity' = Written(activity)
  /\ pending' \in {pending, pending + 1}
  /\ UNCHANGED <<now, cache, rules, entry, request, floor>>

\* InvalidateOwnerCache; InvalidateGoalsForOwner.
Invalidate ==
  /\ pending > 0 /\ pending' = pending - 1
  /\ entry' = NoEntry
  /\ Raised(rules)
  /\ UNCHANGED <<now, cache, rules, activity, request>>

\* InvalidateGoalsForOwner fails and is logged, or its process dies before it.
InvalidationFails ==
  /\ cache = "goals" /\ pending > 0 /\ pending' = pending - 1
  /\ UNCHANGED <<now, cache, rules, activity, entry, request, floor>>

\* The replica restarts: its memory and its requests are gone.
Restart ==
  /\ cache = "stats"
  /\ entry' = NoEntry /\ pending' = 0
  /\ request' = [q \in Requests |-> NoRequest]
  /\ UNCHANGED <<now, cache, rules, activity, floor>>

\* An answer leaves in the instant it is made.
CacheTick ==
  /\ now < MaxNow /\ now' = now + 1
  /\ \A q \in Requests : /\ request[q].at # "answered"
                         /\ request[q].at # "idle" => now < request[q].began + Slowest
  /\ UNCHANGED <<cache, rules, activity, entry, request, pending, floor>>

-----------------------------------------------------------------------------
CachesInit ==
  /\ now = 0
  /\ cache \in {"stats", "goals"}
  /\ rules = NoWrites /\ activity = NoWrites
  /\ entry = NoEntry
  /\ request = [q \in Requests |-> NoRequest]
  /\ pending = 0
  /\ floor = Nothing

CachesNext ==
  \/ CacheTick \/ WriteSettings \/ UpdateGoal \/ WriteActivity
  \/ Invalidate \/ InvalidationFails \/ Sweep \/ Restart
  \/ \E q \in Requests : Look(q) \/ Hit(q) \/ Miss(q) \/ Query(q) \/ StoreAnswer(q) \/ EndRead(q)

CachesSpec == CachesInit /\ [][CachesNext]_cacheVars

CachesTypeOK ==
  /\ {rules.count, activity.count} \subseteq 0 .. MaxWrites
  /\ entry \in CacheEntry
  /\ request \in [Requests -> Read]
  /\ floor \in Payload

\* However reads, late stores, writes and invalidations interleave and
\* whichever of them fail, on whichever replica: no answer hides a write for
\* longer than the TTL and the time one read takes (Get, evalGoal).
StaleForAWhile ==
  \A q \in Requests : request[q].at = "answered" =>
    /\ request[q].shows.rules >= OlderThan(rules, TTL + Slowest)
    /\ request[q].shows.beats >= OlderThan(activity, TTL + Slowest)

\* A write that has invalidated a cache shows in every answer from it to a
\* request that begins afterwards (InvalidateOwnerCache "take effect
\* immediately", InvalidateGoalsForOwner, the clearing of UpdateGoal), unless a
\* read was computing at that moment and stores what it saw.
InvalidatedIsGone ==
  \A q \in Requests : request[q].at = "answered" =>
    /\ request[q].shows.rules >= request[q].floor.rules
    /\ request[q].shows.beats >= request[q].floor.beats
=============================================================================
