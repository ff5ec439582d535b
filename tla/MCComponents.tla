---------------------------- MODULE MCComponents ----------------------------
(***************************************************************************)
(* Instances of five components that share no state: the Audible sync,     *)
(* liberation, Kindle reading time, the response caches and the streaks of *)
(* awards.  A behaviour is of one of them, `part`; the others rest in an   *)
(* initial state.                                                          *)
(***************************************************************************)
EXTENDS AudibleSync, Liberation, KindleReading, ResponseCaches, AwardStreaks, TLC

CONSTANTS b1, b2, r1, r2, v1, v2, q1, q2

VARIABLE part

\* v1 has not been opened, v2 was read on the first two ticks.
ReadBefore ==
  (v1 :> {}) @@ (v2 :> {[at |-> 0, pos |-> 1], [at |-> 1, pos |-> 2]})

\* Reads differ in nothing but their names.
Symmetry == Permutations({q1, q2})

vars == <<audibleVars, liberationVars, kindleVars, cacheVars, streakVars, part>>

Init ==
  /\ part \in {"audible", "liberation", "kindle", "caches", "streaks"}
  /\ AudibleInit /\ LiberationInit /\ KindleInit /\ CachesInit /\ StreakInit
  /\ part # "liberation" => onDevice
  /\ part # "caches" => cache = "stats"
  /\ part # "streaks" => zone = 0 /\ period = "daily"

AudibleTurn ==
  /\ part = "audible" /\ AudibleNext
  /\ UNCHANGED <<liberationVars, kindleVars, cacheVars, streakVars, part>>
LiberationTurn ==
  /\ part = "liberation" /\ LiberationNext
  /\ UNCHANGED <<audibleVars, kindleVars, cacheVars, streakVars, part>>
KindleTurn ==
  /\ part = "kindle" /\ KindleNext
  /\ UNCHANGED <<audibleVars, liberationVars, cacheVars, streakVars, part>>
CachesTurn ==
  /\ part = "caches" /\ CachesNext
  /\ UNCHANGED <<audibleVars, liberationVars, kindleVars, streakVars, part>>
StreaksTurn ==
  /\ part = "streaks" /\ StreakNext
  /\ UNCHANGED <<audibleVars, liberationVars, kindleVars, cacheVars, part>>

Next == AudibleTurn \/ LiberationTurn \/ KindleTurn \/ CachesTurn \/ StreaksTurn

Spec == Init /\ [][Next]_vars

\* Every variable of the component that runs has the shape the code gives it.
TypeOK ==
  /\ part = "audible" => AudibleTypeOK
  /\ part = "liberation" => LiberationTypeOK
  /\ part = "kindle" => KindleTypeOK
  /\ part = "caches" => CachesTypeOK
  /\ part = "streaks" => StreakTypeOK
=============================================================================
