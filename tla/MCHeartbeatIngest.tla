------------------------- MODULE MCHeartbeatIngest -------------------------
(***************************************************************************)
(* An instance of HeartbeatIngest for TLC: five beats, two of one instant, *)
(* one of them a workout, and two writers.  A behaviour is of one part.    *)
(* In `turns` one writer runs every operation, and only curation, a single *)
(* statement, comes in between.  In `overlap` the statements of two        *)
(* writers, which save single beats and resync, interleave.                *)
(***************************************************************************)
EXTENDS HeartbeatIngest, TLC

CONSTANTS b1, b2, b3, b4, b5, w1, w2, la, lb,
          MaxTurns,      \* bound: operations of a behaviour in turns
          OverlapBeats   \* bound: the beats that overlapping writers save

VARIABLE part

Instants == b1 :> 1 @@ b2 :> 2 @@ b3 :> 2 @@ b4 :> 3 @@ b5 :> 6

MCTimeOf == [b \in Beats |-> Instants[b]]

LabelSymmetry == Permutations(Labels)

MCInit == Init /\ part \in {"turns", "overlap"}

Turn ==
  /\ part = "turns"
  /\ Writing(w1) \/ Curating
  /\ ops' <= MaxTurns

\* Writers differ in nothing but their names: when none runs, w1 is the next.
Overlap ==
  /\ part = "overlap"
  /\ \E w \in Writers :
       \/ /\ w = w1 \/ Open # {}
          /\ Save(w, "ingest") \/ ResyncDerived(w)
          /\ \E b \in OverlapBeats : DOMAIN tx'[w].batch \subseteq {b}
       \/ Statement(w) \/ Commit(w) \/ Rollback(w)

MCNext == (Turn \/ Overlap) /\ UNCHANGED part

MCSpec == MCInit /\ [][MCNext]_<<vars, part>>
=============================================================================
