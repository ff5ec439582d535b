--------------------------- MODULE HeartbeatIngest ---------------------------
(***************************************************************************)
(* Writers of one sender's heartbeats: POST heartbeats(.bulk), the wakatime *)
(* importer, POST workouts, the derived-data resync, the timezone setting   *)
(* and the curation rules that rewrite or delete rows.  Each is a sequence  *)
(* of statements in a READ COMMITTED transaction of PostgreSQL:             *)
(*                                                                          *)
(*   - a statement sees what is committed when it starts, and the writes of *)
(*     its own transaction;                                                 *)
(*   - it waits for rows another open transaction has written, and then     *)
(*     writes the values it computed before it waited;                      *)
(*   - a key that is taken makes the INSERT of the rollup fail.             *)
(*                                                                          *)
(* Statements whose result depends on that wait are split in a read and a   *)
(* write.  A transaction may fail at any point: a statement, the connection *)
(* or the client, and a circle of waits that PostgreSQL breaks.             *)
(***************************************************************************)
EXTENDS HeartbeatStore

CONSTANTS Writers,
          Kinds,      \* which operations the instance offers
          MaxBatch,   \* bound: beats of a batch
          MaxOps      \* bound: operations

ASSUME IngestAssumption ==
  /\ Kinds \subseteq {"ingest", "raw", "workout", "resync", "zone", "rename", "purge"}
  /\ MaxBatch \in Nat /\ MaxOps \in Nat
  /\ 0 \in Zones

VARIABLES
  beats,    \* heartbeats, committed
  rollup,   \* hb_rollup_daily, committed
  zone,     \* users.timezone
  tx,       \* the writers
  stale,    \* history: derived data that nobody promises to be exact
  ops       \* operations so far

vars == <<beats, rollup, zone, tx, stale, ops>>

Keys == {<<Day(TimeOf[b], z), l>> : b \in Beats, z \in Zones, l \in Labels}

Nothing == [x \in {} |-> 0]

\* A writer that runs nothing.  own, cleared, made: its uncommitted rows of
\* heartbeats, the keys of the rollup it has deleted and the rows of it it has
\* inserted.  gaps, doomed, fill: what a statement that waits is about to write.
\* alone: no other operation ran at the same time.
Idle == [pc |-> "idle", kind |-> "none", batch |-> Nothing, since |-> 0, until |-> 0,
         zone |-> 0, own |-> Nothing, gaps |-> Nothing, doomed |-> {}, cleared |-> {},
         fill |-> Nothing, made |-> Nothing, alone |-> TRUE]

Open == {w \in Writers : tx[w].pc # "idle"}
Others(w) == Writers \ {w}

View(w) == Over(tx[w].own, beats)

\* Rows of heartbeats that other transactions have written.
Locked(w) == UNION {DOMAIN tx[v].own : v \in Others(w)}

TypeOK ==
  /\ IsTable(beats, Beats, Row)
  /\ IsTable(rollup, Keys, Nat)
  /\ zone \in Zones
  /\ DOMAIN tx = Writers
  /\ \A w \in Writers :
       /\ DOMAIN tx[w] = DOMAIN Idle
       /\ IsTable(tx[w].batch, Beats, Labels)
       /\ IsTable(tx[w].own, Beats, Row)
       /\ IsTable(tx[w].gaps, Beats, Nat \cup {NoGap})
       /\ tx[w].doomed \cup tx[w].cleared \subseteq DOMAIN rollup
       /\ IsTable(tx[w].fill, Keys, Nat) /\ IsTable(tx[w].made, Keys, Nat)
       /\ tx[w].zone \in Zones
  /\ stale \subseteq {"gaps", "rollup"}
  /\ ops \in 0..MaxOps

Init ==
  /\ beats = Nothing
  /\ rollup = Nothing
  /\ zone = 0
  /\ tx = [w \in Writers |-> Idle]
  /\ stale = {}
  /\ ops = 0

-----------------------------------------------------------------------------
(* Starting an operation.                                                  *)

Batches(S) ==
  UNION {[D -> Labels] : D \in {B \in SUBSET S : B # {} /\ Cardinality(B) <= MaxBatch}}

Begin(w, kind, t) ==
  /\ kind \in Kinds
  /\ tx[w].pc = "idle"
  /\ ops < MaxOps
  /\ ops' = ops + 1
  /\ tx' = [v \in Writers |->
       IF v = w THEN [t EXCEPT !.kind = kind, !.alone = (Open = {})]
       ELSE IF tx[v].pc = "idle" THEN tx[v] ELSE [tx[v] EXCEPT !.alone = FALSE]]

\* SaveHeartbeats, SaveHeartbeatsRaw and SaveWorkouts.
Save(w, kind) ==
  /\ kind \in {"ingest", "raw", "workout"}
  /\ \E batch \in Batches(IF kind = "workout" THEN Workouts ELSE Beats \ Workouts) :
       LET times == {TimeOf[b] : b \in DOMAIN batch} IN
       Begin(w, kind, [Idle EXCEPT !.pc = "insert", !.batch = batch,
                                   !.since = Min(times), !.until = Max(times)])
  /\ UNCHANGED <<beats, rollup, zone, stale>>

\* ResyncDerived: first the gaps, then the rollup, each committed by itself.
ResyncDerived(w) ==
  /\ Begin(w, "resync", [Idle EXCEPT !.pc = "gaps"])
  /\ UNCHANGED <<beats, rollup, zone, stale>>

\* UpdateTimezone: the zone is committed before the rollup is rebuilt.
UpdateTimezone(w, z) ==
  /\ Begin(w, "zone", [Idle EXCEPT !.pc = "delete"])
  /\ zone' = z
  /\ stale' = stale \cup {"rollup"}
  /\ UNCHANGED <<beats, rollup>>

-----------------------------------------------------------------------------
(* The statements.                                                         *)

\* The upsert waits for rows of other transactions with the same key.
InsertHeartbeats(w) ==
  /\ tx[w].pc = "insert"
  /\ DOMAIN tx[w].batch \cap Locked(w) = {}
  /\ tx' = [tx EXCEPT ![w].own = Upserted(beats, tx[w].batch),
                      ![w].pc = IF tx[w].kind = "raw" THEN "commit" ELSE "gaps"]
  /\ UNCHANGED <<beats, rollup, zone, stale, ops>>

\* recomputeGapsUntil computes its rows ...
ReadGaps(w) ==
  /\ tx[w].pc = "gaps"
  /\ \E g \in RecomputedGaps(DOMAIN View(w), tx[w].since,
                             tx[w].kind = "ingest", tx[w].until) :
       tx' = [tx EXCEPT ![w].gaps = g, ![w].pc = "gapsWait"]
  /\ UNCHANGED <<beats, rollup, zone, stale, ops>>

\* ... and writes them once nobody else holds them, to the latest version of
\* every row that is still there.
Regapped(w) ==
  [b \in DOMAIN tx[w].gaps \cap DOMAIN View(w) |->
     [View(w)[b] EXCEPT !.gap = tx[w].gaps[b]]]

WriteGaps(w) ==
  /\ tx[w].pc = "gapsWait"
  /\ DOMAIN tx[w].gaps \cap Locked(w) = {}
  /\ IF tx[w].kind = "resync"
       THEN /\ beats' = Over(Regapped(w), beats)
            /\ stale' = {"rollup"} \cup (IF tx[w].alone THEN {} ELSE {"gaps"})
            /\ tx' = [tx EXCEPT ![w].pc = "delete"]
       ELSE /\ tx' = [tx EXCEPT ![w].own = Over(Regapped(w), @), ![w].pc = "delete"]
            /\ UNCHANGED <<beats, stale>>
  /\ UNCHANGED <<rollup, zone, ops>>

\* Mutated form of DeleteFrom: the day of `since` is taken in UTC.
DeleteFrom_UTC(w) == Day(tx[w].since, 0)

DeleteFrom(w) == Day(tx[w].since, zone)

\* refreshRollup: the zone is read, then the DELETE finds its rows ...
ReadRollup(w) ==
  /\ tx[w].pc = "delete"
  /\ tx' = [tx EXCEPT ![w].zone = zone, ![w].pc = "deleteWait",
                      ![w].doomed = {k \in DOMAIN rollup : k[1] >= DeleteFrom(w)}]
  /\ UNCHANGED <<beats, rollup, zone, stale, ops>>

\* ... waits for the transactions that are deleting them, and deletes what
\* those have left.
DeleteRollup(w) ==
  /\ tx[w].pc = "deleteWait"
  /\ \A v \in Others(w) : tx[w].doomed \cap tx[v].cleared = {}
  /\ tx' = [tx EXCEPT ![w].cleared = tx[w].doomed, ![w].doomed = {}, ![w].pc = "fill"]
  /\ UNCHANGED <<beats, rollup, zone, stale, ops>>

\* INSERT ... SELECT: the rows are aggregated ...
AggregateRows(w) ==
  /\ tx[w].pc = "fill"
  /\ tx' = [tx EXCEPT ![w].fill = Aggregate(View(w), Day(tx[w].since, tx[w].zone), tx[w].zone),
                      ![w].pc = "fillWait"]
  /\ UNCHANGED <<beats, rollup, zone, stale, ops>>

Blocked(w) ==
  \E v \in Others(w) : DOMAIN tx[w].fill \cap (DOMAIN tx[v].made \cup tx[v].cleared) # {}

\* Mutated form of FillRollup: ON CONFLICT DO UPDATE.
FillRollup_Upsert(w) ==
  /\ tx[w].pc = "fillWait"
  /\ ~ Blocked(w)
  /\ tx' = [tx EXCEPT ![w].made = tx[w].fill, ![w].fill = Nothing, ![w].pc = "commit"]
  /\ UNCHANGED <<beats, rollup, zone, stale, ops>>

\* ... and inserted once nobody else holds their keys.  A key that is taken is
\* an error, and leaves only Rollback.
FillRollup(w) ==
  /\ tx[w].pc = "fillWait"
  /\ ~ Blocked(w)
  /\ DOMAIN tx[w].fill \cap (DOMAIN rollup \ tx[w].cleared) = {}
  /\ tx' = [tx EXCEPT ![w].made = tx[w].fill, ![w].fill = Nothing, ![w].pc = "commit"]
  /\ UNCHANGED <<beats, rollup, zone, stale, ops>>

\* The batch moves a row that was there to another key of the rollup.
Moves(w) == \E b \in DOMAIN tx[w].batch \cap DOMAIN beats : beats[b].label # tx[w].batch[b]

\* What a commit leaves to be repaired, and what it repairs.
StaleAfter(w) ==
  LET rebuilds == tx[w].kind \in {"resync", "zone"} IN
  IF tx[w].kind = "raw" THEN {"gaps", "rollup"}
  ELSE IF tx[w].alone THEN IF rebuilds THEN stale \ {"rollup"} ELSE stale
  ELSE stale \cup {"gaps"} \cup (IF rebuilds \/ Moves(w) THEN {"rollup"} ELSE {})

Commit(w) ==
  /\ tx[w].pc = "commit"
  /\ beats' = Over(tx[w].own, beats)
  /\ rollup' = Over(tx[w].made, Without(rollup, tx[w].cleared))
  /\ stale' = StaleAfter(w)
  /\ tx' = [v \in Writers |-> IF v = w THEN Idle
                              ELSE [tx[v] EXCEPT !.doomed = @ \ tx[w].cleared]]
  /\ UNCHANGED <<zone, ops>>

\* A statement fails, or the client goes away and takes the context with it.
Rollback(w) ==
  /\ tx[w].pc # "idle"
  /\ tx' = [tx EXCEPT ![w] = Idle]
  /\ UNCHANGED <<beats, rollup, zone, stale, ops>>

-----------------------------------------------------------------------------
(* Curation rules: one statement on heartbeats, which waits for the rows it *)
(* finds, and no refresh of the derived data.                              *)

Curate(kind, matching) ==
  /\ kind \in Kinds
  /\ ops < MaxOps
  /\ ops' = ops + 1
  /\ \A w \in Writers : matching \cap DOMAIN tx[w].own = {}
  /\ tx' = [w \in Writers |-> IF tx[w].pc = "idle" THEN tx[w]
                              ELSE [tx[w] EXCEPT !.alone = FALSE]]
  /\ UNCHANGED <<rollup, zone>>

Matching(l) == {b \in DOMAIN beats : beats[b].label = l}

ApplyRenameRule(l, m) ==
  /\ Curate("rename", Matching(l))
  /\ beats' = Over([b \in Matching(l) |-> [beats[b] EXCEPT !.label = m]], beats)
  /\ stale' = stale \cup {"rollup"}

PurgeHiddenRule(l) ==
  /\ Curate("purge", Matching(l))
  /\ beats' = Without(beats, Matching(l))
  /\ stale' = {"gaps", "rollup"}

-----------------------------------------------------------------------------
Start(w) ==
  \/ \E kind \in Kinds : Save(w, kind)
  \/ ResyncDerived(w)
  \/ \E z \in Zones : UpdateTimezone(w, z)

Statement(w) ==
  \/ InsertHeartbeats(w) \/ ReadGaps(w) \/ WriteGaps(w)
  \/ ReadRollup(w) \/ DeleteRollup(w) \/ AggregateRows(w) \/ FillRollup(w)

Writing(w) == Start(w) \/ Statement(w) \/ Commit(w) \/ Rollback(w)

Curating ==
  \/ \E l, m \in Labels : ApplyRenameRule(l, m)
  \/ \E l \in Labels : PurgeHiddenRule(l)

Next == (\E w \in Writers : Writing(w)) \/ Curating

Spec == Init /\ [][Next]_vars

-----------------------------------------------------------------------------
(* Properties.                                                             *)

Quiet == Open = {}

\* The bounded window is enough (ingest.go, recomputeGapsUntil: "Correctness
\* is unchanged"): whatever the order in which batches arrive, and whatever
\* fails, gaps are exact unless transactions overlapped or rows came and went
\* without maintenance - and a resync that runs alone makes them exact again.
GapsAreExact == Quiet /\ "gaps" \notin stale => ExactGaps(beats)

\* The rollup is the aggregate of the rows as they are, in any zone: refreshing
\* from the local day of the earliest beat on leaves no day of it wrong, and of
\* two saves that overlap the primary key lets only one count a key.  Exempt are
\* rows that changed without a refresh and rebuilds, and batches that move rows,
\* while others write; a rebuild that runs alone repairs it.
RollupIsExact == Quiet /\ "rollup" \notin stale => ExactRollup(beats, rollup, zone)
=============================================================================
