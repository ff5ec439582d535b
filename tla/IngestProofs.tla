---------------------------- MODULE IngestProofs ----------------------------
(***************************************************************************)
(* Gaps and rollup: for any finite set of beats, any number of writers,    *)
(* any zones, gap limit and day length, and whatever fails, the derived    *)
(* data is exact unless it is in `stale`.                                  *)
(*                                                                         *)
(* Gaps.  While a save runs alone nobody else writes, so what it will      *)
(* commit is known: GapsHold follows its own view from the upsert over the *)
(* recomputed gaps to the commit.  The heart is WindowIsEnough: gaps       *)
(* recomputed in the bounded window make the whole table exact.            *)
(*                                                                         *)
(* Rollup.  Writers overlap here.  Locks says which rows and keys no two   *)
(* of them hold; Refreshes says of a writer that what it is about to       *)
(* insert still is the aggregate of what it will commit, key by key, or    *)
(* that the key is taken and the INSERT must fail.                         *)
(***************************************************************************)
EXTENDS HeartbeatIngest, FiniteSums

Tables(S, T) == UNION {[D -> T] : D \in SUBSET S}

-----------------------------------------------------------------------------
(* Tables.                                                                 *)

LEMMA TableIs ==
  \A S, T, f : f \in Tables(S, T) <=> /\ DOMAIN f \subseteq S
                                      /\ f = [x \in DOMAIN f |-> f[x]]
                                      /\ \A x \in DOMAIN f : f[x] \in T
BY DEF Tables

LEMMA OverIs ==
  \A f, g : /\ DOMAIN Over(g, f) = DOMAIN f \cup DOMAIN g
            /\ \A x \in DOMAIN f \cup DOMAIN g :
                 Over(g, f)[x] = IF x \in DOMAIN g THEN g[x] ELSE f[x]
BY DEF Over

LEMMA OverIsFunction ==
  \A f, g : Over(g, f) = [x \in DOMAIN Over(g, f) |-> Over(g, f)[x]]
BY DEF Over

LEMMA OverIsTable ==
  ASSUME NEW S, NEW T, NEW f \in Tables(S, T), NEW g \in Tables(S, T)
  PROVE  Over(g, f) \in Tables(S, T)
<1>1. /\ DOMAIN f \subseteq S /\ \A x \in DOMAIN f : f[x] \in T
      /\ DOMAIN g \subseteq S /\ \A x \in DOMAIN g : g[x] \in T
  BY TableIs
<1>2. DOMAIN Over(g, f) = DOMAIN f \cup DOMAIN g
  BY OverIs
<1>3. ASSUME NEW x \in DOMAIN Over(g, f) PROVE Over(g, f)[x] \in T
  <2>1. Over(g, f)[x] = IF x \in DOMAIN g THEN g[x] ELSE f[x]
    BY <1>2, OverIs
  <2> QED BY <1>1, <1>2, <2>1
<1>4. DOMAIN Over(g, f) \subseteq S
  BY <1>1, <1>2
<1> QED BY <1>3, <1>4, OverIsFunction, TableIs

LEMMA NothingIsTable ==
  ASSUME NEW S, NEW T
  PROVE  Nothing \in Tables(S, T) /\ DOMAIN Nothing = {}
<1>1. DOMAIN Nothing = {} /\ Nothing = [x \in DOMAIN Nothing |-> Nothing[x]]
  BY DEF Nothing
<1> QED BY <1>1, TableIs

LEMMA NothingOver ==
  ASSUME NEW f, f = [x \in DOMAIN f |-> f[x]]
  PROVE  Over(Nothing, f) = f
BY DEF Over, Nothing

-----------------------------------------------------------------------------
(* Instants.                                                               *)

LEMMA EarlierIs ==
  ASSUME NEW S \in SUBSET Beats, NEW t \in Nat
  PROVE  /\ \A n : n \in Earlier(S, t) <=> \E c \in S : TimeOf[c] = n /\ n < t
         /\ \A n \in Earlier(S, t) : n \in Nat
         /\ IsFiniteSet(Earlier(S, t))
<1>1. \A b \in Beats : TimeOf[b] \in Nat
  BY HeartbeatAssumption
<1>2. \A n : n \in Earlier(S, t) <=> \E c \in S : TimeOf[c] = n /\ n < t
  BY DEF Earlier
<1>3. IsFiniteSet(Earlier(S, t))
  <2> DEFINE C == {c \in S : TimeOf[c] < t}
  <2>1. IsFiniteSet(C) /\ C \in SUBSET DOMAIN TimeOf
    BY HeartbeatAssumption, FS_Subset
  <2>2. Earlier(S, t) = {TimeOf[b] : b \in C}
    BY DEF Earlier
  <2> HIDE DEF C
  <2> QED BY <2>1, <2>2, ImageIsFinite
<1> QED BY <1>1, <1>2, <1>3

LEMMA LastBefore ==
  ASSUME NEW S \in SUBSET Beats, NEW t \in Nat, Earlier(S, t) # {}
  PROVE  /\ Max(Earlier(S, t)) \in Earlier(S, t)
         /\ \A n \in Earlier(S, t) : n <= Max(Earlier(S, t))
         /\ \A m \in Earlier(S, t) : (\A n \in Earlier(S, t) : n <= m) => m = Max(Earlier(S, t))
<1>1. (\A n \in Earlier(S, t) : n \in Int) /\ IsFiniteSet(Earlier(S, t))
  BY EarlierIs
<1> QED BY <1>1, MaxOfFinite

\* A smaller set of beats has the same last beat before t if it has that beat.
LEMMA SameLastBefore ==
  ASSUME NEW S \in SUBSET Beats, NEW T \in SUBSET S, NEW t \in Nat,
         Earlier(S, t) # {} => Max(Earlier(S, t)) \in Earlier(T, t)
  PROVE  /\ Earlier(T, t) = {} <=> Earlier(S, t) = {}
         /\ Earlier(S, t) # {} => Max(Earlier(T, t)) = Max(Earlier(S, t))
<1>1. T \in SUBSET Beats /\ \A n : n \in Earlier(T, t) => n \in Earlier(S, t)
  BY EarlierIs
<1>2. CASE Earlier(S, t) = {}
  BY <1>1, <1>2
<1>3. CASE Earlier(S, t) # {}
  <2>1. \A n \in Earlier(T, t) : n <= Max(Earlier(S, t))
    BY <1>1, <1>3, LastBefore
  <2>2. Max(Earlier(S, t)) \in Earlier(T, t)
    BY <1>3
  <2> HIDE DEF Earlier
  <2>3. Max(Earlier(S, t)) = Max(Earlier(T, t))
    BY <1>1, <2>1, <2>2, LastBefore
  <2> QED BY <1>3, <2>2, <2>3
<1> QED BY <1>2, <1>3

\* lag(time_sent) is a gap: nothing, or a time span.
LEMMA LagIsGap ==
  ASSUME NEW S \in SUBSET Beats, NEW lead, NEW b \in Beats
  PROVE  Lag(S, lead, b) \in Nat \cup {NoGap}
<1>1. TimeOf[b] \in Nat
  BY HeartbeatAssumption
<1>2. ASSUME Earlier(S, TimeOf[b]) # {} PROVE TimeOf[b] - Max(Earlier(S, TimeOf[b])) \in Nat
  <2>1. Max(Earlier(S, TimeOf[b])) \in Earlier(S, TimeOf[b])
    BY <1>1, <1>2, LastBefore
  <2>2. Max(Earlier(S, TimeOf[b])) \in Nat /\ Max(Earlier(S, TimeOf[b])) < TimeOf[b]
    BY <1>1, <2>1, EarlierIs
  <2> QED BY <1>1, <2>2
<1> QED BY <1>1, <1>2 DEF Lag

-----------------------------------------------------------------------------
(* The window.  Of the rows S, the UPDATE assigns the gaps of Assigned.    *)

Assigned(S, since, bounded, until) ==
  {b \in Window(S, since, bounded, until) : TimeOf[b] >= since}

\* The anchor is the last instant before the window's first one.
LEMMA AnchorIs ==
  ASSUME NEW S \in SUBSET Beats, NEW t \in Nat
  PROVE  /\ Anchor(S, t) \in Int /\ Anchor(S, t) < t
         /\ \A n \in Earlier(S, t) : n <= Anchor(S, t)
         /\ \A c \in S : TimeOf[c] < t => TimeOf[c] <= Anchor(S, t)
         /\ Earlier(S, t) = {} => Anchor(S, t) = -1
         /\ Earlier(S, t) # {} => Anchor(S, t) \in Earlier(S, t)
<1>1. CASE Earlier(S, t) = {}
  BY <1>1, EarlierIs, HeartbeatAssumption DEF Anchor
<1>2. CASE Earlier(S, t) # {}
  <2>1. Anchor(S, t) = Max(Earlier(S, t))
    BY <1>2 DEF Anchor
  <2>2. Anchor(S, t) \in Earlier(S, t) /\ \A n \in Earlier(S, t) : n <= Anchor(S, t)
    BY <1>2, <2>1, LastBefore
  <2>3. \A c \in S : TimeOf[c] < t => TimeOf[c] \in Earlier(S, t)
    BY EarlierIs
  <2>4. Anchor(S, t) \in Nat /\ Anchor(S, t) < t
    BY <2>2, EarlierIs
  <2> QED BY <1>2, <2>2, <2>3, <2>4
<1> QED BY <1>1, <1>2

\* The window is a matter of instants, and reaches back before every instant
\* it assigns to.
LEMMA WindowIs ==
  ASSUME NEW S \in SUBSET Beats, NEW since \in Nat, NEW bounded \in BOOLEAN, NEW until \in Nat,
         NEW b \in Assigned(S, since, bounded, until)
  PROVE  /\ b \in S /\ since <= TimeOf[b]
         /\ b \in Window(S, since, bounded, until)
         /\ \A c \in S : TimeOf[c] = TimeOf[b] => c \in Assigned(S, since, bounded, until)
         /\ \A c \in S : TimeOf[c] >= Anchor(S, since) /\ TimeOf[c] < TimeOf[b]
                           => c \in Window(S, since, bounded, until)
<1>1. \A x \in S : TimeOf[x] \in Nat
  BY HeartbeatAssumption
<1>2. /\ b \in S /\ TimeOf[b] >= since /\ TimeOf[b] >= Anchor(S, since)
      /\ bounded => WithinHorizon(S, b, until)
  BY DEF Assigned, Window
<1>3. Anchor(S, since) \in Int
  BY AnchorIs
<1>4. \A t \in Later(S, until) : t \in Nat
  BY <1>1 DEF Later
<1>5. \A c \in S : TimeOf[c] <= TimeOf[b] => (bounded => WithinHorizon(S, c, until))
  BY <1>1, <1>2, <1>4 DEF WithinHorizon
<1> QED BY <1>1, <1>2, <1>3, <1>5 DEF Assigned, Window

\* Within the window, the beat before an assigned one is the beat before it.
LEMMA WindowReachesBack ==
  ASSUME NEW S \in SUBSET Beats, NEW since \in Nat, NEW bounded \in BOOLEAN, NEW until \in Nat,
         NEW b \in Assigned(S, since, bounded, until), NEW lead, NEW L, b \in lead <=> b \in L
  PROVE  Lag(Window(S, since, bounded, until), lead, b) = Lag(S, L, b)
<1> DEFINE W == Window(S, since, bounded, until)
           t == TimeOf[b]
<1>1. t \in Nat /\ since <= t /\ W \in SUBSET S /\ b \in S
  BY WindowIs, HeartbeatAssumption DEF Window
<1>2. ASSUME Earlier(S, t) # {} PROVE Max(Earlier(S, t)) \in Earlier(W, t)
  <2>1. /\ Max(Earlier(S, t)) \in Earlier(S, t)
        /\ \A n \in Earlier(S, t) : n <= Max(Earlier(S, t))
    BY <1>1, <1>2, LastBefore
  <2>2. PICK c \in S : TimeOf[c] = Max(Earlier(S, t)) /\ TimeOf[c] < t
    BY <1>1, <2>1, EarlierIs
  <2>3. TimeOf[c] >= Anchor(S, since)
    <3>1. CASE Earlier(S, since) = {}
      BY <3>1, AnchorIs, HeartbeatAssumption
    <3>2. CASE Earlier(S, since) # {}
      <4>1. Anchor(S, since) \in Earlier(S, since)
        BY <3>2, AnchorIs
      <4>2. PICK a \in S : TimeOf[a] = Anchor(S, since) /\ TimeOf[a] < since
        BY <4>1, EarlierIs
      <4>3. TimeOf[a] < t /\ TimeOf[a] \in Nat
        BY <1>1, <4>2, HeartbeatAssumption
      <4>4. TimeOf[a] \in Earlier(S, t)
        BY <1>1, <4>3, EarlierIs
      <4> QED BY <2>1, <2>2, <4>2, <4>4
    <3> QED BY <3>1, <3>2
  <2>4. c \in W
    BY <2>2, <2>3, WindowIs
  <2> QED BY <1>1, <2>2, <2>4, EarlierIs
<1> HIDE DEF W
<1>3. /\ Earlier(W, t) = {} <=> Earlier(S, t) = {}
      /\ Earlier(S, t) # {} => Max(Earlier(W, t)) = Max(Earlier(S, t))
  BY <1>1, <1>2, SameLastBefore
<1> QED BY <1>3 DEF Lag, W

LEMMA AssignedAre ==
  ASSUME NEW S \in SUBSET Beats, NEW since \in Nat, NEW bounded \in BOOLEAN, NEW until \in Nat
  PROVE  /\ Assigned(S, since, bounded, until) \subseteq Window(S, since, bounded, until)
         /\ Window(S, since, bounded, until) \subseteq S
         /\ \A b \in Window(S, since, bounded, until) :
              TimeOf[b] >= since => b \in Assigned(S, since, bounded, until)
BY DEF Assigned, Window

\* Outside of the assigned rows are old ones, whose beat before is an old one.
LEMMA OthersKeepTheirLag ==
  ASSUME NEW S \in SUBSET Beats, NEW old \in SUBSET S, NEW since \in Nat,
         NEW bounded \in BOOLEAN, NEW until \in Nat,
         \A b \in S \ old : since <= TimeOf[b] /\ TimeOf[b] <= until,
         NEW b \in S \ Assigned(S, since, bounded, until), NEW lead, NEW L, b \in lead <=> b \in L
  PROVE  b \in old /\ Lag(old, lead, b) = Lag(S, L, b)
<1> DEFINE t == TimeOf[b]
<1>1. (\A x \in S : TimeOf[x] \in Nat) /\ t \in Nat /\ b \in S
  BY HeartbeatAssumption
<1>2. Anchor(S, since) < since /\ Anchor(S, since) \in Int
  BY AnchorIs
<1>3. \/ t < since
      \/ \E e \in S : TimeOf[e] > until /\ t > TimeOf[e]
  <2> SUFFICES ASSUME t >= since PROVE \E e \in S : TimeOf[e] > until /\ t > TimeOf[e]
    BY <1>1
  <2>1. bounded /\ ~ WithinHorizon(S, b, until)
    BY <1>1, <1>2 DEF Assigned, Window
  <2>2. PICK u \in Later(S, until) : ~ (t <= u)
    BY <2>1 DEF WithinHorizon
  <2>3. PICK e \in S : TimeOf[e] = u /\ TimeOf[e] > until
    BY <2>2 DEF Later
  <2> QED BY <1>1, <2>2, <2>3
<1>4. b \in old
  BY <1>1, <1>3
<1>5. ASSUME Earlier(S, t) # {} PROVE Max(Earlier(S, t)) \in Earlier(old, t)
  <2>1. /\ Max(Earlier(S, t)) \in Earlier(S, t)
        /\ \A n \in Earlier(S, t) : n <= Max(Earlier(S, t))
    BY <1>1, <1>5, LastBefore
  <2>2. PICK c \in S : TimeOf[c] = Max(Earlier(S, t)) /\ TimeOf[c] < t
    BY <1>1, <2>1, EarlierIs
  <2>3. c \in old
    <3>1. CASE t < since
      BY <1>1, <2>2, <3>1
    <3>2. CASE \E e \in S : TimeOf[e] > until /\ t > TimeOf[e]
      <4>1. PICK e \in S : TimeOf[e] > until /\ t > TimeOf[e]
        BY <3>2
      <4>2. TimeOf[e] \in Earlier(S, t)
        BY <1>1, <4>1, EarlierIs
      <4>3. TimeOf[e] <= TimeOf[c]
        BY <2>1, <2>2, <4>2
      <4> QED BY <1>1, <4>1, <4>3
    <3> QED BY <1>3, <3>1, <3>2
  <2>4. old \in SUBSET Beats
    OBVIOUS
  <2> QED BY <1>1, <2>2, <2>3, <2>4, EarlierIs
<1>6. /\ Earlier(old, t) = {} <=> Earlier(S, t) = {}
      /\ Earlier(S, t) # {} => Max(Earlier(old, t)) = Max(Earlier(S, t))
  BY <1>1, <1>5, SameLastBefore
<1> QED BY <1>4, <1>6 DEF Lag

\* The bounded window is enough: gaps recomputed for it make a table exact
\* that was exact before rows between `since` and `until` were added.
LEMMA WindowIsEnough ==
  ASSUME NEW old, DOMAIN old \subseteq Beats, ExactGaps(old),
         NEW S \in SUBSET Beats, DOMAIN old \subseteq S,
         NEW since \in Nat, NEW bounded \in BOOLEAN, NEW until \in Nat,
         \A b \in S \ DOMAIN old : since <= TimeOf[b] /\ TimeOf[b] <= until,
         NEW g \in RecomputedGaps(S, since, bounded, until),
         NEW new, DOMAIN new = S,
         \A b \in DOMAIN g : new[b].gap = g[b],
         \A b \in DOMAIN old \ DOMAIN g : new[b].gap = old[b].gap
  PROVE  ExactGaps(new)
<1> DEFINE W == Window(S, since, bounded, until)
           G == Assigned(S, since, bounded, until)
<1>1. PICK lead \in Leaders(W) : g = [b \in G |-> Lag(W, lead, b)]
  BY DEF RecomputedGaps, Assigned
<1>2. PICK was \in Leaders(DOMAIN old) :
        \A b \in DOMAIN old : old[b].gap = Lag(DOMAIN old, was, b)
  BY DEF ExactGaps
<1> DEFINE L == (lead \cap G) \cup (was \ G)
<1>3. G \subseteq W /\ W \subseteq S /\ \A b \in W : TimeOf[b] >= since => b \in G
  BY AssignedAre
<1>4. \A b \in G : since <= TimeOf[b] /\ \A c \in S : TimeOf[c] = TimeOf[b] => c \in G
  BY WindowIs
<1>5. \A b \in S \ G : b \in DOMAIN old
  BY OthersKeepTheirLag
<1>6. /\ lead \subseteq W /\ \A b \in W : Cardinality({c \in lead : TimeOf[c] = TimeOf[b]}) = 1
      /\ was \subseteq DOMAIN old
      /\ \A b \in DOMAIN old : Cardinality({c \in was : TimeOf[c] = TimeOf[b]}) = 1
  BY <1>1, <1>2 DEF Leaders
<1> HIDE DEF W, G
<1>7. L \in Leaders(S)
  <2>1. ASSUME NEW b \in S PROVE Cardinality({c \in L : TimeOf[c] = TimeOf[b]}) = 1
    <3>1. CASE b \in G
      <4>1. {c \in L : TimeOf[c] = TimeOf[b]} = {c \in lead : TimeOf[c] = TimeOf[b]}
        BY <1>3, <1>4, <1>6, <3>1
      <4> QED BY <1>3, <1>6, <3>1, <4>1
    <3>2. CASE b \notin G
      <4>1. {c \in L : TimeOf[c] = TimeOf[b]} = {c \in was : TimeOf[c] = TimeOf[b]}
        BY <1>3, <1>4, <1>6, <3>2
      <4> QED BY <1>5, <1>6, <3>2, <4>1
    <3> QED BY <3>1, <3>2
  <2>2. L \subseteq S
    BY <1>3, <1>6
  <2> QED BY <2>1, <2>2 DEF Leaders
<1>8. ASSUME NEW b \in S PROVE new[b].gap = Lag(S, L, b)
  <2>1. CASE b \in G
    <3>1. b \in lead <=> b \in L
      BY <2>1
    <3> HIDE DEF L
    <3>2. Lag(W, lead, b) = Lag(S, L, b)
      BY <2>1, <3>1, WindowReachesBack DEF W, G
    <3>3. b \in DOMAIN g /\ g[b] = Lag(W, lead, b)
      BY <1>1, <2>1
    <3> QED BY <3>2, <3>3
  <2>2. CASE b \notin G
    <3>1. b \in was <=> b \in L
      BY <2>2
    <3> HIDE DEF L
    <3>2. b \in DOMAIN old /\ Lag(DOMAIN old, was, b) = Lag(S, L, b)
      BY <2>2, <3>1, OthersKeepTheirLag DEF G
    <3>3. b \notin DOMAIN g
      BY <1>1, <2>2
    <3> QED BY <1>2, <3>2, <3>3
  <2> QED BY <2>1, <2>2
<1> HIDE DEF L
<1> QED BY <1>7, <1>8 DEF ExactGaps

\* Gaps recomputed from the beginning are exact whatever they were.
LEMMA FullWindowIsExact ==
  ASSUME NEW S \in SUBSET Beats, NEW until \in Nat,
         NEW g \in RecomputedGaps(S, 0, FALSE, until),
         NEW new, DOMAIN new = S, \A b \in DOMAIN g : new[b].gap = g[b]
  PROVE  ExactGaps(new)
<1>1. Earlier(S, 0) = {}
  <2>1. \A n \in Earlier(S, 0) : n \in Nat /\ n < 0
    BY EarlierIs
  <2> QED BY <2>1
<1>2. Anchor(S, 0) = -1
  BY <1>1, AnchorIs
<1>3. Window(S, 0, FALSE, until) = S /\ Assigned(S, 0, FALSE, until) = S
  BY <1>2, HeartbeatAssumption DEF Window, Assigned
<1>4. PICK lead \in Leaders(S) : g = [b \in S |-> Lag(S, lead, b)]
  BY <1>3 DEF RecomputedGaps, Assigned
<1> QED BY <1>4 DEF ExactGaps

-----------------------------------------------------------------------------
(* The rollup, key by key.                                                 *)

CountOf(t) == [b \in DOMAIN t |-> Counted(b, t[b])]

\* The rows a key of the rollup stands for, and the seconds it should have.
Rows(t, z, k) == {b \in DOMAIN t : RollupKey(b, t[b], z) = k}

Fresh(t, z, k) == SumOf(CountOf(t), Rows(t, z, k))

LEMMA CountsAreNat ==
  ASSUME NEW t \in Tables(Beats, Row)
  PROVE  \A b \in DOMAIN t : CountOf(t)[b] \in Nat
<1> SUFFICES ASSUME NEW b \in DOMAIN t PROVE Counted(b, t[b]) \in Nat
  BY DEF CountOf
<1>1. t[b] \in Row
  BY TableIs
<1>2. t[b].gap \in Nat \cup {NoGap}
  BY <1>1 DEF Row
<1> QED BY <1>2, HeartbeatAssumption DEF Counted

LEMMA CountedSum ==
  ASSUME NEW t, NEW S \in SUBSET DOMAIN t
  PROVE  MapThenSumSet(LAMBDA b : Counted(b, t[b]), S) = SumOf(CountOf(t), S)
<1> DEFINE A(g) == [s \in SUBSET S |-> IF s = {} THEN 0
                      ELSE Counted(First(s), t[First(s)]) + g[s \ {First(s)}]]
<1>1. MapThenSumSet(LAMBDA b : Counted(b, t[b]), S) = (CHOOSE g : g = A(g))[S]
  BY DEF MapThenSumSet, MapThenFoldSet, First
<1>2. \A g : A(g) = Unrolled(CountOf(t), S, g)
  <2>1. \A s \in SUBSET S : s # {} => CountOf(t)[First(s)] = Counted(First(s), t[First(s)])
    BY FirstIsMember DEF CountOf
  <2> QED BY <2>1 DEF Unrolled
<1>3. (CHOOSE g : g = A(g)) = (CHOOSE g : Solves(CountOf(t), S, g))
  <2>1. \A g : (g = A(g)) <=> Solves(CountOf(t), S, g)
    <3> HIDE DEF A
    <3> QED BY <1>2 DEF Solves
  <2> HIDE DEF A
  <2> QED BY <2>1, Zenon
<1> HIDE DEF A
<1> QED BY <1>1, <1>3, SumIsChosen

\* Day by day: later instants are of later days.
LEMMA DayIs ==
  ASSUME NEW t \in Nat, NEW z \in Nat
  PROVE  /\ Day(t, z) \in Nat
         /\ Day(t, z) * DayLength <= t + z
         /\ t + z < Day(t, z) * DayLength + DayLength
BY HeartbeatAssumption DEF Day

LEMMA DaysFollow ==
  ASSUME NEW t \in Nat, NEW u \in Nat, NEW z \in Nat, t <= u
  PROVE  Day(t, z) <= Day(u, z)
<1> DEFINE p == Day(t, z)
           q == Day(u, z)
<1>1. /\ p \in Nat /\ q \in Nat /\ DayLength \in Nat \ {0}
      /\ p * DayLength <= t + z /\ u + z < q * DayLength + DayLength
  BY DayIs, HeartbeatAssumption
<1> HIDE DEF p, q
<1>2. SUFFICES ASSUME q + 1 <= p PROVE FALSE
  BY <1>1 DEF p, q
<1>3. (q + 1) * DayLength <= p * DayLength
  BY <1>1, <1>2
<1>4. (q + 1) * DayLength = q * DayLength + DayLength
  BY <1>1
<1>5. p * DayLength \in Nat /\ q * DayLength \in Nat
  BY <1>1
<1> QED BY <1>1, <1>3, <1>4, <1>5

LEMMA AggregateIs ==
  ASSUME NEW t \in Tables(Beats, Row), NEW from \in Nat, NEW z \in Zones
  PROVE  /\ Aggregate(t, from, z) \in Tables(Keys, Nat)
         /\ \A b \in DOMAIN t : Day(TimeOf[b], z) >= from =>
              RollupKey(b, t[b], z) \in DOMAIN Aggregate(t, from, z)
         /\ \A k \in DOMAIN Aggregate(t, from, z) :
              /\ Rows(t, z, k) # {}
              /\ Aggregate(t, from, z)[k] = Fresh(t, z, k)
<1> DEFINE rows == {b \in DOMAIN t : Day(TimeOf[b], z) >= from}
           A == Aggregate(t, from, z)
<1>1. /\ DOMAIN t \subseteq Beats /\ IsFiniteSet(DOMAIN t)
      /\ \A b \in DOMAIN t : t[b] \in Row
  BY TableIs, FS_Subset, HeartbeatAssumption
<1>2. DOMAIN A = {RollupKey(b, t[b], z) : b \in rows}
  BY DEF Aggregate
<1>3. ASSUME NEW k \in DOMAIN A
      PROVE  k \in Keys /\ Rows(t, z, k) # {} /\ A[k] = Fresh(t, z, k) /\ A[k] \in Nat
  <2>1. PICK c \in rows : k = RollupKey(c, t[c], z)
    BY <1>2, <1>3
  <2>2. k \in Keys /\ c \in Rows(t, z, k)
    <3>1. t[c].label \in Labels
      BY <1>1 DEF Row
    <3> QED BY <1>1, <2>1, <3>1 DEF Keys, RollupKey, Rows
  <2>3. {b \in rows : RollupKey(b, t[b], z) = k} = Rows(t, z, k)
    <3>1. \A b \in DOMAIN t : RollupKey(b, t[b], z) = k => Day(TimeOf[b], z) = Day(TimeOf[c], z)
      BY <2>1 DEF RollupKey
    <3> QED BY <2>1, <3>1 DEF Rows
  <2>4. A[k] = MapThenSumSet(LAMBDA b : Counted(b, t[b]), Rows(t, z, k))
    <3>1. A[k] = MapThenSumSet(LAMBDA b : Counted(b, t[b]), {b \in rows : RollupKey(b, t[b], z) = k})
      BY <1>3 DEF Aggregate
    <3> HIDE DEF rows, A
    <3> QED BY <2>3, <3>1
  <2>5. A[k] = Fresh(t, z, k)
    <3>1. Rows(t, z, k) \in SUBSET DOMAIN t
      BY DEF Rows
    <3> HIDE DEF A
    <3> QED BY <2>4, <3>1, CountedSum DEF Fresh
  <2>6. Fresh(t, z, k) \in Nat
    <3>1. IsFiniteSet(Rows(t, z, k)) /\ \A b \in Rows(t, z, k) : CountOf(t)[b] \in Nat
      BY <1>1, FS_Subset, CountsAreNat DEF Rows
    <3> QED BY <3>1, SumIsNat DEF Fresh
  <2> QED BY <2>2, <2>5, <2>6
<1>4. A = [k \in DOMAIN A |-> A[k]]
  BY DEF Aggregate
<1>5. \A b \in DOMAIN t : Day(TimeOf[b], z) >= from => RollupKey(b, t[b], z) \in DOMAIN A
  BY <1>2
<1> HIDE DEF A
<1>6. A \in Tables(Keys, Nat)
  BY <1>3, <1>4, TableIs
<1> QED BY <1>3, <1>5, <1>6 DEF A

-----------------------------------------------------------------------------
(* Types.                                                                  *)

Stages == {"idle", "insert", "gaps", "gapsWait", "delete", "deleteWait",
           "fill", "fillWait", "commit"}

Tx == [pc : Stages, kind : Kinds \cup {"none"}, batch : Tables(Beats, Labels),
       since : Nat, until : Nat, zone : Zones, own : Tables(Beats, Row),
       gaps : Tables(Beats, Nat \cup {NoGap}), doomed : SUBSET Keys,
       cleared : SUBSET Keys, fill : Tables(Keys, Nat), made : Tables(Keys, Nat),
       alone : BOOLEAN]

Typed ==
  /\ beats \in Tables(Beats, Row)
  /\ rollup \in Tables(Keys, Nat)
  /\ zone \in Zones
  /\ tx \in [Writers -> Tx]
  /\ stale \subseteq {"gaps", "rollup"}
  /\ ops \in 0 .. MaxOps

LEMMA IdleIsTx == Idle \in Tx
<1>1. /\ Nothing \in Tables(Beats, Labels) /\ Nothing \in Tables(Beats, Row)
      /\ Nothing \in Tables(Beats, Nat \cup {NoGap}) /\ Nothing \in Tables(Keys, Nat)
  BY NothingIsTable
<1>2. 0 \in Zones
  BY IngestAssumption
<1> QED BY <1>1, <1>2 DEF Idle, Tx, Stages

LEMMA BatchIs ==
  ASSUME NEW S \in SUBSET Beats, NEW batch \in Batches(S)
  PROVE  /\ batch \in Tables(Beats, Labels)
         /\ DOMAIN batch \subseteq S
         /\ LET times == {TimeOf[b] : b \in DOMAIN batch}
            IN  /\ Min(times) \in Nat /\ Max(times) \in Nat
                /\ \A b \in DOMAIN batch : Min(times) <= TimeOf[b] /\ TimeOf[b] <= Max(times)
<1> DEFINE times == {TimeOf[b] : b \in DOMAIN batch}
<1>1. /\ DOMAIN batch \subseteq S /\ DOMAIN batch # {}
      /\ batch = [b \in DOMAIN batch |-> batch[b]]
      /\ \A b \in DOMAIN batch : batch[b] \in Labels
  BY DEF Batches
<1>2. batch \in Tables(Beats, Labels)
  BY <1>1, TableIs
<1>3. IsFiniteSet(times) /\ times # {} /\ \A n \in times : n \in Nat
  <2>1. IsFiniteSet(DOMAIN batch) /\ DOMAIN batch \in SUBSET DOMAIN TimeOf
    BY <1>1, FS_Subset, HeartbeatAssumption
  <2>2. IsFiniteSet(times)
    BY <2>1, ImageIsFinite
  <2> QED BY <1>1, <2>2, HeartbeatAssumption
<1>4. \A b \in DOMAIN batch : TimeOf[b] \in times
  OBVIOUS
<1> HIDE DEF times
<1>5. /\ Min(times) \in times /\ \A n \in times : Min(times) <= n
      /\ Max(times) \in times /\ \A n \in times : n <= Max(times)
  <2>1. \A n \in times : n \in Int
    BY <1>3
  <2> QED BY <1>3, <2>1, MinOfFinite, MaxOfFinite
<1> QED BY <1>1, <1>2, <1>3, <1>4, <1>5 DEF times

LEMMA UpsertedIs ==
  ASSUME NEW t \in Tables(Beats, Row), NEW batch \in Tables(Beats, Labels)
  PROVE  /\ Upserted(t, batch) \in Tables(Beats, Row)
         /\ DOMAIN Upserted(t, batch) = DOMAIN batch
         /\ \A b \in DOMAIN batch :
              /\ Upserted(t, batch)[b].label = batch[b]
              /\ Upserted(t, batch)[b].gap = IF b \in DOMAIN t THEN t[b].gap ELSE NoGap
<1>1. /\ DOMAIN batch \subseteq Beats /\ \A b \in DOMAIN batch : batch[b] \in Labels
      /\ \A b \in DOMAIN t : t[b] \in Row
  BY TableIs
<1> DEFINE u == Upserted(t, batch)
<1>2. DOMAIN u = DOMAIN batch /\ u = [b \in DOMAIN u |-> u[b]]
  BY DEF Upserted
<1>3. ASSUME NEW b \in DOMAIN batch
      PROVE  /\ u[b].label = batch[b]
             /\ u[b].gap = IF b \in DOMAIN t THEN t[b].gap ELSE NoGap
             /\ u[b] \in Row
  BY <1>1 DEF Upserted, Row
<1> HIDE DEF u
<1>4. u \in Tables(Beats, Row)
  BY <1>1, <1>2, <1>3, TableIs
<1> QED BY <1>2, <1>3, <1>4 DEF u

LEMMA RecomputedAreGaps ==
  ASSUME NEW S \in SUBSET Beats, NEW since \in Nat, NEW bounded \in BOOLEAN, NEW until \in Nat,
         NEW g \in RecomputedGaps(S, since, bounded, until)
  PROVE  /\ g \in Tables(Beats, Nat \cup {NoGap})
         /\ \A b \in DOMAIN g : b \in S /\ since <= TimeOf[b]
<1> DEFINE W == Window(S, since, bounded, until)
           G == Assigned(S, since, bounded, until)
<1>1. PICK lead \in Leaders(W) : g = [b \in G |-> Lag(W, lead, b)]
  BY DEF RecomputedGaps, Assigned
<1>2. W \in SUBSET Beats /\ G \subseteq W /\ W \subseteq S /\ \A b \in G : since <= TimeOf[b]
  BY AssignedAre, WindowIs
<1> HIDE DEF W, G
<1>3. \A b \in G : Lag(W, lead, b) \in Nat \cup {NoGap}
  BY <1>2, LagIsGap
<1>4. DOMAIN g = G /\ g = [b \in DOMAIN g |-> g[b]] /\ \A b \in G : g[b] = Lag(W, lead, b)
  BY <1>1
<1>5. g \in Tables(Beats, Nat \cup {NoGap})
  BY <1>2, <1>3, <1>4, TableIs
<1> QED BY <1>2, <1>4, <1>5

LEMMA ViewIs ==
  ASSUME Typed, NEW w \in Writers
  PROVE  /\ View(w) \in Tables(Beats, Row)
         /\ DOMAIN View(w) = DOMAIN beats \cup DOMAIN tx[w].own
         /\ DOMAIN View(w) \in SUBSET Beats
         /\ \A b \in DOMAIN View(w) :
              /\ View(w)[b] \in Row
              /\ View(w)[b] = IF b \in DOMAIN tx[w].own THEN tx[w].own[b] ELSE beats[b]
<1>1. tx[w].own \in Tables(Beats, Row) /\ beats \in Tables(Beats, Row)
  BY DEF Typed, Tx
<1>2. View(w) \in Tables(Beats, Row)
  BY <1>1, OverIsTable DEF View
<1>3. DOMAIN View(w) = DOMAIN beats \cup DOMAIN tx[w].own
  BY OverIs DEF View
<1>4. \A b \in DOMAIN View(w) : View(w)[b] = IF b \in DOMAIN tx[w].own THEN tx[w].own[b] ELSE beats[b]
  BY <1>3, OverIs DEF View
<1> QED BY <1>2, <1>3, <1>4, TableIs

LEMMA RegappedIs ==
  ASSUME Typed, NEW w \in Writers
  PROVE  /\ Regapped(w) \in Tables(Beats, Row)
         /\ DOMAIN Regapped(w) = DOMAIN tx[w].gaps \cap DOMAIN View(w)
         /\ \A b \in DOMAIN Regapped(w) : /\ Regapped(w)[b].label = View(w)[b].label
                                          /\ Regapped(w)[b].gap = tx[w].gaps[b]
<1> DEFINE r == Regapped(w)
<1>1. \A b \in DOMAIN tx[w].gaps : tx[w].gaps[b] \in Nat \cup {NoGap}
  <2>1. tx[w].gaps \in Tables(Beats, Nat \cup {NoGap})
    BY DEF Typed, Tx
  <2> QED BY <2>1, TableIs
<1>2. \A b \in DOMAIN View(w) : b \in Beats /\ View(w)[b] \in Row
  BY ViewIs
<1>3. DOMAIN r = DOMAIN tx[w].gaps \cap DOMAIN View(w) /\ r = [b \in DOMAIN r |-> r[b]]
  BY DEF Regapped
<1>4. ASSUME NEW b \in DOMAIN tx[w].gaps \cap DOMAIN View(w)
      PROVE  r[b].label = View(w)[b].label /\ r[b].gap = tx[w].gaps[b] /\ r[b] \in Row
  <2>1. r[b] = [View(w)[b] EXCEPT !.gap = tx[w].gaps[b]]
    BY DEF Regapped
  <2>2. View(w)[b] \in Row /\ tx[w].gaps[b] \in Nat \cup {NoGap}
    BY <1>1, <1>2
  <2> HIDE DEF r
  <2> QED BY <2>1, <2>2 DEF Row
<1> HIDE DEF r
<1>5. r \in Tables(Beats, Row)
  BY <1>2, <1>3, <1>4, TableIs
<1> QED BY <1>3, <1>4, <1>5 DEF r

\* What another operation that begins does to one that is open.
Joined(t) == [t EXCEPT !.alone = FALSE]

Beginning(t, kind) == [t EXCEPT !.kind = kind, !.alone = (Open = {})]

LEMMA JoinedIs ==
  ASSUME NEW t \in Tx
  PROVE  /\ Joined(t) \in Tx
         /\ Joined(t).alone = FALSE
         /\ Joined(t).pc = t.pc /\ Joined(t).kind = t.kind /\ Joined(t).batch = t.batch
         /\ Joined(t).since = t.since /\ Joined(t).until = t.until /\ Joined(t).zone = t.zone
         /\ Joined(t).own = t.own /\ Joined(t).gaps = t.gaps /\ Joined(t).doomed = t.doomed
         /\ Joined(t).cleared = t.cleared /\ Joined(t).fill = t.fill /\ Joined(t).made = t.made
BY DEF Joined, Tx

LEMMA BeginningIs ==
  ASSUME NEW t \in Tx, NEW kind \in Kinds
  PROVE  LET u == Beginning(t, kind) IN
         /\ u \in Tx
         /\ u.alone = (Open = {}) /\ u.kind = kind
         /\ u.pc = t.pc /\ u.batch = t.batch /\ u.since = t.since /\ u.until = t.until
         /\ u.zone = t.zone /\ u.own = t.own /\ u.gaps = t.gaps /\ u.doomed = t.doomed
         /\ u.cleared = t.cleared /\ u.fill = t.fill /\ u.made = t.made
BY DEF Beginning, Tx

\* What beginning an operation does to the writers.
LEMMA BeginIs ==
  ASSUME Typed, NEW w \in Writers, NEW kind, NEW t \in Tx, Begin(w, kind, t)
  PROVE  /\ tx' \in [Writers -> Tx] /\ ops' \in 0 .. MaxOps
         /\ kind \in Kinds /\ tx[w].pc = "idle"
         /\ tx'[w] = Beginning(t, kind)
         /\ \A v \in Writers : v # w => tx'[v] = IF tx[v].pc = "idle" THEN tx[v] ELSE Joined(tx[v])
<1>1. kind \in Kinds /\ tx[w].pc = "idle" /\ ops < MaxOps /\ ops' = ops + 1
  BY DEF Begin
<1>2. tx' = [v \in Writers |->
         IF v = w THEN Beginning(t, kind)
         ELSE IF tx[v].pc = "idle" THEN tx[v] ELSE Joined(tx[v])]
  BY DEF Begin, Beginning, Joined
<1>3. \A v \in Writers : tx[v] \in Tx /\ Joined(tx[v]) \in Tx
  BY JoinedIs DEF Typed
<1>4. Beginning(t, kind) \in Tx
  BY <1>1, BeginningIs
<1>5. ops' \in 0 .. MaxOps
  BY <1>1, IngestAssumption DEF Typed
<1> QED BY <1>1, <1>2, <1>3, <1>4, <1>5

LEMMA SaveIsTx ==
  ASSUME NEW S \in SUBSET Beats, NEW batch \in Batches(S)
  PROVE  LET times == {TimeOf[b] : b \in DOMAIN batch}
         IN  [Idle EXCEPT !.pc = "insert", !.batch = batch, !.since = Min(times),
                          !.until = Max(times)] \in Tx
BY BatchIs, IdleIsTx DEF Tx, Stages

LEMMA CurateIs ==
  ASSUME Typed, NEW kind, NEW matching, Curate(kind, matching)
  PROVE  /\ tx' \in [Writers -> Tx] /\ ops' \in 0 .. MaxOps
         /\ \A v \in Writers : matching \cap DOMAIN tx[v].own = {}
         /\ \A v \in Writers : tx'[v] = IF tx[v].pc = "idle" THEN tx[v] ELSE Joined(tx[v])
         /\ UNCHANGED <<rollup, zone>>
<1>1. \A v \in Writers : tx[v] \in Tx /\ Joined(tx[v]) \in Tx
  BY JoinedIs DEF Typed
<1>2. ops' \in 0 .. MaxOps
  BY IngestAssumption DEF Typed, Curate
<1>3. tx' = [v \in Writers |-> IF tx[v].pc = "idle" THEN tx[v] ELSE Joined(tx[v])]
  BY DEF Curate, Joined
<1> QED BY <1>1, <1>2, <1>3 DEF Curate

LEMMA TypedInit == Init => Typed
<1> SUFFICES ASSUME Init PROVE Typed
  OBVIOUS
<1>1. /\ Nothing \in Tables(Beats, Row) /\ Nothing \in Tables(Keys, Nat)
      /\ 0 \in Zones /\ 0 \in 0 .. MaxOps
  BY NothingIsTable, IngestAssumption
<1> QED BY <1>1, IdleIsTx DEF Init, Typed

LEMMA TypedStart ==
  ASSUME Typed, NEW w \in Writers, Start(w)
  PROVE  Typed'
<1>1. CASE \E kind \in Kinds : Save(w, kind)
  <2>1. PICK kind \in Kinds : Save(w, kind)
    BY <1>1
  <2> DEFINE S == IF kind = "workout" THEN Workouts ELSE Beats \ Workouts
  <2>2. S \in SUBSET Beats
    BY HeartbeatAssumption
  <2>3. PICK batch \in Batches(S) :
          LET times == {TimeOf[b] : b \in DOMAIN batch} IN
          Begin(w, kind, [Idle EXCEPT !.pc = "insert", !.batch = batch, !.since = Min(times),
                                      !.until = Max(times)])
    BY <2>1 DEF Save
  <2> HIDE DEF S
  <2>4. tx' \in [Writers -> Tx] /\ ops' \in 0 .. MaxOps
    BY <2>2, <2>3, SaveIsTx, BeginIs
  <2> QED BY <2>1, <2>4 DEF Typed, Save
<1>2. CASE ResyncDerived(w)
  <2>1. [Idle EXCEPT !.pc = "gaps"] \in Tx
    BY IdleIsTx DEF Tx, Stages
  <2> QED BY <1>2, <2>1, BeginIs DEF Typed, ResyncDerived
<1>3. ASSUME NEW z \in Zones, UpdateTimezone(w, z) PROVE Typed'
  <2>1. [Idle EXCEPT !.pc = "delete"] \in Tx
    BY IdleIsTx DEF Tx, Stages
  <2> QED BY <1>3, <2>1, BeginIs DEF Typed, UpdateTimezone
<1> QED BY <1>1, <1>2, <1>3 DEF Start

LEMMA TypedStatement ==
  ASSUME Typed, NEW w \in Writers, Statement(w)
  PROVE  Typed'
<1>0. /\ tx \in [Writers -> Tx] /\ tx[w] \in Tx /\ zone \in Zones
      /\ beats \in Tables(Beats, Row)
  BY DEF Typed
<1>a. /\ tx[w].own \in Tables(Beats, Row) /\ tx[w].batch \in Tables(Beats, Labels)
      /\ tx[w].since \in Nat /\ tx[w].until \in Nat /\ tx[w].zone \in Zones
      /\ tx[w].fill \in Tables(Keys, Nat)
      /\ tx[w].doomed \in SUBSET Keys
  BY <1>0 DEF Tx
<1>1. CASE InsertHeartbeats(w)
  <2>1. Upserted(beats, tx[w].batch) \in Tables(Beats, Row)
    BY <1>0, <1>a, UpsertedIs
  <2> QED BY <1>0, <1>1, <2>1 DEF Typed, InsertHeartbeats, Tx, Stages
<1>2. CASE ReadGaps(w)
  <2>1. PICK g \in RecomputedGaps(DOMAIN View(w), tx[w].since, tx[w].kind = "ingest", tx[w].until) :
          tx' = [tx EXCEPT ![w].gaps = g, ![w].pc = "gapsWait"]
    BY <1>2 DEF ReadGaps
  <2>2. g \in Tables(Beats, Nat \cup {NoGap})
    BY <1>a, ViewIs, RecomputedAreGaps
  <2>3. tx' \in [Writers -> Tx]
    BY <1>0, <2>1, <2>2 DEF Tx, Stages
  <2> QED BY <1>2, <2>3 DEF Typed, ReadGaps
<1>3. CASE WriteGaps(w)
  <2>1. Regapped(w) \in Tables(Beats, Row)
    BY RegappedIs
  <2>2. CASE tx[w].kind = "resync"
    <3>1. Over(Regapped(w), beats) \in Tables(Beats, Row)
      BY <1>0, <2>1, OverIsTable
    <3>2. tx' = [tx EXCEPT ![w].pc = "delete"]
      BY <1>3, <2>2 DEF WriteGaps
    <3>3. tx' \in [Writers -> Tx]
      BY <1>0, <3>2 DEF Tx, Stages
    <3>4. beats' = Over(Regapped(w), beats) /\ stale' \subseteq {"gaps", "rollup"}
      BY <1>3, <2>2 DEF WriteGaps
    <3>5. UNCHANGED <<rollup, zone, ops>>
      BY <1>3 DEF WriteGaps
    <3> QED BY <3>1, <3>3, <3>4, <3>5 DEF Typed
  <2>3. CASE tx[w].kind # "resync"
    <3>1. Over(Regapped(w), tx[w].own) \in Tables(Beats, Row)
      BY <1>a, <2>1, OverIsTable
    <3>2. tx' = [tx EXCEPT ![w].own = Over(Regapped(w), @), ![w].pc = "delete"]
      BY <1>3, <2>3 DEF WriteGaps
    <3>3. tx' \in [Writers -> Tx]
      BY <1>0, <3>1, <3>2 DEF Tx, Stages
    <3> QED BY <1>3, <2>3, <3>3 DEF Typed, WriteGaps
  <2> QED BY <2>2, <2>3
<1>4. CASE ReadRollup(w)
  <2>1. {k \in DOMAIN rollup : k[1] >= DeleteFrom(w)} \in SUBSET Keys
    BY TableIs DEF Typed
  <2> QED BY <1>0, <1>4, <2>1 DEF Typed, ReadRollup, Tx, Stages
<1>5. CASE DeleteRollup(w)
  BY <1>0, <1>a, <1>5 DEF Typed, DeleteRollup, Tx, Stages
<1>6. CASE AggregateRows(w)
  <2>1. Day(tx[w].since, tx[w].zone) \in Nat
    BY <1>a, DayIs, HeartbeatAssumption
  <2>2. Aggregate(View(w), Day(tx[w].since, tx[w].zone), tx[w].zone) \in Tables(Keys, Nat)
    BY <1>a, <2>1, ViewIs, AggregateIs
  <2> QED BY <1>0, <1>6, <2>2 DEF Typed, AggregateRows, Tx, Stages
<1>7. CASE FillRollup(w)
  <2>1. Nothing \in Tables(Keys, Nat)
    BY NothingIsTable
  <2> QED BY <1>0, <1>a, <1>7, <2>1 DEF Typed, FillRollup, Tx, Stages
<1> QED BY <1>1, <1>2, <1>3, <1>4, <1>5, <1>6, <1>7 DEF Statement

LEMMA WithoutIs ==
  \A f, S : /\ DOMAIN Without(f, S) = DOMAIN f \ S
            /\ \A x \in DOMAIN f \ S : Without(f, S)[x] = f[x]
BY DEF Without

LEMMA WithoutIsTable ==
  ASSUME NEW S, NEW T, NEW f \in Tables(S, T), NEW U
  PROVE  Without(f, U) \in Tables(S, T)
<1>1. DOMAIN f \subseteq S /\ \A x \in DOMAIN f : f[x] \in T
  BY TableIs
<1>2. DOMAIN Without(f, U) = DOMAIN f \ U
  BY WithoutIs
<1>3. \A x \in DOMAIN Without(f, U) : Without(f, U)[x] \in T
  BY <1>1, <1>2, WithoutIs
<1>4. Without(f, U) = [x \in DOMAIN Without(f, U) |-> Without(f, U)[x]]
  BY DEF Without
<1> QED BY <1>1, <1>2, <1>3, <1>4, TableIs

LEMMA TypedNext == Typed /\ [Next]_vars => Typed'
<1> SUFFICES ASSUME Typed, [Next]_vars PROVE Typed'
  OBVIOUS
<1>0. /\ tx \in [Writers -> Tx] /\ Idle \in Tx /\ beats \in Tables(Beats, Row)
      /\ rollup \in Tables(Keys, Nat)
  BY IdleIsTx DEF Typed
<1>1. ASSUME NEW w \in Writers, Start(w) PROVE Typed'
  BY <1>1, TypedStart
<1>2. ASSUME NEW w \in Writers, Statement(w) PROVE Typed'
  BY <1>2, TypedStatement
<1>3. ASSUME NEW w \in Writers, Commit(w) PROVE Typed'
  <2>1. tx[w].own \in Tables(Beats, Row) /\ tx[w].made \in Tables(Keys, Nat)
    BY <1>0 DEF Tx
  <2>2. Over(tx[w].own, beats) \in Tables(Beats, Row)
    BY <1>0, <2>1, OverIsTable
  <2>3. Over(tx[w].made, Without(rollup, tx[w].cleared)) \in Tables(Keys, Nat)
    BY <1>0, <2>1, OverIsTable, WithoutIsTable
  <2>4. tx' \in [Writers -> Tx]
    BY <1>0, <1>3 DEF Commit, Tx
  <2>5. StaleAfter(w) \subseteq {"gaps", "rollup"}
    BY DEF StaleAfter, Typed
  <2> QED BY <1>3, <2>2, <2>3, <2>4, <2>5 DEF Typed, Commit
<1>4. ASSUME NEW w \in Writers, Rollback(w) PROVE Typed'
  BY <1>0, <1>4 DEF Typed, Rollback
<1>5. ASSUME NEW l \in Labels, NEW m \in Labels, ApplyRenameRule(l, m) PROVE Typed'
  <2> DEFINE r == [b \in Matching(l) |-> [beats[b] EXCEPT !.label = m]]
  <2>1. r \in Tables(Beats, Row)
    <3>1. \A b \in DOMAIN beats : b \in Beats /\ beats[b] \in Row
      BY <1>0, TableIs
    <3>2. \A b \in DOMAIN r : b \in Beats /\ r[b] \in Row
      BY <3>1 DEF Matching, Row
    <3>3. r = [b \in DOMAIN r |-> r[b]]
      OBVIOUS
    <3> HIDE DEF r
    <3> QED BY <3>2, <3>3, TableIs
  <2>2. Over(r, beats) \in Tables(Beats, Row)
    BY <1>0, <2>1, OverIsTable
  <2>3. Curate("rename", Matching(l)) /\ beats' = Over(r, beats) /\ stale' = stale \cup {"rollup"}
    BY <1>5 DEF ApplyRenameRule
  <2> HIDE DEF r
  <2> QED BY <2>2, <2>3, CurateIs DEF Typed
<1>6. ASSUME NEW l \in Labels, PurgeHiddenRule(l) PROVE Typed'
  <2>1. Without(beats, Matching(l)) \in Tables(Beats, Row)
    BY <1>0, WithoutIsTable
  <2>2. /\ Curate("purge", Matching(l)) /\ beats' = Without(beats, Matching(l))
        /\ stale' = {"gaps", "rollup"}
    BY <1>6 DEF PurgeHiddenRule
  <2> QED BY <2>1, <2>2, CurateIs DEF Typed
<1>7. CASE UNCHANGED vars
  BY <1>7 DEF Typed, vars
<1> QED BY <1>1, <1>2, <1>3, <1>4, <1>5, <1>6, <1>7 DEF Next, Writing, Curating

-----------------------------------------------------------------------------
(* Who holds what.                                                         *)

\* An operation that runs alone is the only open one.
Solo == \A v \in Writers, w \in Writers :
  v # w /\ tx[w].pc # "idle" /\ tx[w].alone => tx[v].pc = "idle"

\* The rows and keys a transaction has written are held until it ends.
Apart(t, u) ==
  /\ DOMAIN t.own \cap DOMAIN u.own = {}
  /\ t.cleared \cap u.cleared = {}
  /\ DOMAIN t.made \cap DOMAIN u.made = {}
  /\ DOMAIN t.made \cap u.cleared = {}

Locks == \A v \in Writers, w \in Writers : v # w => Apart(tx[v], tx[w])

Rebuilds(t) == t.kind \in {"resync", "zone"}

\* What a writer holds at each of its stages, for the committed tables bs, ro.
Shape(t, bs, ro) ==
  /\ Rebuilds(t) => DOMAIN t.own = {} /\ t.since = 0 /\ t.pc # "insert"
  /\ t.kind = "zone" => t.pc \notin {"gaps", "gapsWait"}
  /\ IF t.pc \in {"idle", "insert"} THEN DOMAIN t.own = {} ELSE DOMAIN t.batch \subseteq DOMAIN t.own
  /\ \A b \in DOMAIN t.batch : t.since <= TimeOf[b] /\ TimeOf[b] <= t.until
  /\ t.pc = "gapsWait" => \A b \in DOMAIN t.gaps : t.since <= TimeOf[b]
  /\ t.pc # "commit" => DOMAIN t.made = {}
  /\ \A b \in DOMAIN t.own :
       /\ t.since <= TimeOf[b]
       /\ IF b \in DOMAIN t.batch THEN t.own[b].label = t.batch[b]
          ELSE b \in DOMAIN bs /\ t.own[b].label = bs[b].label
  /\ t.doomed \cup t.cleared \subseteq DOMAIN ro
  /\ DOMAIN t.made \cap (DOMAIN ro \ t.cleared) = {}

Held ==
  /\ Typed /\ Solo /\ Locks
  /\ \A w \in Writers : Shape(tx[w], beats, rollup)

LEMMA IdleHolds ==
  /\ Idle.pc = "idle" /\ Idle.alone = TRUE /\ DOMAIN Idle.own = {} /\ Idle.cleared = {}
  /\ Idle.doomed = {} /\ DOMAIN Idle.made = {}
  /\ Idle.kind = "none" /\ Idle.since = 0 /\ DOMAIN Idle.batch = {}
  /\ \A bs, ro : Shape(Idle, bs, ro)
<1>1. DOMAIN Nothing = {}
  BY DEF Nothing
<1>2. /\ Idle.pc = "idle" /\ Idle.alone = TRUE /\ DOMAIN Idle.own = {} /\ Idle.cleared = {}
      /\ Idle.doomed = {} /\ DOMAIN Idle.made = {} /\ Idle.kind = "none" /\ Idle.since = 0
      /\ DOMAIN Idle.batch = {}
  BY <1>1 DEF Idle
<1>3. \A bs, ro : Shape(Idle, bs, ro)
  BY <1>2 DEF Shape, Rebuilds
<1> QED BY <1>2, <1>3

\* Rows a transaction holds keep their labels, whoever else writes.
LEMMA ShapeStays ==
  ASSUME NEW t, NEW bs, NEW bt, NEW ro, Shape(t, bs, ro),
         \A b \in DOMAIN t.own \cap DOMAIN bs : b \in DOMAIN bt /\ bt[b].label = bs[b].label
  PROVE  Shape(t, bt, ro)
BY DEF Shape

LEMMA ShapeMoves ==
  ASSUME NEW t, NEW u, NEW bs, NEW ro, NEW rp, Shape(t, bs, ro),
         u.pc = t.pc, u.kind = t.kind, u.batch = t.batch, u.since = t.since, u.until = t.until,
         u.own = t.own, u.gaps = t.gaps, u.made = t.made,
         u.doomed \cup u.cleared \subseteq DOMAIN rp,
         DOMAIN u.made \cap (DOMAIN rp \ u.cleared) = {}
  PROVE  Shape(u, bs, rp)
BY DEF Shape, Rebuilds

\* Whether it is alone changes nothing of what a writer holds.
LEMMA CompanyHoldsNothing ==
  ASSUME NEW t \in Tx, NEW bs, NEW ro, NEW u
  PROVE  /\ Shape(t, bs, ro) => Shape(Joined(t), bs, ro)
         /\ Apart(t, u) => Apart(Joined(t), u)
         /\ Apart(u, t) => Apart(u, Joined(t))
<1>1. Shape(t, bs, ro) => Shape(Joined(t), bs, ro)
  <2> DEFINE j == Joined(t)
  <2>1. /\ j.pc = t.pc /\ j.kind = t.kind /\ j.batch = t.batch /\ j.since = t.since
        /\ j.until = t.until /\ j.own = t.own /\ j.gaps = t.gaps /\ j.made = t.made
        /\ j.doomed = t.doomed /\ j.cleared = t.cleared
    BY JoinedIs
  <2> HIDE DEF j
  <2>2. ASSUME Shape(t, bs, ro)
        PROVE  /\ j.doomed \cup j.cleared \subseteq DOMAIN ro
               /\ DOMAIN j.made \cap (DOMAIN ro \ j.cleared) = {}
    BY <2>1, <2>2 DEF Shape
  <2> QED BY <2>1, <2>2, ShapeMoves DEF j
<1>2. Joined(t).own = t.own /\ Joined(t).cleared = t.cleared /\ Joined(t).made = t.made
  BY JoinedIs
<1> QED BY <1>1, <1>2 DEF Apart

LEMMA HeldInit == Init => Held
<1> SUFFICES ASSUME Init PROVE Held
  OBVIOUS
<1>1. \A w \in Writers : tx[w] = Idle
  BY DEF Init
<1>2. Solo /\ Locks
  BY <1>1, IdleHolds DEF Solo, Locks, Apart
<1>3. \A w \in Writers : Shape(tx[w], beats, rollup)
  BY <1>1, IdleHolds
<1> QED BY <1>2, <1>3, TypedInit DEF Held

\* Beginning an operation, with a transaction that holds nothing yet.
LEMMA HeldBegin ==
  ASSUME Held, NEW w \in Writers, NEW kind, NEW t \in Tx, Begin(w, kind, t),
         DOMAIN t.own = {}, DOMAIN t.made = {}, t.cleared = {}, t.doomed = {},
         t.pc \in {"insert", "gaps", "delete"}, t.pc # "insert" => DOMAIN t.batch = {},
         kind \in {"resync", "zone"} => t.since = 0 /\ t.pc # "insert",
         kind = "zone" => t.pc # "gaps",
         \A b \in DOMAIN t.batch : t.since <= TimeOf[b] /\ TimeOf[b] <= t.until,
         UNCHANGED <<beats, rollup>>
  PROVE  Solo' /\ Locks' /\ \A v \in Writers : Shape(tx[v], beats, rollup)'
<1>1. Typed /\ Solo /\ Locks /\ \A v \in Writers : Shape(tx[v], beats, rollup)
  BY DEF Held
<1> DEFINE t1 == Beginning(t, kind)
<1>2. /\ tx' \in [Writers -> Tx] /\ kind \in Kinds
      /\ tx[w].pc = "idle"
      /\ tx'[w] = t1
      /\ \A v \in Writers : v # w => tx'[v] = IF tx[v].pc = "idle" THEN tx[v] ELSE Joined(tx[v])
  BY <1>1, BeginIs
<1>3. /\ t1.pc = t.pc /\ t1.own = t.own /\ t1.since = t.since /\ t1.batch = t.batch
      /\ t1.until = t.until /\ t1.gaps = t.gaps /\ t1.made = t.made /\ t1.cleared = t.cleared
      /\ t1.doomed = t.doomed /\ t1.kind = kind /\ t1.alone = (Open = {})
  BY <1>2, BeginningIs
<1> HIDE DEF t1
<1>4. \A v \in Writers : tx[v] \in Tx
  BY <1>1 DEF Typed
<1>5. ASSUME NEW v \in Writers, v # w
      PROVE  /\ tx'[v].pc = tx[v].pc
             /\ tx[v].pc # "idle" => tx'[v].alone = FALSE
             /\ Shape(tx'[v], beats', rollup')
             /\ \A u \in Writers : u # v /\ u # w => Apart(tx'[v], tx'[u])
  <2>1. tx[v] \in Tx /\ Shape(tx[v], beats', rollup')
    BY <1>1, <1>4
  <2>2. \A u \in Writers : u # v => Apart(tx[v], tx[u]) /\ Apart(tx[v], Joined(tx[u]))
    BY <1>1, <1>4, <1>5, CompanyHoldsNothing DEF Locks
  <2>3. \A u \in Writers : u # v => Apart(Joined(tx[v]), tx[u]) /\ Apart(Joined(tx[v]), Joined(tx[u]))
    BY <2>1, <2>2, CompanyHoldsNothing
  <2>4. \A u \in Writers : u # v /\ u # w => Apart(tx'[v], tx'[u])
    BY <1>2, <1>5, <2>2, <2>3
  <2>5. Shape(Joined(tx[v]), beats', rollup') /\ Joined(tx[v]).pc = tx[v].pc
        /\ Joined(tx[v]).alone = FALSE
    BY <2>1, CompanyHoldsNothing, JoinedIs
  <2> QED BY <1>2, <1>5, <2>1, <2>4, <2>5
<1>6. Solo'
  <2>1. ASSUME NEW v \in Writers, v # w, tx'[w].alone PROVE tx'[v].pc = "idle"
    BY <1>2, <1>3, <1>5, <2>1 DEF Open
  <2>2. ASSUME NEW v \in Writers, v # w, tx'[v].pc # "idle" PROVE ~ tx'[v].alone
    BY <1>5, <2>2
  <2>3. \A v \in Writers : \A u \in Writers :
          v # u /\ tx'[u].pc # "idle" /\ tx'[u].alone => tx'[v].pc = "idle"
    BY <2>1, <2>2
  <2> QED BY <2>3 DEF Solo
<1>7. Locks'
  <2>1. \A u : Apart(t1, u) /\ Apart(u, t1)
    BY <1>3 DEF Apart
  <2>2. \A v \in Writers, u \in Writers : v # u => Apart(tx'[v], tx'[u])
    BY <1>2, <1>5, <2>1
  <2> QED BY <2>2 DEF Locks
<1>8. Shape(t1, beats', rollup')
  BY <1>3 DEF Shape, Rebuilds
<1> QED BY <1>2, <1>5, <1>6, <1>7, <1>8

\* A step of one transaction that keeps the rollup and the labels.
LEMMA HeldStep ==
  ASSUME Held, NEW w \in Writers, NEW t, tx' = [tx EXCEPT ![w] = t],
         t.pc # "idle" => tx[w].pc # "idle" /\ t.alone = tx[w].alone,
         Shape(t, beats', rollup'),
         \A v \in Writers : v # w => Apart(t, tx[v]) /\ Apart(tx[v], t),
         \A b \in DOMAIN beats : b \in DOMAIN beats' /\ beats'[b].label = beats[b].label,
         UNCHANGED rollup
  PROVE  Solo' /\ Locks' /\ \A v \in Writers : Shape(tx[v], beats, rollup)'
<1>1. Typed /\ Solo /\ Locks /\ \A v \in Writers : Shape(tx[v], beats, rollup)
  BY DEF Held
<1>2. tx'[w] = t /\ \A v \in Writers : v # w => tx'[v] = tx[v]
  BY <1>1 DEF Typed
<1>3. \A v \in Writers : v # w => Shape(tx[v], beats', rollup')
  BY <1>1, ShapeStays
<1>4. Solo'
  <2>1. \A v \in Writers, u \in Writers :
          v # u /\ tx'[u].pc # "idle" /\ tx'[u].alone => tx'[v].pc = "idle"
    BY <1>1, <1>2 DEF Solo
  <2> QED BY <2>1 DEF Solo
<1>5. Locks'
  <2>1. \A v \in Writers, u \in Writers : v # u => Apart(tx'[v], tx'[u])
    BY <1>1, <1>2 DEF Locks
  <2> QED BY <2>1 DEF Locks
<1> QED BY <1>2, <1>3, <1>4, <1>5

LEMMA HeldCurate ==
  ASSUME Held, NEW kind, NEW matching, Curate(kind, matching),
         \A b \in DOMAIN beats \ matching : b \in DOMAIN beats' /\ beats'[b] = beats[b]
  PROVE  Solo' /\ Locks' /\ \A v \in Writers : Shape(tx[v], beats, rollup)'
<1>1. Typed /\ Solo /\ Locks /\ \A v \in Writers : Shape(tx[v], beats, rollup)
  BY DEF Held
<1>2. /\ \A v \in Writers : matching \cap DOMAIN tx[v].own = {}
      /\ \A v \in Writers : tx'[v] = IF tx[v].pc = "idle" THEN tx[v] ELSE Joined(tx[v])
      /\ rollup' = rollup
  BY <1>1, CurateIs
<1>3. \A v \in Writers : tx[v] \in Tx
  BY <1>1 DEF Typed
<1>4. ASSUME NEW v \in Writers
      PROVE  /\ tx'[v].pc = tx[v].pc
             /\ tx[v].pc # "idle" => tx'[v].alone = FALSE
             /\ Shape(tx'[v], beats', rollup')
             /\ \A u \in Writers : u # v => Apart(tx'[v], tx'[u])
  <2>1. Shape(tx[v], beats', rollup')
    <3>1. \A b \in DOMAIN tx[v].own \cap DOMAIN beats : b \in DOMAIN beats' /\ beats'[b].label = beats[b].label
      BY <1>2
    <3> QED BY <1>1, <1>2, <3>1, ShapeStays
  <2>2. \A u \in Writers : u # v => Apart(tx[v], tx[u]) /\ Apart(tx[v], Joined(tx[u]))
    BY <1>1, <1>3, CompanyHoldsNothing DEF Locks
  <2>3. \A u \in Writers : u # v => Apart(Joined(tx[v]), tx[u]) /\ Apart(Joined(tx[v]), Joined(tx[u]))
    BY <1>3, <2>2, CompanyHoldsNothing
  <2>4. Shape(Joined(tx[v]), beats', rollup') /\ Joined(tx[v]).pc = tx[v].pc
        /\ Joined(tx[v]).alone = FALSE
    BY <1>3, <2>1, CompanyHoldsNothing, JoinedIs
  <2> QED BY <1>2, <2>1, <2>2, <2>3, <2>4
<1>5. Solo'
  <2>1. \A v \in Writers, u \in Writers :
          v # u /\ tx'[u].pc # "idle" /\ tx'[u].alone => tx'[v].pc = "idle"
    BY <1>4
  <2> QED BY <2>1 DEF Solo
<1>6. Locks'
  <2>1. \A v \in Writers, u \in Writers : v # u => Apart(tx'[v], tx'[u])
    BY <1>4
  <2> QED BY <2>1 DEF Locks
<1> QED BY <1>4, <1>5, <1>6

\* The other transactions, when one commits.
Passed(t, u) == [u EXCEPT !.doomed = @ \ t.cleared]

LEMMA PassedIs ==
  ASSUME NEW t \in Tx, NEW u \in Tx
  PROVE  LET p == Passed(t, u) IN
         /\ p \in Tx /\ p.doomed = u.doomed \ t.cleared
         /\ p.pc = u.pc /\ p.kind = u.kind /\ p.batch = u.batch /\ p.since = u.since
         /\ p.until = u.until /\ p.zone = u.zone /\ p.own = u.own /\ p.gaps = u.gaps
         /\ p.cleared = u.cleared /\ p.fill = u.fill /\ p.made = u.made /\ p.alone = u.alone
BY DEF Passed, Tx

LEMMA CommitIs ==
  ASSUME Typed, NEW w \in Writers, Commit(w)
  PROVE  /\ tx[w].pc = "commit" /\ tx[w] \in Tx
         /\ tx'[w] = Idle
         /\ \A v \in Writers : v # w => tx[v] \in Tx /\ tx'[v] = Passed(tx[w], tx[v])
         /\ beats' = Over(tx[w].own, beats)
         /\ DOMAIN beats' = DOMAIN beats \cup DOMAIN tx[w].own
         /\ \A b \in DOMAIN beats' : beats'[b] = IF b \in DOMAIN tx[w].own THEN tx[w].own[b] ELSE beats[b]
         /\ DOMAIN rollup' = (DOMAIN rollup \ tx[w].cleared) \cup DOMAIN tx[w].made
         /\ \A k \in DOMAIN rollup' : rollup'[k] = IF k \in DOMAIN tx[w].made THEN tx[w].made[k] ELSE rollup[k]
         /\ stale' = StaleAfter(w)
         /\ zone' = zone
<1>1. /\ beats' = Over(tx[w].own, beats)
      /\ rollup' = Over(tx[w].made, Without(rollup, tx[w].cleared))
      /\ tx' = [v \in Writers |-> IF v = w THEN Idle ELSE Passed(tx[w], tx[v])]
  BY DEF Commit, Passed
<1>2. /\ DOMAIN beats' = DOMAIN beats \cup DOMAIN tx[w].own
      /\ \A b \in DOMAIN beats' : beats'[b] = IF b \in DOMAIN tx[w].own THEN tx[w].own[b] ELSE beats[b]
  <2>1. /\ DOMAIN beats' = DOMAIN beats \cup DOMAIN tx[w].own
        /\ \A b \in DOMAIN beats \cup DOMAIN tx[w].own :
             beats'[b] = IF b \in DOMAIN tx[w].own THEN tx[w].own[b] ELSE beats[b]
    BY <1>1, OverIs
  <2> QED BY <2>1
<1>3. /\ DOMAIN rollup' = (DOMAIN rollup \ tx[w].cleared) \cup DOMAIN tx[w].made
      /\ \A k \in DOMAIN rollup' : rollup'[k] = IF k \in DOMAIN tx[w].made THEN tx[w].made[k] ELSE rollup[k]
  <2> DEFINE r == Without(rollup, tx[w].cleared)
  <2>1. DOMAIN r = DOMAIN rollup \ tx[w].cleared /\ \A k \in DOMAIN rollup \ tx[w].cleared : r[k] = rollup[k]
    BY WithoutIs
  <2> HIDE DEF r
  <2>2. rollup' = Over(tx[w].made, r)
    BY <1>1 DEF r
  <2>3. /\ DOMAIN rollup' = DOMAIN r \cup DOMAIN tx[w].made
        /\ \A k \in DOMAIN r \cup DOMAIN tx[w].made :
             rollup'[k] = IF k \in DOMAIN tx[w].made THEN tx[w].made[k] ELSE r[k]
    BY <2>2, OverIs
  <2> QED BY <2>1, <2>3
<1> QED BY <1>1, <1>2, <1>3 DEF Commit, Typed

LEMMA HeldCommit ==
  ASSUME Held, NEW w \in Writers, Commit(w)
  PROVE  Solo' /\ Locks' /\ \A v \in Writers : Shape(tx[v], beats, rollup)'
<1>1. Typed /\ Solo /\ Locks /\ \A v \in Writers : Shape(tx[v], beats, rollup)
  BY DEF Held
<1>2. /\ tx'[w] = Idle
      /\ \A v \in Writers : v # w => tx[v] \in Tx /\ tx'[v] = Passed(tx[w], tx[v])
      /\ DOMAIN beats' = DOMAIN beats \cup DOMAIN tx[w].own
      /\ \A b \in DOMAIN beats' : beats'[b] = IF b \in DOMAIN tx[w].own THEN tx[w].own[b] ELSE beats[b]
      /\ DOMAIN rollup' = (DOMAIN rollup \ tx[w].cleared) \cup DOMAIN tx[w].made
      /\ tx[w] \in Tx
  BY <1>1, CommitIs
<1>3. ASSUME NEW v \in Writers, v # w
      PROVE  /\ tx'[v].pc = tx[v].pc /\ tx'[v].alone = tx[v].alone
             /\ Shape(tx'[v], beats', rollup')
             /\ \A u \in Writers : u # v => Apart(tx'[v], tx'[u])
             /\ Apart(tx'[w], tx'[v])
  <2> DEFINE p == Passed(tx[w], tx[v])
  <2>1. /\ p.doomed = tx[v].doomed \ tx[w].cleared
        /\ p.pc = tx[v].pc /\ p.kind = tx[v].kind /\ p.batch = tx[v].batch /\ p.since = tx[v].since
        /\ p.until = tx[v].until /\ p.own = tx[v].own /\ p.gaps = tx[v].gaps
        /\ p.cleared = tx[v].cleared /\ p.made = tx[v].made /\ p.alone = tx[v].alone
    BY <1>2, <1>3, PassedIs
  <2>2. tx'[v] = p
    BY <1>2, <1>3
  <2> HIDE DEF p
  <2>3. Apart(tx[v], tx[w]) /\ Apart(tx[w], tx[v])
    BY <1>1, <1>3 DEF Locks
  <2>4. Shape(tx[v], beats', rollup)
    <3>1. \A b \in DOMAIN tx[v].own \cap DOMAIN beats : b \in DOMAIN beats' /\ beats'[b].label = beats[b].label
      BY <1>2, <2>3 DEF Apart
    <3> QED BY <1>1, <3>1, ShapeStays
  <2>5. Shape(p, beats', rollup')
    <3>1. p.doomed \cup p.cleared \subseteq DOMAIN rollup'
      BY <1>2, <2>1, <2>3, <2>4 DEF Apart, Shape
    <3>2. DOMAIN p.made \cap (DOMAIN rollup' \ p.cleared) = {}
      BY <1>2, <2>1, <2>3, <2>4 DEF Apart, Shape
    <3> QED BY <2>1, <2>4, <3>1, <3>2, ShapeMoves
  <2>6. ASSUME NEW u \in Writers, u # v PROVE Apart(p, tx'[u])
    <3>1. CASE u = w
      BY <1>2, <3>1, IdleHolds DEF Apart
    <3>2. CASE u # w
      <4>1. Apart(tx[v], tx[u]) /\ tx'[u] = Passed(tx[w], tx[u]) /\ tx[u] \in Tx
        BY <1>1, <1>2, <2>6, <3>2 DEF Locks
      <4>2. tx'[u].own = tx[u].own /\ tx'[u].cleared = tx[u].cleared /\ tx'[u].made = tx[u].made
        BY <1>2, <4>1, PassedIs
      <4> QED BY <2>1, <4>1, <4>2 DEF Apart
    <3> QED BY <3>1, <3>2
  <2>7. Apart(tx'[w], tx'[v])
    BY <1>2, IdleHolds DEF Apart
  <2> QED BY <2>1, <2>2, <2>5, <2>6, <2>7
<1>4. Solo'
  <2>1. \A v \in Writers, u \in Writers :
          v # u /\ tx'[u].pc # "idle" /\ tx'[u].alone => tx'[v].pc = "idle"
    BY <1>1, <1>2, <1>3, IdleHolds DEF Solo
  <2> QED BY <2>1 DEF Solo
<1>5. Locks'
  <2>1. \A v \in Writers, u \in Writers : v # u => Apart(tx'[v], tx'[u])
    BY <1>3
  <2> QED BY <2>1 DEF Locks
<1>6. Shape(tx'[w], beats', rollup')
  BY <1>2, IdleHolds
<1> QED BY <1>3, <1>4, <1>5, <1>6

\* A step of one transaction that takes no row and no key.
LEMMA HeldTakesNothing ==
  ASSUME Held, NEW w \in Writers, NEW t \in Tx, tx' = [tx EXCEPT ![w] = t],
         t.pc # "idle", tx[w].pc # "idle", t.alone = tx[w].alone,
         t.own = tx[w].own, t.cleared = tx[w].cleared, t.made = tx[w].made,
         Shape(t, beats, rollup), UNCHANGED <<beats, rollup>>
  PROVE  Solo' /\ Locks' /\ \A v \in Writers : Shape(tx[v], beats, rollup)'
<1>1. \A v \in Writers : v # w => Apart(tx[w], tx[v]) /\ Apart(tx[v], tx[w])
  BY DEF Held, Locks
<1>2. \A v \in Writers : v # w => Apart(t, tx[v]) /\ Apart(tx[v], t)
  BY <1>1 DEF Apart
<1>3. Shape(t, beats', rollup')
  OBVIOUS
<1> QED BY <1>2, <1>3, HeldStep

LEMMA HeldStatement ==
  ASSUME Held, NEW w \in Writers, Statement(w)
  PROVE  Solo' /\ Locks' /\ \A v \in Writers : Shape(tx[v], beats, rollup)'
<1> DEFINE s == tx[w]
<1>0. /\ Typed /\ s \in Tx /\ tx \in [Writers -> Tx] /\ Shape(s, beats, rollup)
      /\ \A v \in Writers : v # w => Apart(s, tx[v]) /\ Apart(tx[v], s)
  BY DEF Held, Typed, Locks
<1>1. CASE InsertHeartbeats(w)
  <2> DEFINE o == Upserted(beats, s.batch)
             t == [s EXCEPT !.own = o, !.pc = IF s.kind = "raw" THEN "commit" ELSE "gaps"]
  <2>1. /\ o \in Tables(Beats, Row) /\ DOMAIN o = DOMAIN s.batch
        /\ \A b \in DOMAIN s.batch : o[b].label = s.batch[b]
    BY <1>0, UpsertedIs DEF Typed, Tx
  <2>2. /\ tx' = [tx EXCEPT ![w] = t] /\ UNCHANGED <<beats, rollup>>
        /\ DOMAIN s.batch \cap Locked(w) = {} /\ s.pc = "insert"
    BY <1>1 DEF InsertHeartbeats
  <2> HIDE DEF o
  <2>3. /\ t.pc \in {"commit", "gaps"} /\ t.own = o /\ t.alone = s.alone /\ t.cleared = s.cleared
        /\ t.doomed = s.doomed /\ t.made = s.made /\ t.batch = s.batch /\ t.since = s.since
        /\ t.kind = s.kind /\ t.until = s.until
    BY <1>0 DEF Tx
  <2> HIDE DEF t
  <2>4. DOMAIN s.made = {}
    BY <1>0, <2>2 DEF Shape
  <2>5. Shape(t, beats, rollup)
    BY <1>0, <2>1, <2>2, <2>3, <2>4 DEF Shape, Rebuilds
  <2>6. ASSUME NEW v \in Writers, v # w PROVE Apart(t, tx[v]) /\ Apart(tx[v], t)
    <3>1. DOMAIN s.batch \cap DOMAIN tx[v].own = {}
      BY <2>2, <2>6 DEF Locked, Others
    <3>2. Apart(s, tx[v]) /\ Apart(tx[v], s)
      BY <1>0, <2>6
    <3> QED BY <2>1, <2>3, <3>1, <3>2 DEF Apart
  <2>7. Shape(t, beats', rollup') /\ \A b \in DOMAIN beats : b \in DOMAIN beats' /\ beats'[b].label = beats[b].label
    BY <2>2, <2>5
  <2> QED BY <2>2, <2>3, <2>6, <2>7, HeldStep
<1>2. CASE ReadGaps(w)
  <2>1. PICK g \in RecomputedGaps(DOMAIN View(w), s.since, s.kind = "ingest", s.until) :
          tx' = [tx EXCEPT ![w].gaps = g, ![w].pc = "gapsWait"]
    BY <1>2 DEF ReadGaps
  <2>2. g \in Tables(Beats, Nat \cup {NoGap}) /\ \A b \in DOMAIN g : s.since <= TimeOf[b]
    <3>1. s.since \in Nat /\ s.until \in Nat /\ DOMAIN View(w) \in SUBSET Beats
      BY <1>0, ViewIs DEF Tx
    <3> QED BY <3>1, RecomputedAreGaps
  <2> DEFINE t == [s EXCEPT !.gaps = g, !.pc = "gapsWait"]
  <2>3. tx' = [tx EXCEPT ![w] = t] /\ UNCHANGED <<beats, rollup>> /\ s.pc = "gaps"
    BY <1>2, <2>1 DEF ReadGaps
  <2>4. /\ t \in Tx /\ t.pc = "gapsWait" /\ t.gaps = g
        /\ t.own = s.own /\ t.alone = s.alone /\ t.cleared = s.cleared
        /\ t.doomed = s.doomed /\ t.made = s.made /\ t.batch = s.batch /\ t.since = s.since
        /\ t.kind = s.kind /\ t.until = s.until
    BY <1>0, <2>2 DEF Tx, Stages
  <2> HIDE DEF t
  <2>5. Shape(t, beats, rollup)
    BY <1>0, <2>2, <2>3, <2>4 DEF Shape, Rebuilds
  <2> QED BY <2>3, <2>4, <2>5, HeldTakesNothing
<1>3. CASE WriteGaps(w)
  <2> DEFINE r == Regapped(w)
  <2>1. /\ DOMAIN r = DOMAIN s.gaps \cap DOMAIN View(w)
        /\ \A b \in DOMAIN r : r[b].label = View(w)[b].label
    BY <1>0, RegappedIs
  <2>2. /\ DOMAIN View(w) = DOMAIN beats \cup DOMAIN s.own
        /\ \A b \in DOMAIN View(w) : View(w)[b] = IF b \in DOMAIN s.own THEN s.own[b] ELSE beats[b]
    BY <1>0, ViewIs
  <2>3. s.pc = "gapsWait" /\ DOMAIN s.gaps \cap Locked(w) = {} /\ UNCHANGED rollup
    BY <1>3 DEF WriteGaps
  <2>4. CASE s.kind = "resync"
    <3> DEFINE t == [s EXCEPT !.pc = "delete"]
    <3>1. tx' = [tx EXCEPT ![w] = t] /\ beats' = Over(r, beats)
      BY <1>3, <2>4 DEF WriteGaps
    <3>2. /\ t.pc = "delete" /\ t.gaps = s.gaps
          /\ t.own = s.own /\ t.alone = s.alone /\ t.cleared = s.cleared
          /\ t.doomed = s.doomed /\ t.made = s.made /\ t.batch = s.batch /\ t.since = s.since
          /\ t.kind = s.kind /\ t.until = s.until
      BY <1>0 DEF Tx
    <3> HIDE DEF t, r
    <3>3. DOMAIN s.own = {}
      BY <1>0, <2>4 DEF Shape, Rebuilds
    <3>4. \A b \in DOMAIN beats : b \in DOMAIN beats' /\ beats'[b].label = beats[b].label
      <4>1. /\ DOMAIN beats' = DOMAIN beats \cup DOMAIN r
            /\ \A b \in DOMAIN beats \cup DOMAIN r : beats'[b] = IF b \in DOMAIN r THEN r[b] ELSE beats[b]
        BY <3>1, OverIs
      <4> QED BY <2>1, <2>2, <3>3, <4>1
    <3>5. Shape(t, beats, rollup)
      BY <1>0, <2>3, <3>2, <3>3 DEF Shape, Rebuilds
    <3>6. Shape(t, beats', rollup')
      BY <2>3, <3>4, <3>5, ShapeStays
    <3>7. \A v \in Writers : v # w => Apart(t, tx[v]) /\ Apart(tx[v], t)
      BY <1>0, <3>2 DEF Apart
    <3> QED BY <2>3, <3>1, <3>2, <3>4, <3>6, <3>7, HeldStep
  <2>5. CASE s.kind # "resync"
    <3> DEFINE o == Over(r, s.own)
               t == [s EXCEPT !.own = o, !.pc = "delete"]
    <3>1. tx' = [tx EXCEPT ![w] = t] /\ UNCHANGED <<beats, rollup>>
      BY <1>3, <2>5 DEF WriteGaps
    <3> HIDE DEF r
    <3>2. /\ DOMAIN o = DOMAIN s.own \cup DOMAIN r
          /\ \A b \in DOMAIN s.own \cup DOMAIN r : o[b] = IF b \in DOMAIN r THEN r[b] ELSE s.own[b]
      BY OverIs
    <3> HIDE DEF o
    <3>3. /\ t.pc = "delete" /\ t.gaps = s.gaps /\ t.own = o
          /\ t.alone = s.alone /\ t.cleared = s.cleared
          /\ t.doomed = s.doomed /\ t.made = s.made /\ t.batch = s.batch /\ t.since = s.since
          /\ t.kind = s.kind /\ t.until = s.until
      BY <1>0 DEF Tx
    <3> HIDE DEF t
    <3>4. \A b \in DOMAIN o : /\ s.since <= TimeOf[b]
                              /\ IF b \in DOMAIN s.batch THEN o[b].label = s.batch[b]
                                 ELSE b \in DOMAIN beats /\ o[b].label = beats[b].label
      <4>1. /\ \A b \in DOMAIN s.own : /\ s.since <= TimeOf[b]
                              /\ IF b \in DOMAIN s.batch THEN s.own[b].label = s.batch[b]
                                 ELSE b \in DOMAIN beats /\ s.own[b].label = beats[b].label
            /\ \A b \in DOMAIN s.gaps : s.since <= TimeOf[b]
            /\ DOMAIN s.batch \subseteq DOMAIN s.own
        BY <1>0, <2>3 DEF Shape
      <4>2. TAKE b \in DOMAIN o
      <4>3. CASE b \in DOMAIN s.own
        <5>1. o[b].label = s.own[b].label
          BY <2>1, <2>2, <3>2, <4>2, <4>3
        <5> QED BY <4>1, <4>3, <5>1
      <4>4. CASE b \notin DOMAIN s.own
        <5>1. b \in DOMAIN r /\ b \in DOMAIN s.gaps /\ b \in DOMAIN beats /\ o[b].label = beats[b].label
          BY <2>1, <2>2, <3>2, <4>2, <4>4
        <5>2. b \notin DOMAIN s.batch /\ s.since <= TimeOf[b]
          BY <4>1, <4>4, <5>1
        <5> QED BY <5>1, <5>2
      <4> QED BY <4>3, <4>4
    <3>5. Shape(t, beats, rollup)
      <4>1. /\ s.kind \notin {"resync", "zone"} /\ DOMAIN s.batch \subseteq DOMAIN s.own
            /\ DOMAIN s.made = {}
            /\ \A b \in DOMAIN s.batch : s.since <= TimeOf[b] /\ TimeOf[b] <= s.until
        BY <1>0, <2>3, <2>5 DEF Shape
      <4>2. /\ t.doomed \cup t.cleared \subseteq DOMAIN rollup
            /\ DOMAIN t.made \cap (DOMAIN rollup \ t.cleared) = {}
        BY <1>0, <3>3, <4>1 DEF Shape
      <4> QED BY <3>2, <3>3, <3>4, <4>1, <4>2 DEF Shape, Rebuilds
    <3>6. ASSUME NEW v \in Writers, v # w PROVE Apart(t, tx[v]) /\ Apart(tx[v], t)
      <4>1. DOMAIN s.gaps \cap DOMAIN tx[v].own = {}
        BY <2>3, <3>6 DEF Locked, Others
      <4>2. Apart(s, tx[v]) /\ Apart(tx[v], s)
        BY <1>0, <3>6
      <4>3. DOMAIN o \cap DOMAIN tx[v].own = {}
        BY <2>1, <3>2, <4>1, <4>2 DEF Apart
      <4> QED BY <3>3, <4>2, <4>3 DEF Apart
    <3>7. Shape(t, beats', rollup') /\ \A b \in DOMAIN beats : b \in DOMAIN beats' /\ beats'[b].label = beats[b].label
      BY <3>1, <3>5
    <3> QED BY <2>3, <3>1, <3>3, <3>6, <3>7, HeldStep
  <2> QED BY <2>4, <2>5
<1>4. CASE ReadRollup(w)
  <2> DEFINE D == {k \in DOMAIN rollup : k[1] >= DeleteFrom(w)}
             t == [s EXCEPT !.zone = zone, !.pc = "deleteWait", !.doomed = D]
  <2>1. tx' = [tx EXCEPT ![w] = t] /\ UNCHANGED <<beats, rollup>> /\ s.pc = "delete"
    BY <1>4 DEF ReadRollup
  <2>2. D \subseteq DOMAIN rollup /\ D \in SUBSET Keys
    BY <1>0, TableIs DEF Typed
  <2> HIDE DEF D
  <2>3. /\ t \in Tx /\ t.pc = "deleteWait" /\ t.gaps = s.gaps /\ t.doomed = D
        /\ t.own = s.own /\ t.alone = s.alone /\ t.cleared = s.cleared
        /\ t.made = s.made /\ t.batch = s.batch /\ t.since = s.since
        /\ t.kind = s.kind /\ t.until = s.until
    BY <1>0, <2>2 DEF Tx, Stages, Typed
  <2> HIDE DEF t
  <2>4. Shape(t, beats, rollup)
    BY <1>0, <2>1, <2>2, <2>3 DEF Shape, Rebuilds
  <2> QED BY <2>1, <2>3, <2>4, HeldTakesNothing
<1>5. CASE DeleteRollup(w)
  <2> DEFINE t == [s EXCEPT !.cleared = s.doomed, !.doomed = {}, !.pc = "fill"]
  <2>1. /\ tx' = [tx EXCEPT ![w] = t] /\ UNCHANGED <<beats, rollup>> /\ s.pc = "deleteWait"
        /\ \A v \in Others(w) : s.doomed \cap tx[v].cleared = {}
    BY <1>5 DEF DeleteRollup
  <2>2. /\ t.pc = "fill" /\ t.gaps = s.gaps /\ t.doomed = {} /\ t.cleared = s.doomed
        /\ t.own = s.own /\ t.alone = s.alone
        /\ t.made = s.made /\ t.batch = s.batch /\ t.since = s.since
        /\ t.kind = s.kind /\ t.until = s.until
    BY <1>0 DEF Tx
  <2> HIDE DEF t
  <2>3. Shape(t, beats, rollup)
    BY <1>0, <2>1, <2>2 DEF Shape, Rebuilds
  <2>4. ASSUME NEW v \in Writers, v # w PROVE Apart(t, tx[v]) /\ Apart(tx[v], t)
    <3>1. s.doomed \cap tx[v].cleared = {} /\ Apart(s, tx[v]) /\ Apart(tx[v], s)
      BY <1>0, <2>1, <2>4 DEF Others
    <3>2. DOMAIN s.made = {} /\ s.doomed \subseteq DOMAIN rollup
      BY <1>0, <2>1 DEF Shape
    <3>3. DOMAIN tx[v].made \cap (DOMAIN rollup \ tx[v].cleared) = {}
      BY <2>4 DEF Held, Shape
    <3>4. DOMAIN tx[v].made \cap t.cleared = {}
      BY <2>2, <3>1, <3>2, <3>3
    <3> QED BY <2>2, <3>1, <3>2, <3>4 DEF Apart
  <2>5. Shape(t, beats', rollup') /\ \A b \in DOMAIN beats : b \in DOMAIN beats' /\ beats'[b].label = beats[b].label
    BY <2>1, <2>3
  <2> QED BY <2>1, <2>2, <2>4, <2>5, HeldStep
<1>6. CASE AggregateRows(w)
  <2> DEFINE A == Aggregate(View(w), Day(s.since, s.zone), s.zone)
             t == [s EXCEPT !.fill = A, !.pc = "fillWait"]
  <2>1. tx' = [tx EXCEPT ![w] = t] /\ UNCHANGED <<beats, rollup>> /\ s.pc = "fill"
    BY <1>6 DEF AggregateRows
  <2>2. A \in Tables(Keys, Nat)
    <3>1. Day(s.since, s.zone) \in Nat /\ s.zone \in Zones
      BY <1>0, DayIs, HeartbeatAssumption DEF Tx
    <3> QED BY <1>0, <3>1, ViewIs, AggregateIs
  <2> HIDE DEF A
  <2>3. /\ t \in Tx /\ t.pc = "fillWait" /\ t.gaps = s.gaps /\ t.doomed = s.doomed
        /\ t.own = s.own /\ t.alone = s.alone /\ t.cleared = s.cleared
        /\ t.made = s.made /\ t.batch = s.batch /\ t.since = s.since
        /\ t.kind = s.kind /\ t.until = s.until
    BY <1>0, <2>2 DEF Tx, Stages
  <2> HIDE DEF t
  <2>4. Shape(t, beats, rollup)
    BY <1>0, <2>1, <2>2, <2>3 DEF Shape, Rebuilds
  <2> QED BY <2>1, <2>3, <2>4, HeldTakesNothing
<1>7. CASE FillRollup(w)
  <2> DEFINE t == [s EXCEPT !.made = s.fill, !.fill = Nothing, !.pc = "commit"]
  <2>1. /\ tx' = [tx EXCEPT ![w] = t] /\ UNCHANGED <<beats, rollup>> /\ s.pc = "fillWait"
        /\ ~ Blocked(w) /\ DOMAIN s.fill \cap (DOMAIN rollup \ s.cleared) = {}
    BY <1>7 DEF FillRollup
  <2>2. /\ t.pc = "commit" /\ t.gaps = s.gaps /\ t.doomed = s.doomed /\ t.made = s.fill
        /\ t.own = s.own /\ t.alone = s.alone /\ t.cleared = s.cleared
        /\ t.batch = s.batch /\ t.since = s.since /\ t.kind = s.kind /\ t.until = s.until
    BY <1>0 DEF Tx
  <2> HIDE DEF t
  <2>3. Shape(t, beats, rollup)
    BY <1>0, <2>1, <2>2 DEF Shape, Rebuilds
  <2>4. ASSUME NEW v \in Writers, v # w PROVE Apart(t, tx[v]) /\ Apart(tx[v], t)
    <3>1. DOMAIN s.fill \cap (DOMAIN tx[v].made \cup tx[v].cleared) = {}
      BY <2>1, <2>4 DEF Blocked, Others
    <3>2. Apart(s, tx[v]) /\ Apart(tx[v], s)
      BY <1>0, <2>4
    <3> QED BY <2>2, <3>1, <3>2 DEF Apart
  <2>5. Shape(t, beats', rollup') /\ \A b \in DOMAIN beats : b \in DOMAIN beats' /\ beats'[b].label = beats[b].label
    BY <2>1, <2>3
  <2> QED BY <2>1, <2>2, <2>4, <2>5, HeldStep
<1> QED BY <1>1, <1>2, <1>3, <1>4, <1>5, <1>6, <1>7 DEF Statement

LEMMA HeldStart ==
  ASSUME Held, NEW w \in Writers, Start(w)
  PROVE  Solo' /\ Locks' /\ \A v \in Writers : Shape(tx[v], beats, rollup)'
<1>0. Typed /\ DOMAIN Nothing = {}
  BY DEF Held, Nothing
<1>1. ASSUME NEW kind \in Kinds, Save(w, kind)
      PROVE  Solo' /\ Locks' /\ \A v \in Writers : Shape(tx[v], beats, rollup)'
  <2> DEFINE S == IF kind = "workout" THEN Workouts ELSE Beats \ Workouts
  <2>1. S \in SUBSET Beats
    BY HeartbeatAssumption
  <2>2. PICK batch \in Batches(S) :
          LET times == {TimeOf[b] : b \in DOMAIN batch} IN
          Begin(w, kind, [Idle EXCEPT !.pc = "insert", !.batch = batch, !.since = Min(times),
                                      !.until = Max(times)])
    <3>1. Save(w, kind)
      BY <1>1
    <3> HIDE DEF S
    <3> QED BY <3>1, Zenon DEF Save, S
  <2> HIDE DEF S
  <2> DEFINE times == {TimeOf[b] : b \in DOMAIN batch}
             t == [Idle EXCEPT !.pc = "insert", !.batch = batch, !.since = Min(times),
                               !.until = Max(times)]
  <2>3. Begin(w, kind, t)
    BY <2>2
  <2>4. t \in Tx
    <3>1. batch \in Batches(S) /\ S \in SUBSET Beats
      BY <2>1
    <3> QED BY <3>1, SaveIsTx, Zenon
  <2>5. \A b \in DOMAIN batch : Min(times) <= TimeOf[b] /\ TimeOf[b] <= Max(times)
    BY <2>1, BatchIs
  <2> HIDE DEF times
  <2>6. /\ t.pc = "insert" /\ t.batch = batch /\ t.since = Min(times) /\ t.until = Max(times)
        /\ DOMAIN t.own = {} /\ DOMAIN t.made = {} /\ t.cleared = {} /\ t.doomed = {}
    BY <1>0 DEF Idle
  <2> HIDE DEF t
  <2>7. kind \notin {"resync", "zone"} /\ UNCHANGED <<beats, rollup>>
    BY <1>1 DEF Save
  <2> QED BY <2>3, <2>4, <2>5, <2>6, <2>7, HeldBegin
<1>2. CASE ResyncDerived(w)
  <2> DEFINE t == [Idle EXCEPT !.pc = "gaps"]
  <2>1. Begin(w, "resync", t) /\ UNCHANGED <<beats, rollup>>
    BY <1>2 DEF ResyncDerived
  <2>2. t \in Tx
    BY IdleIsTx DEF Tx, Stages
  <2>3. /\ t.pc = "gaps" /\ t.batch = Nothing /\ t.since = 0
        /\ DOMAIN t.own = {} /\ DOMAIN t.made = {} /\ t.cleared = {} /\ t.doomed = {}
    BY <1>0 DEF Idle
  <2> HIDE DEF t
  <2> QED BY <1>0, <2>1, <2>2, <2>3, HeldBegin
<1>3. ASSUME NEW z \in Zones, UpdateTimezone(w, z)
      PROVE  Solo' /\ Locks' /\ \A v \in Writers : Shape(tx[v], beats, rollup)'
  <2> DEFINE t == [Idle EXCEPT !.pc = "delete"]
  <2>1. Begin(w, "zone", t) /\ UNCHANGED <<beats, rollup>>
    BY <1>3 DEF UpdateTimezone
  <2>2. t \in Tx
    BY IdleIsTx DEF Tx, Stages
  <2>3. /\ t.pc = "delete" /\ t.batch = Nothing /\ t.since = 0
        /\ DOMAIN t.own = {} /\ DOMAIN t.made = {} /\ t.cleared = {} /\ t.doomed = {}
    BY <1>0 DEF Idle
  <2> HIDE DEF t
  <2> QED BY <1>0, <2>1, <2>2, <2>3, HeldBegin
<1> QED BY <1>1, <1>2, <1>3 DEF Start

LEMMA HeldNext == Held /\ [Next]_vars => Held'
<1> SUFFICES ASSUME Held, [Next]_vars PROVE Held'
  OBVIOUS
<1>0. Typed'
  BY TypedNext DEF Held
<1> SUFFICES Solo' /\ Locks' /\ \A v \in Writers : Shape(tx[v], beats, rollup)'
  BY <1>0 DEF Held
<1>1. ASSUME NEW w \in Writers, Start(w)
      PROVE  Solo' /\ Locks' /\ \A v \in Writers : Shape(tx[v], beats, rollup)'
  BY <1>1, HeldStart
<1>2. ASSUME NEW w \in Writers, Statement(w)
      PROVE  Solo' /\ Locks' /\ \A v \in Writers : Shape(tx[v], beats, rollup)'
  BY <1>2, HeldStatement
<1>3. ASSUME NEW w \in Writers, Commit(w)
      PROVE  Solo' /\ Locks' /\ \A v \in Writers : Shape(tx[v], beats, rollup)'
  BY <1>3, HeldCommit
<1>4. ASSUME NEW w \in Writers, Rollback(w)
      PROVE  Solo' /\ Locks' /\ \A v \in Writers : Shape(tx[v], beats, rollup)'
  <2>1. tx' = [tx EXCEPT ![w] = Idle] /\ UNCHANGED <<beats, rollup>>
    BY <1>4 DEF Rollback
  <2>2. \A v \in Writers : v # w => Apart(Idle, tx[v]) /\ Apart(tx[v], Idle)
    BY IdleHolds DEF Apart
  <2>3. \A b \in DOMAIN beats : b \in DOMAIN beats' /\ beats'[b].label = beats[b].label
    BY <2>1
  <2>4. Shape(Idle, beats', rollup') /\ Idle.pc = "idle"
    BY IdleHolds
  <2> QED BY <2>1, <2>2, <2>3, <2>4, HeldStep
<1>5. ASSUME NEW l \in Labels, NEW m \in Labels, ApplyRenameRule(l, m)
      PROVE  Solo' /\ Locks' /\ \A v \in Writers : Shape(tx[v], beats, rollup)'
  <2> DEFINE r == [b \in Matching(l) |-> [beats[b] EXCEPT !.label = m]]
  <2>1. Curate("rename", Matching(l)) /\ beats' = Over(r, beats) /\ DOMAIN r = Matching(l)
    BY <1>5 DEF ApplyRenameRule
  <2> HIDE DEF r
  <2>2. /\ DOMAIN beats' = DOMAIN beats \cup DOMAIN r
        /\ \A b \in DOMAIN beats \cup DOMAIN r : beats'[b] = IF b \in DOMAIN r THEN r[b] ELSE beats[b]
    BY <2>1, OverIs
  <2>3. \A b \in DOMAIN beats \ Matching(l) : b \in DOMAIN beats' /\ beats'[b] = beats[b]
    BY <2>1, <2>2
  <2> QED BY <2>1, <2>3, HeldCurate
<1>6. ASSUME NEW l \in Labels, PurgeHiddenRule(l)
      PROVE  Solo' /\ Locks' /\ \A v \in Writers : Shape(tx[v], beats, rollup)'
  <2>1. Curate("purge", Matching(l)) /\ beats' = Without(beats, Matching(l))
    BY <1>6 DEF PurgeHiddenRule
  <2>2. \A b \in DOMAIN beats \ Matching(l) : b \in DOMAIN beats' /\ beats'[b] = beats[b]
    BY <2>1, WithoutIs
  <2> QED BY <2>1, <2>2, HeldCurate
<1>7. CASE UNCHANGED vars
  BY <1>7 DEF Held, vars, Solo, Locks
<1> QED BY <1>1, <1>2, <1>3, <1>4, <1>5, <1>6, <1>7 DEF Next, Writing, Curating

LEMMA HeldIsTypeOK == Held => TypeOK
<1> SUFFICES ASSUME Held PROVE TypeOK
  OBVIOUS
<1>1. Typed /\ \A w \in Writers : Shape(tx[w], beats, rollup)
  BY DEF Held
<1>2. \A S, T, f : f \in Tables(S, T) => IsTable(f, S, T)
  BY TableIs DEF IsTable
<1>3. IsTable(beats, Beats, Row) /\ IsTable(rollup, Keys, Nat)
  BY <1>1, <1>2 DEF Typed
<1>4. ASSUME NEW w \in Writers
      PROVE  /\ DOMAIN tx[w] = DOMAIN Idle
             /\ IsTable(tx[w].batch, Beats, Labels)
             /\ IsTable(tx[w].own, Beats, Row)
             /\ IsTable(tx[w].gaps, Beats, Nat \cup {NoGap})
             /\ tx[w].doomed \cup tx[w].cleared \subseteq DOMAIN rollup
             /\ IsTable(tx[w].fill, Keys, Nat) /\ IsTable(tx[w].made, Keys, Nat)
             /\ tx[w].zone \in Zones
  <2>1. tx[w] \in Tx /\ Idle \in Tx
    BY <1>1, IdleIsTx DEF Typed
  <2>2. DOMAIN tx[w] = DOMAIN Idle
    BY <2>1 DEF Tx
  <2>3. /\ tx[w].batch \in Tables(Beats, Labels) /\ tx[w].own \in Tables(Beats, Row)
        /\ tx[w].gaps \in Tables(Beats, Nat \cup {NoGap})
        /\ tx[w].fill \in Tables(Keys, Nat) /\ tx[w].made \in Tables(Keys, Nat)
        /\ tx[w].zone \in Zones
    BY <2>1 DEF Tx
  <2>4. tx[w].doomed \cup tx[w].cleared \subseteq DOMAIN rollup
    BY <1>1 DEF Shape
  <2> QED BY <1>2, <2>2, <2>3, <2>4
<1> QED BY <1>1, <1>3, <1>4 DEF Typed, TypeOK

\* Whatever overlaps and fails, every writer holds only rows and keys it could
\* have written, and what it is about to delete or has deleted of the rollup is
\* there to be deleted: nobody else can have taken it away.
THEOREM IngestTypes == Spec => []TypeOK
<1>1. Init => Held
  BY HeldInit
<1>2. Held /\ [Next]_vars => Held'
  BY HeldNext
<1>3. Held => TypeOK
  BY HeldIsTypeOK
<1> QED BY <1>1, <1>2, <1>3, PTL DEF Spec

-----------------------------------------------------------------------------
(* Gaps.                                                                   *)

\* What a writer that runs alone will commit: the gaps it has computed are those
\* of its own view, and after it has written them that view is exact.
GapsHold(t, bs, st) ==
  t.pc # "idle" /\ t.alone =>
    /\ t.pc \in {"gaps", "gapsWait"} /\ ~ Rebuilds(t) => t.own = Upserted(bs, t.batch)
    /\ t.pc = "gapsWait" =>
         t.gaps \in RecomputedGaps(DOMAIN Over(t.own, bs), t.since, t.kind = "ingest", t.until)
    /\ t.pc \notin {"insert", "gaps", "gapsWait"} /\ t.kind # "raw" /\ "gaps" \notin st =>
         ExactGaps(Over(t.own, bs))

GapsInv ==
  /\ "gaps" \notin stale => ExactGaps(beats)
  /\ \A w \in Writers : GapsHold(tx[w], beats, stale)

\* Gaps do not depend on labels.
LEMMA GapsIgnoreLabels ==
  ASSUME NEW f, NEW g, DOMAIN g = DOMAIN f, \A b \in DOMAIN f : g[b].gap = f[b].gap, ExactGaps(f)
  PROVE  ExactGaps(g)
BY DEF ExactGaps

LEMMA NothingIsExact == ExactGaps(Nothing)
<1>1. DOMAIN Nothing = {}
  BY DEF Nothing
<1>2. {} \in Leaders({})
  BY DEF Leaders
<1> QED BY <1>1, <1>2 DEF ExactGaps

\* Beside an open writer nobody runs alone.
LEMMA CompanyOfOpen ==
  ASSUME Solo, NEW w \in Writers, tx[w].pc # "idle", NEW v \in Writers, v # w
  PROVE  tx[v].pc # "idle" => ~ tx[v].alone
BY DEF Solo

\* A view that adds no rows is the table.
LEMMA OverNone ==
  ASSUME NEW f \in Tables(Beats, Row), NEW g, DOMAIN g = {}
  PROVE  Over(g, f) = f
<1>1. f = [x \in DOMAIN f |-> f[x]]
  BY TableIs
<1> QED BY <1>1 DEF Over

LEMMA GapsInit == Init => GapsInv
<1> SUFFICES ASSUME Init PROVE GapsInv
  OBVIOUS
<1>1. ExactGaps(beats)
  BY NothingIsExact DEF Init
<1>2. \A w \in Writers : tx[w].pc = "idle"
  BY IdleHolds DEF Init
<1> QED BY <1>1, <1>2 DEF GapsInv, GapsHold

LEMMA GapsStart ==
  ASSUME Held, GapsInv, NEW w \in Writers, Start(w)
  PROVE  GapsInv'
<1>0. /\ Typed /\ beats \in Tables(Beats, Row) /\ DOMAIN Nothing = {}
      /\ Idle \in Tx /\ (\A v \in Writers : tx[v] \in Tx)
  BY IdleIsTx DEF Held, Typed, Nothing
<1>1. ASSUME NEW kind, NEW t \in Tx, Begin(w, kind, t), DOMAIN t.own = {},
             kind \in {"resync", "zone"} \/ t.pc = "insert",
             t.pc \in {"insert", "gaps", "delete"},
             beats' = beats, "gaps" \in stale' <=> "gaps" \in stale
      PROVE  GapsInv'
  <2>1. /\ tx'[w] = Beginning(t, kind) /\ kind \in Kinds
        /\ \A v \in Writers : v # w => tx'[v] = IF tx[v].pc = "idle" THEN tx[v] ELSE Joined(tx[v])
    BY <1>0, <1>1, BeginIs
  <2>2. tx'[w].pc = t.pc /\ tx'[w].own = t.own /\ tx'[w].kind = kind
    BY <1>1, <2>1, BeginningIs
  <2>3. Over(tx'[w].own, beats') = beats'
    BY <1>0, <1>1, <2>2, OverNone
  <2>4. "gaps" \notin stale' => ExactGaps(beats')
    BY <1>1 DEF GapsInv
  <2>5. GapsHold(tx'[w], beats', stale')
    BY <1>1, <2>2, <2>3, <2>4 DEF GapsHold, Rebuilds
  <2>6. ASSUME NEW v \in Writers, v # w PROVE GapsHold(tx'[v], beats', stale')
    <3>1. tx'[v].pc = "idle" \/ ~ tx'[v].alone
      <4>1. Joined(tx[v]).alone = FALSE
        BY <1>0, <2>6, JoinedIs
      <4> QED BY <2>1, <2>6, <4>1
    <3> QED BY <3>1 DEF GapsHold
  <2> QED BY <2>4, <2>5, <2>6 DEF GapsInv
<1>2. ASSUME NEW kind \in Kinds, Save(w, kind) PROVE GapsInv'
  <2> DEFINE S == IF kind = "workout" THEN Workouts ELSE Beats \ Workouts
  <2>1. S \in SUBSET Beats
    BY HeartbeatAssumption
  <2>2. PICK batch \in Batches(S) :
          LET times == {TimeOf[b] : b \in DOMAIN batch} IN
          Begin(w, kind, [Idle EXCEPT !.pc = "insert", !.batch = batch, !.since = Min(times),
                                      !.until = Max(times)])
    <3>1. Save(w, kind)
      BY <1>2
    <3> HIDE DEF S
    <3> QED BY <3>1, Zenon DEF Save, S
  <2> HIDE DEF S
  <2> DEFINE times == {TimeOf[b] : b \in DOMAIN batch}
             t == [Idle EXCEPT !.pc = "insert", !.batch = batch, !.since = Min(times),
                               !.until = Max(times)]
  <2>3. Begin(w, kind, t)
    BY <2>2
  <2>4. t \in Tx
    <3>1. batch \in Batches(S) /\ S \in SUBSET Beats
      BY <2>1
    <3> QED BY <3>1, SaveIsTx, Zenon
  <2> HIDE DEF times
  <2>5. t.pc = "insert" /\ DOMAIN t.own = {}
    BY <1>0 DEF Idle
  <2> HIDE DEF t
  <2>6. beats' = beats /\ stale' = stale
    BY <1>2 DEF Save
  <2> QED BY <1>1, <2>3, <2>4, <2>5, <2>6
<1>3. CASE ResyncDerived(w)
  <2> DEFINE t == [Idle EXCEPT !.pc = "gaps"]
  <2>1. Begin(w, "resync", t) /\ beats' = beats /\ stale' = stale
    BY <1>3 DEF ResyncDerived
  <2>2. t \in Tx /\ t.pc = "gaps" /\ DOMAIN t.own = {}
    BY <1>0, IdleHolds DEF Tx, Stages
  <2> HIDE DEF t
  <2> QED BY <1>1, <2>1, <2>2
<1>4. ASSUME NEW z \in Zones, UpdateTimezone(w, z) PROVE GapsInv'
  <2> DEFINE t == [Idle EXCEPT !.pc = "delete"]
  <2>1. Begin(w, "zone", t) /\ beats' = beats /\ stale' = stale \cup {"rollup"}
    BY <1>4 DEF UpdateTimezone
  <2>2. t \in Tx /\ t.pc = "delete" /\ DOMAIN t.own = {}
    BY <1>0, IdleHolds DEF Tx, Stages
  <2> HIDE DEF t
  <2> QED BY <1>1, <2>1, <2>2
<1> QED BY <1>2, <1>3, <1>4 DEF Start

\* A step of one writer, beside whom nobody runs alone.
LEMMA GapsStep ==
  ASSUME Held, NEW w \in Writers, tx[w].pc # "idle",
         \A v \in Writers : v # w => tx'[v].pc = tx[v].pc /\ tx'[v].alone = tx[v].alone,
         "gaps" \notin stale' => ExactGaps(beats'),
         GapsHold(tx'[w], beats', stale')
  PROVE  GapsInv'
<1>1. ASSUME NEW v \in Writers, v # w PROVE GapsHold(tx'[v], beats', stale')
  <2>1. tx[v].pc # "idle" => ~ tx[v].alone
    BY <1>1, CompanyOfOpen DEF Held
  <2> QED BY <1>1, <2>1 DEF GapsHold
<1> QED BY <1>1 DEF GapsInv

\* The gaps of one batch, written by a writer that runs alone.
LEMMA GapsWritten ==
  ASSUME Held, GapsInv, NEW w \in Writers, WriteGaps(w), tx[w].kind # "resync", tx[w].alone,
         "gaps" \notin stale
  PROVE  ExactGaps(Over(Over(Regapped(w), tx[w].own), beats))
<1> DEFINE s == tx[w]
           r == Regapped(w)
           o == Over(r, s.own)
           new == Over(o, beats)
           S == DOMAIN View(w)
<1>0. /\ Typed /\ s \in Tx /\ Shape(s, beats, rollup) /\ GapsHold(s, beats, stale)
      /\ beats \in Tables(Beats, Row) /\ ExactGaps(beats) /\ s.pc = "gapsWait"
  BY DEF Held, Typed, GapsInv, WriteGaps
<1>1. s.kind \notin {"resync", "zone"}
  BY <1>0 DEF Shape
<1>2. /\ s.own = Upserted(beats, s.batch)
      /\ s.gaps \in RecomputedGaps(S, s.since, s.kind = "ingest", s.until)
  BY <1>0, <1>1 DEF GapsHold, Rebuilds, View
<1>3. s.since \in Nat /\ s.until \in Nat /\ S \in SUBSET Beats /\ (s.kind = "ingest") \in BOOLEAN
  BY <1>0, ViewIs DEF Tx
<1>4. DOMAIN s.gaps \subseteq S
  BY <1>2, <1>3, RecomputedAreGaps
<1>5. /\ S = DOMAIN beats \cup DOMAIN s.own
      /\ DOMAIN s.own = DOMAIN s.batch
      /\ \A b \in DOMAIN s.own : s.own[b].gap = IF b \in DOMAIN beats THEN beats[b].gap ELSE NoGap
  <2>1. s.batch \in Tables(Beats, Labels)
    BY <1>0 DEF Tx
  <2>2. S = DOMAIN beats \cup DOMAIN s.own
    BY <1>0, ViewIs
  <2> DEFINE u == Upserted(beats, s.batch)
  <2>3. /\ DOMAIN u = DOMAIN s.batch
        /\ \A b \in DOMAIN s.batch : u[b].gap = IF b \in DOMAIN beats THEN beats[b].gap ELSE NoGap
    BY <1>0, <2>1, UpsertedIs
  <2>4. s.own = u
    BY <1>2
  <2> HIDE DEF u
  <2> QED BY <2>2, <2>3, <2>4
<1>6. DOMAIN r = DOMAIN s.gaps /\ \A b \in DOMAIN r : r[b].gap = s.gaps[b]
  BY <1>0, <1>4, RegappedIs
<1> HIDE DEF r
<1>7. /\ DOMAIN o = DOMAIN s.own \cup DOMAIN r
      /\ \A b \in DOMAIN s.own \cup DOMAIN r : o[b] = IF b \in DOMAIN r THEN r[b] ELSE s.own[b]
  BY OverIs
<1> HIDE DEF o
<1>8. /\ DOMAIN new = DOMAIN beats \cup DOMAIN o
      /\ \A b \in DOMAIN beats \cup DOMAIN o : new[b] = IF b \in DOMAIN o THEN o[b] ELSE beats[b]
  BY OverIs
<1> HIDE DEF new, S
<1>9. DOMAIN new = S
  BY <1>4, <1>5, <1>6, <1>7, <1>8
<1>10. \A b \in DOMAIN s.gaps : new[b].gap = s.gaps[b]
  BY <1>6, <1>7, <1>8
<1>11. \A b \in DOMAIN beats \ DOMAIN s.gaps : new[b].gap = beats[b].gap
  BY <1>5, <1>6, <1>7, <1>8
<1>12. \A b \in S \ DOMAIN beats : s.since <= TimeOf[b] /\ TimeOf[b] <= s.until
  BY <1>0, <1>5 DEF Shape
<1>13. DOMAIN beats \subseteq Beats /\ DOMAIN beats \subseteq S
  BY <1>0, <1>5, TableIs
<1> HIDE DEF s
<1>14. ExactGaps(new)
  <2> DEFINE bounded == s.kind = "ingest"
             g == s.gaps
  <2>1. g \in RecomputedGaps(S, s.since, bounded, s.until) /\ bounded \in BOOLEAN
    BY <1>2
  <2>2. (\A b \in DOMAIN g : new[b].gap = g[b]) /\ \A b \in DOMAIN beats \ DOMAIN g : new[b].gap = beats[b].gap
    BY <1>10, <1>11
  <2>3. ExactGaps(beats)
    BY <1>0
  <2> HIDE DEF bounded, g
  <2> QED BY <1>3, <1>9, <1>12, <1>13, <2>1, <2>2, <2>3, WindowIsEnough
<1> QED BY <1>14 DEF new, o, r, s

\* The gaps a resync computes over all rows and writes to them.
LEMMA GapsRewritten ==
  ASSUME Held, GapsInv, NEW w \in Writers, WriteGaps(w), tx[w].kind = "resync", tx[w].alone
  PROVE  ExactGaps(Over(Regapped(w), beats))
<1> DEFINE s == tx[w]
           r == Regapped(w)
           new == Over(r, beats)
<1>0. /\ Typed /\ s \in Tx /\ Shape(s, beats, rollup) /\ GapsHold(s, beats, stale)
      /\ beats \in Tables(Beats, Row) /\ s.pc = "gapsWait"
  BY DEF Held, Typed, GapsInv, WriteGaps
<1>1. DOMAIN s.own = {} /\ s.since = 0
  BY <1>0 DEF Shape, Rebuilds
<1>2. Over(s.own, beats) = beats
  BY <1>0, <1>1, OverNone
<1>3. s.gaps \in RecomputedGaps(DOMAIN Over(s.own, beats), s.since, s.kind = "ingest", s.until)
  BY <1>0 DEF GapsHold
<1>4. (s.kind = "ingest") = FALSE
  OBVIOUS
<1>5. s.gaps \in RecomputedGaps(DOMAIN beats, 0, FALSE, s.until)
  BY <1>1, <1>2, <1>3, <1>4
<1>6. s.until \in Nat /\ DOMAIN beats \in SUBSET Beats
  BY <1>0, TableIs DEF Tx
<1>7. DOMAIN s.gaps \subseteq DOMAIN beats
  <2> DEFINE bounded == FALSE
             since == 0
  <2>1. bounded \in BOOLEAN /\ since \in Nat /\ s.gaps \in RecomputedGaps(DOMAIN beats, since, bounded, s.until)
    BY <1>5
  <2> HIDE DEF bounded, since
  <2> QED BY <1>6, <2>1, RecomputedAreGaps
<1>8. DOMAIN View(w) = DOMAIN beats
  BY <1>2 DEF View
<1>9. DOMAIN r = DOMAIN s.gaps /\ \A b \in DOMAIN r : r[b].gap = s.gaps[b]
  BY <1>0, <1>7, <1>8, RegappedIs
<1> HIDE DEF r
<1>10. /\ DOMAIN new = DOMAIN beats \cup DOMAIN r
       /\ \A b \in DOMAIN beats \cup DOMAIN r : new[b] = IF b \in DOMAIN r THEN r[b] ELSE beats[b]
  BY OverIs
<1> HIDE DEF new, s
<1>11. DOMAIN new = DOMAIN beats /\ \A b \in DOMAIN s.gaps : new[b].gap = s.gaps[b]
  BY <1>7, <1>9, <1>10
<1>12. ExactGaps(new)
  BY <1>5, <1>6, <1>11, FullWindowIsExact
<1> QED BY <1>12 DEF new, r

LEMMA GapsStatement ==
  ASSUME Held, GapsInv, NEW w \in Writers, Statement(w)
  PROVE  GapsInv'
<1> DEFINE s == tx[w]
<1>0. /\ Typed /\ s \in Tx /\ tx \in [Writers -> Tx] /\ Shape(s, beats, rollup)
      /\ GapsHold(s, beats, stale)
      /\ "gaps" \notin stale => ExactGaps(beats)
  BY DEF Held, Typed, GapsInv
\* The step changes tx[w] only, and leaves company alone.
<1>1. ASSUME NEW t, tx' = [tx EXCEPT ![w] = t], s.pc # "idle",
             "gaps" \notin stale' => ExactGaps(beats'),
             GapsHold(t, beats', stale')
      PROVE  GapsInv'
  <2>1. tx'[w] = t /\ \A v \in Writers : v # w => tx'[v] = tx[v]
    BY <1>0, <1>1
  <2> QED BY <1>1, <2>1, GapsStep
<1>2. CASE InsertHeartbeats(w)
  <2> DEFINE o == Upserted(beats, s.batch)
             t == [s EXCEPT !.own = o, !.pc = IF s.kind = "raw" THEN "commit" ELSE "gaps"]
  <2>1. tx' = [tx EXCEPT ![w] = t] /\ UNCHANGED <<beats, stale>> /\ s.pc = "insert"
    BY <1>2 DEF InsertHeartbeats
  <2> HIDE DEF o
  <2>2. /\ t.pc = (IF s.kind = "raw" THEN "commit" ELSE "gaps") /\ t.own = o
        /\ t.kind = s.kind /\ t.batch = s.batch
    BY <1>0 DEF Tx
  <2> HIDE DEF t
  <2>3. GapsHold(t, beats', stale')
    BY <2>1, <2>2 DEF GapsHold, o
  <2> QED BY <1>0, <1>1, <2>1, <2>3
<1>3. CASE ReadGaps(w)
  <2>1. PICK g \in RecomputedGaps(DOMAIN View(w), s.since, s.kind = "ingest", s.until) :
          tx' = [tx EXCEPT ![w].gaps = g, ![w].pc = "gapsWait"]
    BY <1>3 DEF ReadGaps
  <2> DEFINE t == [s EXCEPT !.gaps = g, !.pc = "gapsWait"]
  <2>2. tx' = [tx EXCEPT ![w] = t] /\ UNCHANGED <<beats, stale>> /\ s.pc = "gaps"
    BY <1>3, <2>1 DEF ReadGaps
  <2>3. /\ t.pc = "gapsWait" /\ t.gaps = g /\ t.own = s.own /\ t.alone = s.alone
        /\ t.kind = s.kind /\ t.batch = s.batch /\ t.since = s.since /\ t.until = s.until
    BY <1>0 DEF Tx
  <2> HIDE DEF t
  <2>4. GapsHold(t, beats', stale')
    BY <1>0, <2>2, <2>3 DEF GapsHold, View, Rebuilds
  <2> QED BY <1>0, <1>1, <2>2, <2>4
<1>4. CASE WriteGaps(w)
  <2>0. s.pc = "gapsWait"
    BY <1>4 DEF WriteGaps
  <2>1. CASE s.kind = "resync"
    <3> DEFINE t == [s EXCEPT !.pc = "delete"]
    <3>1. /\ tx' = [tx EXCEPT ![w] = t] /\ beats' = Over(Regapped(w), beats)
          /\ stale' = {"rollup"} \cup (IF s.alone THEN {} ELSE {"gaps"})
      BY <1>4, <2>1 DEF WriteGaps
    <3>2. t.pc = "delete" /\ t.own = s.own /\ t.alone = s.alone /\ t.kind = s.kind
      BY <1>0 DEF Tx
    <3> HIDE DEF t
    <3>3. "gaps" \notin stale' => s.alone
      BY <3>1
    <3>4. "gaps" \notin stale' => ExactGaps(beats')
      BY <1>4, <2>1, <3>1, <3>3, GapsRewritten
    <3>5. Over(t.own, beats') = beats'
      <4>1. DOMAIN t.own = {}
        BY <1>0, <2>1, <3>2 DEF Shape, Rebuilds
      <4>2. beats' \in Tables(Beats, Row)
        BY <1>0, <3>1, RegappedIs, OverIsTable DEF Typed
      <4> QED BY <4>1, <4>2, OverNone
    <3>6. GapsHold(t, beats', stale')
      BY <2>1, <3>2, <3>4, <3>5 DEF GapsHold, Rebuilds
    <3> QED BY <1>1, <2>0, <3>1, <3>4, <3>6
  <2>2. CASE s.kind # "resync"
    <3> DEFINE o == Over(Regapped(w), s.own)
               t == [s EXCEPT !.own = o, !.pc = "delete"]
    <3>1. tx' = [tx EXCEPT ![w] = t] /\ beats' = beats /\ stale' = stale
      BY <1>4, <2>2 DEF WriteGaps
    <3>2. s.alone /\ "gaps" \notin stale => ExactGaps(Over(o, beats))
      BY <1>4, <2>2, GapsWritten
    <3> HIDE DEF o
    <3>3. t.pc = "delete" /\ t.own = o /\ t.alone = s.alone /\ t.kind = s.kind
      BY <1>0 DEF Tx
    <3> HIDE DEF t
    <3>4. GapsHold(t, beats', stale')
      BY <3>1, <3>2, <3>3 DEF GapsHold
    <3> QED BY <1>0, <1>1, <2>0, <3>1, <3>4
  <2> QED BY <2>1, <2>2
\* The rest does not touch heartbeats.
<1>5. ASSUME NEW t, tx' = [tx EXCEPT ![w] = t], UNCHANGED <<beats, stale>>,
             s.pc \in {"delete", "deleteWait", "fill", "fillWait"},
             t.pc \in {"deleteWait", "fill", "fillWait", "commit"},
             t.own = s.own, t.alone = s.alone, t.kind = s.kind
      PROVE  GapsInv'
  <2>1. GapsHold(t, beats', stale')
    BY <1>0, <1>5 DEF GapsHold
  <2> QED BY <1>0, <1>1, <1>5, <2>1
<1>6. CASE ReadRollup(w)
  <2> DEFINE D == {k \in DOMAIN rollup : k[1] >= DeleteFrom(w)}
             t == [s EXCEPT !.zone = zone, !.pc = "deleteWait", !.doomed = D]
  <2>1. tx' = [tx EXCEPT ![w] = t] /\ UNCHANGED <<beats, stale>> /\ s.pc = "delete"
    BY <1>6 DEF ReadRollup
  <2> HIDE DEF D
  <2>2. t.pc = "deleteWait" /\ t.own = s.own /\ t.alone = s.alone /\ t.kind = s.kind
    BY <1>0 DEF Tx
  <2> HIDE DEF t
  <2> QED BY <1>5, <2>1, <2>2
<1>7. CASE DeleteRollup(w)
  <2> DEFINE t == [s EXCEPT !.cleared = s.doomed, !.doomed = {}, !.pc = "fill"]
  <2>1. tx' = [tx EXCEPT ![w] = t] /\ UNCHANGED <<beats, stale>> /\ s.pc = "deleteWait"
    BY <1>7 DEF DeleteRollup
  <2>2. t.pc = "fill" /\ t.own = s.own /\ t.alone = s.alone /\ t.kind = s.kind
    BY <1>0 DEF Tx
  <2> HIDE DEF t
  <2> QED BY <1>5, <2>1, <2>2
<1>8. CASE AggregateRows(w)
  <2> DEFINE A == Aggregate(View(w), Day(s.since, s.zone), s.zone)
             t == [s EXCEPT !.fill = A, !.pc = "fillWait"]
  <2>1. tx' = [tx EXCEPT ![w] = t] /\ UNCHANGED <<beats, stale>> /\ s.pc = "fill"
    BY <1>8 DEF AggregateRows
  <2> HIDE DEF A
  <2>2. t.pc = "fillWait" /\ t.own = s.own /\ t.alone = s.alone /\ t.kind = s.kind
    BY <1>0 DEF Tx
  <2> HIDE DEF t
  <2> QED BY <1>5, <2>1, <2>2
<1>9. CASE FillRollup(w)
  <2> DEFINE t == [s EXCEPT !.made = s.fill, !.fill = Nothing, !.pc = "commit"]
  <2>1. tx' = [tx EXCEPT ![w] = t] /\ UNCHANGED <<beats, stale>> /\ s.pc = "fillWait"
    BY <1>9 DEF FillRollup
  <2>2. t.pc = "commit" /\ t.own = s.own /\ t.alone = s.alone /\ t.kind = s.kind
    BY <1>0 DEF Tx
  <2> HIDE DEF t
  <2> QED BY <1>5, <2>1, <2>2
<1> QED BY <1>2, <1>3, <1>4, <1>6, <1>7, <1>8, <1>9 DEF Statement

LEMMA GapsCommit ==
  ASSUME Held, GapsInv, NEW w \in Writers, Commit(w)
  PROVE  GapsInv'
<1> DEFINE s == tx[w]
<1>0. /\ Typed /\ GapsHold(s, beats, stale) /\ s \in Tx
  BY DEF Held, Typed, GapsInv
<1>1. /\ s.pc = "commit" /\ tx'[w] = Idle
      /\ \A v \in Writers : v # w => tx[v] \in Tx /\ tx'[v] = Passed(s, tx[v])
      /\ beats' = Over(s.own, beats) /\ stale' = StaleAfter(w)
  BY <1>0, CommitIs
<1>2. \A v \in Writers : v # w => tx'[v].pc = tx[v].pc /\ tx'[v].alone = tx[v].alone
  BY <1>0, <1>1, PassedIs
<1>3. ASSUME "gaps" \notin stale' PROVE ExactGaps(beats')
  <2>1. s.kind # "raw" /\ s.alone /\ "gaps" \notin stale
    BY <1>1, <1>3 DEF StaleAfter
  <2> QED BY <1>0, <1>1, <2>1 DEF GapsHold
<1>4. GapsHold(tx'[w], beats', stale')
  BY <1>1, IdleHolds DEF GapsHold
<1> QED BY <1>1, <1>2, <1>3, <1>4, GapsStep

LEMMA GapsNext == Held /\ GapsInv /\ [Next]_vars => GapsInv'
<1> SUFFICES ASSUME Held, GapsInv, [Next]_vars PROVE GapsInv'
  OBVIOUS
<1>0. /\ Typed /\ tx \in [Writers -> Tx] /\ (\A v \in Writers : tx[v] \in Tx)
      /\ beats \in Tables(Beats, Row)
  BY DEF Held, Typed
<1>1. ASSUME NEW w \in Writers, Start(w) PROVE GapsInv'
  BY <1>1, GapsStart
<1>2. ASSUME NEW w \in Writers, Statement(w) PROVE GapsInv'
  BY <1>2, GapsStatement
<1>3. ASSUME NEW w \in Writers, Commit(w) PROVE GapsInv'
  BY <1>3, GapsCommit
<1>4. ASSUME NEW w \in Writers, Rollback(w) PROVE GapsInv'
  <2>1. tx[w].pc # "idle" /\ tx' = [tx EXCEPT ![w] = Idle] /\ UNCHANGED <<beats, stale>>
    BY <1>4 DEF Rollback
  <2>2. tx'[w] = Idle /\ \A v \in Writers : v # w => tx'[v] = tx[v]
    BY <1>0, <2>1
  <2>3. GapsHold(tx'[w], beats', stale')
    BY <2>2, IdleHolds DEF GapsHold
  <2>4. "gaps" \notin stale' => ExactGaps(beats')
    BY <2>1 DEF GapsInv
  <2> QED BY <2>1, <2>2, <2>3, <2>4, GapsStep
\* Nobody runs alone beside a rule.
<1>5. ASSUME NEW kind, NEW matching, Curate(kind, matching),
             "gaps" \notin stale' => ExactGaps(beats')
      PROVE  GapsInv'
  <2>1. ASSUME NEW v \in Writers PROVE GapsHold(tx'[v], beats', stale')
    <3>1. tx'[v] = IF tx[v].pc = "idle" THEN tx[v] ELSE Joined(tx[v])
      BY <1>0, <1>5, CurateIs
    <3>2. Joined(tx[v]).alone = FALSE
      BY <1>0, JoinedIs
    <3> QED BY <3>1, <3>2 DEF GapsHold
  <2> QED BY <1>5, <2>1 DEF GapsInv
<1>6. ASSUME NEW l \in Labels, NEW m \in Labels, ApplyRenameRule(l, m) PROVE GapsInv'
  <2> DEFINE r == [b \in Matching(l) |-> [beats[b] EXCEPT !.label = m]]
  <2>1. /\ Curate("rename", Matching(l)) /\ beats' = Over(r, beats) /\ DOMAIN r = Matching(l)
        /\ stale' = stale \cup {"rollup"}
    BY <1>6 DEF ApplyRenameRule
  <2>2. \A b \in DOMAIN r : b \in DOMAIN beats /\ r[b].gap = beats[b].gap
    <3>1. \A b \in DOMAIN beats : beats[b] \in Row
      BY <1>0, TableIs
    <3> QED BY <3>1 DEF Matching, Row
  <2> HIDE DEF r
  <2>3. /\ DOMAIN beats' = DOMAIN beats \cup DOMAIN r
        /\ \A b \in DOMAIN beats \cup DOMAIN r : beats'[b] = IF b \in DOMAIN r THEN r[b] ELSE beats[b]
    BY <2>1, OverIs
  <2>4. DOMAIN beats' = DOMAIN beats /\ \A b \in DOMAIN beats : beats'[b].gap = beats[b].gap
    BY <2>2, <2>3
  <2>5. ExactGaps(beats) => ExactGaps(beats')
    BY <2>4, GapsIgnoreLabels
  <2> QED BY <1>5, <2>1, <2>5 DEF GapsInv
<1>7. ASSUME NEW l \in Labels, PurgeHiddenRule(l) PROVE GapsInv'
  BY <1>5, <1>7 DEF PurgeHiddenRule
<1>8. CASE UNCHANGED vars
  BY <1>8 DEF GapsInv, vars
<1> QED BY <1>1, <1>2, <1>3, <1>4, <1>6, <1>7, <1>8 DEF Next, Writing, Curating

\* Whatever the order in which batches arrive and whatever fails: after saves
\* and resyncs that ran one at a time every gap reaches back to the beat before,
\* although a save recomputes no more than the window around its batch.
THEOREM GapsStayExact == Spec => []GapsAreExact
<1>1. Init => Held /\ GapsInv
  BY HeldInit, GapsInit
<1>2. Held /\ GapsInv /\ [Next]_vars => (Held /\ GapsInv)'
  BY HeldNext, GapsNext
<1>3. Held /\ GapsInv => GapsAreExact
  BY DEF GapsInv, GapsAreExact
<1> QED BY <1>1, <1>2, <1>3, PTL DEF Spec

-----------------------------------------------------------------------------
(* The rollup.                                                             *)

\* The rollup has the keys of the rows, and nothing else, with their seconds.
Fits(table, roll, z) ==
  /\ \A b \in DOMAIN table : RollupKey(b, table[b], z) \in DOMAIN roll
  /\ \A k \in DOMAIN roll : Rows(table, z, k) # {} /\ roll[k] = Fresh(table, z, k)

From(t, z) == Day(t.since, z)

\* What a refresh has found or inserted.
Out(t) == IF t.pc = "fillWait" THEN t.fill ELSE t.made

\* A refresh under way.  It deletes from one day on, everything there if it is
\* alone.  What it inserts covers the rows it has written, and all keys it has
\* deleted that still have rows; and every value it inserts is still the one of
\* its view, unless the key is taken and the INSERT cannot succeed.
Covers(t, view, z) ==
  \A b \in IF t.alone THEN DOMAIN view ELSE DOMAIN t.own :
    Day(TimeOf[b], z) >= From(t, z) => RollupKey(b, view[b], z) \in DOMAIN Out(t)

Replaces(t, view, z) == \A k \in t.cleared : k \in DOMAIN Out(t) \/ Rows(view, z, k) = {}

Current(t, view, ro, z) ==
  \A k \in DOMAIN Out(t) :
    /\ Rows(view, z, k) # {}
    /\ \/ t.pc = "fillWait" /\ k \in DOMAIN ro \ t.cleared
       \/ Out(t)[k] = Fresh(view, z, k)

Refreshes(t, bs, ro, z) ==
  /\ t.pc \in {"deleteWait", "fill", "fillWait", "commit"} => t.zone = z
  /\ t.alone =>
       /\ t.pc = "deleteWait" => t.doomed = {k \in DOMAIN ro : k[1] >= From(t, z)}
       /\ t.pc \in {"fill", "fillWait", "commit"} => t.cleared = {k \in DOMAIN ro : k[1] >= From(t, z)}
  /\ \A k \in t.doomed \cup t.cleared : k[1] >= From(t, z)
  /\ t.pc \in {"fillWait", "commit"} =>
       /\ Covers(t, Over(t.own, bs), z)
       /\ Replaces(t, Over(t.own, bs), z)
       /\ Current(t, Over(t.own, bs), ro, z)

\* The writers whose commit has to leave the rollup exact.
Bound(t, st) == /\ t.pc # "idle" /\ t.kind # "raw"
                /\ "rollup" \notin st \/ (t.alone /\ Rebuilds(t))

RollupInv ==
  /\ "rollup" \notin stale => Fits(beats, rollup, zone)
  /\ \A w \in Writers : Bound(tx[w], stale) => Refreshes(tx[w], beats, rollup, zone)

LEMMA KeyIs ==
  \A b, r, z : RollupKey(b, r, z)[1] = Day(TimeOf[b], z) /\ RollupKey(b, r, z)[2] = r.label
BY DEF RollupKey

LEMMA RowIs ==
  \A f, z, k, b : b \in Rows(f, z, k) <=> b \in DOMAIN f /\ RollupKey(b, f[b], z) = k
BY DEF Rows

LEMMA FitsIsExact ==
  ASSUME NEW f \in Tables(Beats, Row), NEW r \in Tables(Keys, Nat), NEW z \in Zones, Fits(f, r, z)
  PROVE  ExactRollup(f, r, z)
<1> DEFINE A == Aggregate(f, 0, z)
<1>1. /\ A \in Tables(Keys, Nat)
      /\ \A b \in DOMAIN f : Day(TimeOf[b], z) >= 0 => RollupKey(b, f[b], z) \in DOMAIN A
      /\ \A k \in DOMAIN A : Rows(f, z, k) # {} /\ A[k] = Fresh(f, z, k)
  <2> DEFINE from == 0
  <2>1. from \in Nat
    OBVIOUS
  <2> HIDE DEF from
  <2>2. /\ Aggregate(f, from, z) \in Tables(Keys, Nat)
        /\ \A b \in DOMAIN f : Day(TimeOf[b], z) >= from => RollupKey(b, f[b], z) \in DOMAIN Aggregate(f, from, z)
        /\ \A k \in DOMAIN Aggregate(f, from, z) :
             Rows(f, z, k) # {} /\ Aggregate(f, from, z)[k] = Fresh(f, z, k)
    BY <2>1, AggregateIs
  <2> QED BY <2>2 DEF from
<1> HIDE DEF A
<1>2. \A b \in DOMAIN f : Day(TimeOf[b], z) >= 0
  BY TableIs, DayIs, HeartbeatAssumption
<1>3. ASSUME NEW k PROVE k \in DOMAIN A <=> k \in DOMAIN r
  <2>1. ASSUME k \in DOMAIN A PROVE k \in DOMAIN r
    <3>1. PICK b : b \in Rows(f, z, k)
      BY <1>1, <2>1
    <3> QED BY <3>1, RowIs DEF Fits
  <2>2. ASSUME k \in DOMAIN r PROVE k \in DOMAIN A
    <3>1. PICK b : b \in Rows(f, z, k)
      BY <2>2 DEF Fits
    <3> QED BY <1>1, <1>2, <3>1, RowIs
  <2> QED BY <2>1, <2>2
<1>4. \A k \in DOMAIN r : r[k] = A[k]
  BY <1>1, <1>3 DEF Fits
<1>5. DOMAIN A = DOMAIN r
  BY <1>3
<1>6. A = [k \in DOMAIN A |-> A[k]] /\ r = [k \in DOMAIN r |-> r[k]]
  BY <1>1, TableIs
<1>7. r = A
  BY <1>4, <1>5, <1>6
<1> QED BY <1>7 DEF ExactRollup, A

LEMMA FreshAgrees ==
  ASSUME NEW f, NEW g, NEW z, NEW k, Rows(f, z, k) = Rows(g, z, k),
         \A b \in Rows(f, z, k) : f[b] = g[b]
  PROVE  Fresh(f, z, k) = Fresh(g, z, k)
<1>1. \A b \in Rows(f, z, k) : b \in DOMAIN f /\ b \in DOMAIN g
  BY RowIs
<1>2. \A b \in Rows(f, z, k) : CountOf(f)[b] = CountOf(g)[b]
  BY <1>1 DEF CountOf
<1> QED BY <1>2, SumDependsOnValues DEF Fresh

\* Rows that are of other keys, before and after, do not touch a key.
LEMMA RowsElsewhere ==
  ASSUME NEW o, NEW f, NEW z, NEW k,
         \A b \in DOMAIN o : RollupKey(b, o[b], z) # k,
         \A b \in DOMAIN o \cap DOMAIN f : RollupKey(b, f[b], z) # k
  PROVE  Rows(Over(o, f), z, k) = Rows(f, z, k) /\ Fresh(Over(o, f), z, k) = Fresh(f, z, k)
<1> DEFINE g == Over(o, f)
<1>1. DOMAIN g = DOMAIN f \cup DOMAIN o /\ \A x \in DOMAIN f \cup DOMAIN o : g[x] = IF x \in DOMAIN o THEN o[x] ELSE f[x]
  BY OverIs
<1> HIDE DEF g
<1>2. ASSUME NEW b PROVE b \in Rows(g, z, k) <=> b \in Rows(f, z, k)
  BY <1>1, RowIs
<1>3. ASSUME NEW b \in Rows(f, z, k) PROVE f[b] = g[b]
  BY <1>1, RowIs
<1>4. Rows(g, z, k) = Rows(f, z, k)
  BY <1>2
<1> QED BY <1>3, <1>4, FreshAgrees DEF g

\* Rows of two transactions that hold different ones can be written in any order.
LEMMA OversCommute ==
  ASSUME NEW o, NEW p, NEW f, DOMAIN o \cap DOMAIN p = {}
  PROVE  Over(o, Over(p, f)) = Over(p, Over(o, f))
BY DEF Over

\* What a transaction has written is of the days it refreshes.
LEMMA OwnDays ==
  ASSUME Held, NEW w \in Writers
  PROVE  /\ From(tx[w], zone) \in Nat
         /\ \A b \in Beats : Day(TimeOf[b], zone) \in Nat
         /\ \A b \in DOMAIN tx[w].own : b \in Beats /\ Day(TimeOf[b], zone) >= From(tx[w], zone)
<1>1. /\ zone \in Nat /\ tx[w].since \in Nat /\ tx[w].own \in Tables(Beats, Row)
      /\ Shape(tx[w], beats, rollup)
  BY HeartbeatAssumption DEF Held, Typed, Tx
<1>2. \A b \in Beats : TimeOf[b] \in Nat /\ Day(TimeOf[b], zone) \in Nat
  BY <1>1, DayIs, HeartbeatAssumption
<1>3. From(tx[w], zone) \in Nat
  BY <1>1, DayIs DEF From
<1>4. \A b \in DOMAIN tx[w].own : b \in Beats /\ tx[w].since <= TimeOf[b]
  BY <1>1, TableIs DEF Shape
<1>5. \A b \in DOMAIN tx[w].own : Day(tx[w].since, zone) <= Day(TimeOf[b], zone)
  BY <1>1, <1>2, <1>4, DaysFollow
<1> QED BY <1>2, <1>3, <1>4, <1>5 DEF From

\* A rebuild refreshes every day.
LEMMA RebuildDays ==
  ASSUME Held, NEW w \in Writers, Rebuilds(tx[w])
  PROVE  /\ \A b \in Beats : Day(TimeOf[b], zone) >= From(tx[w], zone)
         /\ \A k \in DOMAIN rollup : k[1] >= From(tx[w], zone)
<1>1. tx[w].since = 0 /\ zone \in Zones /\ rollup \in Tables(Keys, Nat)
  BY DEF Held, Typed, Shape
<1>2. From(tx[w], zone) = Day(0, zone)
  BY <1>1 DEF From
<1>3. \A y \in Zones, b \in Beats : Day(0, zone) <= Day(TimeOf[b], y)
  BY <1>1, ZeroTimeAssumption
<1>4. \A y \in Zones, b \in Beats : Day(0, zone) \in Nat /\ Day(TimeOf[b], y) \in Nat
  BY <1>1, DayIs, HeartbeatAssumption
<1>5. ASSUME NEW k \in DOMAIN rollup PROVE k[1] >= From(tx[w], zone)
  <2>1. k \in Keys
    BY <1>1, TableIs
  <2>2. PICK b \in Beats, y \in Zones : k[1] = Day(TimeOf[b], y)
    BY <2>1 DEF Keys
  <2> QED BY <1>2, <1>3, <1>4, <2>2
<1> QED BY <1>1, <1>2, <1>3, <1>4, <1>5

\* A writer that ran alone commits: it has refreshed every day it changed.
LEMMA CommitAlone ==
  ASSUME Held, NEW w \in Writers, Commit(w), tx[w].alone,
         Refreshes(tx[w], beats, rollup, zone),
         Rebuilds(tx[w]) \/ Fits(beats, rollup, zone)
  PROVE  Fits(beats', rollup', zone')
<1> DEFINE s == tx[w]
           z == zone
           f == From(s, z)
           view == Over(s.own, beats)
<1>0. Typed /\ s \in Tx /\ beats \in Tables(Beats, Row) /\ rollup \in Tables(Keys, Nat)
  BY DEF Held, Typed
<1>1. /\ s.pc = "commit" /\ beats' = view /\ zone' = z
      /\ DOMAIN rollup' = (DOMAIN rollup \ s.cleared) \cup DOMAIN s.made
      /\ \A k \in DOMAIN rollup' : rollup'[k] = IF k \in DOMAIN s.made THEN s.made[k] ELSE rollup[k]
  BY <1>0, CommitIs
<1>2. /\ s.cleared = {k \in DOMAIN rollup : k[1] >= f}
      /\ \A b \in DOMAIN view : Day(TimeOf[b], z) >= f => RollupKey(b, view[b], z) \in DOMAIN s.made
      /\ \A k \in DOMAIN s.made : Rows(view, z, k) # {} /\ s.made[k] = Fresh(view, z, k)
  BY <1>1 DEF Refreshes, Covers, Current, Out
<1>3. /\ DOMAIN view = DOMAIN beats \cup DOMAIN s.own /\ DOMAIN view \subseteq Beats
      /\ \A b \in DOMAIN view : view[b] = IF b \in DOMAIN s.own THEN s.own[b] ELSE beats[b]
  BY <1>0, ViewIs DEF View
<1>4. /\ f \in Nat /\ \A b \in Beats : Day(TimeOf[b], z) \in Nat
      /\ \A b \in DOMAIN s.own : Day(TimeOf[b], z) >= f
  BY OwnDays
<1>5. Rebuilds(s) => /\ \A b \in Beats : Day(TimeOf[b], z) >= f
                     /\ \A k \in DOMAIN rollup : k[1] >= f
  BY RebuildDays
<1> HIDE DEF s, z, f, view
<1>6. ASSUME NEW b \in DOMAIN view PROVE RollupKey(b, view[b], z) \in DOMAIN rollup'
  <2>1. CASE Day(TimeOf[b], z) >= f
    BY <1>1, <1>2, <2>1
  <2>2. CASE ~ (Day(TimeOf[b], z) >= f)
    <3>1. b \notin DOMAIN s.own /\ ~ Rebuilds(s)
      BY <1>3, <1>4, <1>5, <2>2
    <3>2. b \in DOMAIN beats /\ view[b] = beats[b]
      BY <1>3, <3>1
    <3>3. RollupKey(b, view[b], z) \in DOMAIN rollup
      BY <3>1, <3>2 DEF Fits, s, z
    <3>4. ~ (RollupKey(b, view[b], z)[1] >= f)
      BY <2>2, KeyIs
    <3> QED BY <1>1, <1>2, <3>3, <3>4
  <2> QED BY <2>1, <2>2
<1>7. ASSUME NEW k \in DOMAIN rollup' PROVE Rows(view, z, k) # {} /\ rollup'[k] = Fresh(view, z, k)
  <2>1. CASE k \in DOMAIN s.made
    BY <1>1, <1>2, <2>1
  <2>2. CASE k \notin DOMAIN s.made
    <3>1. k \in DOMAIN rollup /\ ~ (k[1] >= f) /\ rollup'[k] = rollup[k]
      BY <1>1, <1>2, <1>7, <2>2
    <3>2. Rows(beats, z, k) # {} /\ rollup[k] = Fresh(beats, z, k)
      BY <1>5, <3>1 DEF Fits, s, z
    <3>3. \A b, r : RollupKey(b, r, z) = k => ~ (Day(TimeOf[b], z) >= f)
      BY <3>1, KeyIs
    <3>4. \A b \in DOMAIN s.own : RollupKey(b, s.own[b], z) # k
      BY <1>4, <3>3
    <3>5. \A b \in DOMAIN s.own \cap DOMAIN beats : RollupKey(b, beats[b], z) # k
      BY <1>4, <3>3
    <3>6. Rows(view, z, k) = Rows(beats, z, k) /\ Fresh(view, z, k) = Fresh(beats, z, k)
      BY <3>4, <3>5, RowsElsewhere DEF view
    <3> QED BY <3>1, <3>2, <3>6
  <2> QED BY <2>1, <2>2
<1> QED BY <1>1, <1>6, <1>7 DEF Fits

\* A batch that moves no row leaves the rows that were there in their keys.
LEMMA StaysPut ==
  ASSUME Held, NEW w \in Writers, ~ Moves(w)
  PROVE  \A b \in DOMAIN tx[w].own \cap DOMAIN beats, z \in Zones :
           RollupKey(b, tx[w].own[b], z) = RollupKey(b, beats[b], z)
<1>1. \A b \in DOMAIN tx[w].own :
        IF b \in DOMAIN tx[w].batch THEN tx[w].own[b].label = tx[w].batch[b]
        ELSE b \in DOMAIN beats /\ tx[w].own[b].label = beats[b].label
  BY DEF Held, Shape
<1>2. \A b \in DOMAIN tx[w].batch \cap DOMAIN beats : beats[b].label = tx[w].batch[b]
  BY DEF Moves
<1>3. \A b \in DOMAIN tx[w].own \cap DOMAIN beats : tx[w].own[b].label = beats[b].label
  BY <1>1, <1>2
<1> QED BY <1>3 DEF RollupKey

\* Such a batch, refreshed, leaves no key it has deleted without a row.
LEMMA ClearedIsMade ==
  ASSUME Held, NEW w \in Writers, tx[w].pc = "commit", ~ Moves(w),
         Refreshes(tx[w], beats, rollup, zone), Fits(beats, rollup, zone)
  PROVE  tx[w].cleared \subseteq DOMAIN tx[w].made
<1> SUFFICES ASSUME NEW k \in tx[w].cleared PROVE k \in DOMAIN tx[w].made
  OBVIOUS
<1>0. Typed /\ zone \in Zones /\ k \in DOMAIN rollup
  BY DEF Held, Typed, Shape
<1>1. k \in DOMAIN tx[w].made \/ Rows(Over(tx[w].own, beats), zone, k) = {}
  BY DEF Refreshes, Replaces, Out
<1>2. PICK b : b \in Rows(beats, zone, k)
  BY <1>0 DEF Fits
<1>3. b \in DOMAIN beats /\ RollupKey(b, beats[b], zone) = k
  BY <1>2, RowIs
<1> DEFINE view == Over(tx[w].own, beats)
<1>4. /\ DOMAIN view = DOMAIN beats \cup DOMAIN tx[w].own
      /\ \A x \in DOMAIN view : view[x] = IF x \in DOMAIN tx[w].own THEN tx[w].own[x] ELSE beats[x]
  BY <1>0, ViewIs DEF View
<1> HIDE DEF view
<1>5. RollupKey(b, view[b], zone) = k
  <2>1. b \in DOMAIN tx[w].own => RollupKey(b, tx[w].own[b], zone) = RollupKey(b, beats[b], zone)
    BY <1>0, <1>3, StaysPut
  <2> QED BY <1>3, <1>4, <2>1
<1>6. b \in Rows(view, zone, k)
  BY <1>3, <1>4, <1>5, RowIs
<1> QED BY <1>1, <1>6 DEF view

\* A save that moves no row commits while others write.
LEMMA CommitShared ==
  ASSUME Held, NEW w \in Writers, Commit(w), ~ Moves(w), ~ tx[w].alone,
         Refreshes(tx[w], beats, rollup, zone), Fits(beats, rollup, zone)
  PROVE  /\ Fits(beats', rollup', zone')
         /\ \A b \in DOMAIN tx[w].own : RollupKey(b, tx[w].own[b], zone) \in DOMAIN tx[w].made
         /\ \A b \in DOMAIN tx[w].own \cap DOMAIN beats :
              RollupKey(b, beats[b], zone) = RollupKey(b, tx[w].own[b], zone)
         /\ DOMAIN rollup' = DOMAIN rollup \cup DOMAIN tx[w].made
<1> DEFINE s == tx[w]
           z == zone
           view == Over(s.own, beats)
<1>0. Typed /\ s \in Tx /\ z \in Zones
  BY DEF Held, Typed
<1>1. /\ s.pc = "commit" /\ beats' = view /\ zone' = z
      /\ DOMAIN rollup' = (DOMAIN rollup \ s.cleared) \cup DOMAIN s.made
      /\ \A k \in DOMAIN rollup' : rollup'[k] = IF k \in DOMAIN s.made THEN s.made[k] ELSE rollup[k]
  BY <1>0, CommitIs
<1>2. /\ \A b \in DOMAIN s.own : Day(TimeOf[b], z) >= From(s, z) => RollupKey(b, view[b], z) \in DOMAIN s.made
      /\ \A k \in DOMAIN s.made : Rows(view, z, k) # {} /\ s.made[k] = Fresh(view, z, k)
  BY <1>1 DEF Refreshes, Covers, Current, Out
<1>3. /\ DOMAIN view = DOMAIN beats \cup DOMAIN s.own
      /\ \A b \in DOMAIN view : view[b] = IF b \in DOMAIN s.own THEN s.own[b] ELSE beats[b]
  BY <1>0, ViewIs DEF View
<1>4. \A b \in DOMAIN s.own : Day(TimeOf[b], z) >= From(s, z)
  BY OwnDays
<1>5. s.cleared \subseteq DOMAIN s.made
  BY <1>1, ClearedIsMade
<1>6. \A b \in DOMAIN s.own \cap DOMAIN beats : RollupKey(b, beats[b], z) = RollupKey(b, s.own[b], z)
  BY <1>0, StaysPut
<1> HIDE DEF s, z, view
<1>7. \A b \in DOMAIN s.own : RollupKey(b, s.own[b], z) \in DOMAIN s.made
  BY <1>2, <1>3, <1>4
<1>8. DOMAIN rollup' = DOMAIN rollup \cup DOMAIN s.made
  BY <1>1, <1>5
<1>9. ASSUME NEW b \in DOMAIN view PROVE RollupKey(b, view[b], z) \in DOMAIN rollup'
  <2>1. CASE b \in DOMAIN s.own
    BY <1>3, <1>7, <1>8, <2>1
  <2>2. CASE b \notin DOMAIN s.own
    <3>1. b \in DOMAIN beats /\ view[b] = beats[b]
      BY <1>3, <2>2
    <3>2. RollupKey(b, beats[b], z) \in DOMAIN rollup
      BY <3>1 DEF Fits, z
    <3> QED BY <1>8, <3>1, <3>2
  <2> QED BY <2>1, <2>2
<1>10. ASSUME NEW k \in DOMAIN rollup' PROVE Rows(view, z, k) # {} /\ rollup'[k] = Fresh(view, z, k)
  <2>1. CASE k \in DOMAIN s.made
    BY <1>1, <1>2, <2>1
  <2>2. CASE k \notin DOMAIN s.made
    <3>1. k \in DOMAIN rollup /\ rollup'[k] = rollup[k]
      BY <1>1, <1>8, <1>10, <2>2
    <3>2. Rows(beats, z, k) # {} /\ rollup[k] = Fresh(beats, z, k)
      BY <3>1 DEF Fits, z
    <3>3. \A b \in DOMAIN s.own : RollupKey(b, s.own[b], z) # k
      BY <1>7, <2>2
    <3>4. \A b \in DOMAIN s.own \cap DOMAIN beats : RollupKey(b, beats[b], z) # k
      BY <1>6, <3>3
    <3>5. Rows(view, z, k) = Rows(beats, z, k) /\ Fresh(view, z, k) = Fresh(beats, z, k)
      BY <3>3, <3>4, RowsElsewhere DEF view
    <3> QED BY <3>1, <3>2, <3>5
  <2> QED BY <2>1, <2>2
<1>11. Fits(beats', rollup', zone')
  BY <1>1, <1>9, <1>10 DEF Fits
<1> QED BY <1>6, <1>7, <1>8, <1>11 DEF s, z

\* What another writer refreshes, when such a save commits beside it: its
\* values stay current, except where the commit has taken the key.
LEMMA CommitBeside ==
  ASSUME Held, NEW w \in Writers, Commit(w), ~ Moves(w), ~ tx[w].alone,
         Refreshes(tx[w], beats, rollup, zone), Fits(beats, rollup, zone),
         NEW v \in Writers, v # w, ~ tx[v].alone, Refreshes(tx[v], beats, rollup, zone)
  PROVE  Refreshes(tx'[v], beats', rollup', zone')
<1> DEFINE s == tx[w]
           t == tx[v]
           p == tx'[v]
           z == zone
           old == Over(t.own, beats)
           new == Over(p.own, beats')
<1>0. Typed /\ s \in Tx /\ t \in Tx /\ z \in Zones
  BY DEF Held, Typed
<1>1. /\ s.pc = "commit" /\ beats' = Over(s.own, beats) /\ zone' = z
      /\ p = Passed(s, t)
  BY <1>0, CommitIs
<1>2. /\ \A b \in DOMAIN s.own : RollupKey(b, s.own[b], z) \in DOMAIN s.made
      /\ \A b \in DOMAIN s.own \cap DOMAIN beats :
           RollupKey(b, beats[b], z) = RollupKey(b, s.own[b], z)
      /\ DOMAIN rollup' = DOMAIN rollup \cup DOMAIN s.made
  BY CommitShared
<1>3. /\ p.doomed = t.doomed \ s.cleared
      /\ p.pc = t.pc /\ p.since = t.since /\ p.zone = t.zone /\ p.own = t.own
      /\ p.cleared = t.cleared /\ p.fill = t.fill /\ p.made = t.made /\ p.alone = t.alone
  <2>1. LET q == Passed(s, t) IN
        /\ q.doomed = t.doomed \ s.cleared
        /\ q.pc = t.pc /\ q.since = t.since /\ q.zone = t.zone /\ q.own = t.own
        /\ q.cleared = t.cleared /\ q.fill = t.fill /\ q.made = t.made /\ q.alone = t.alone
    BY <1>0, PassedIs
  <2> QED BY <1>1, <2>1
<1>4. /\ DOMAIN s.own \cap DOMAIN t.own = {}
      /\ DOMAIN s.made \cap DOMAIN t.made = {}
      /\ DOMAIN s.made \cap t.cleared = {}
  BY DEF Held, Locks, Apart
<1>5. /\ DOMAIN old = DOMAIN beats \cup DOMAIN t.own
      /\ \A b \in DOMAIN old : old[b] = IF b \in DOMAIN t.own THEN t.own[b] ELSE beats[b]
  BY <1>0, ViewIs DEF View
<1>6. new = Over(s.own, old)
  <2>1. new = Over(t.own, Over(s.own, beats))
    BY <1>1, <1>3
  <2>2. DOMAIN t.own \cap DOMAIN s.own = {}
    BY <1>4
  <2> QED BY <2>1, <2>2, OversCommute
<1>a. /\ t.pc \in {"deleteWait", "fill", "fillWait", "commit"} => t.zone = z
      /\ \A k \in t.doomed \cup t.cleared : k[1] >= From(t, z)
      /\ t.pc \in {"fillWait", "commit"} => Covers(t, old, z) /\ Replaces(t, old, z) /\ Current(t, old, rollup, z)
  BY DEF Refreshes
<1>b. ~ t.alone
  OBVIOUS
<1> HIDE DEF s, t, p, z, old, new
<1>7. /\ DOMAIN new = DOMAIN old \cup DOMAIN s.own
      /\ \A b \in DOMAIN old \cup DOMAIN s.own : new[b] = IF b \in DOMAIN s.own THEN s.own[b] ELSE old[b]
  BY <1>6, OverIs
<1>8. \A b \in DOMAIN s.own \cap DOMAIN old : RollupKey(b, old[b], z) = RollupKey(b, s.own[b], z)
  BY <1>2, <1>4, <1>5
<1>9. ASSUME NEW k, k \notin DOMAIN s.made
      PROVE  Rows(new, z, k) = Rows(old, z, k) /\ Fresh(new, z, k) = Fresh(old, z, k)
  <2>1. \A b \in DOMAIN s.own : RollupKey(b, s.own[b], z) # k
    BY <1>2, <1>9
  <2>2. \A b \in DOMAIN s.own \cap DOMAIN old : RollupKey(b, old[b], z) # k
    BY <1>8, <2>1
  <2> QED BY <1>6, <2>1, <2>2, RowsElsewhere
<1>10. ASSUME NEW k, Rows(old, z, k) # {} PROVE Rows(new, z, k) # {}
  <2>1. PICK b : b \in Rows(old, z, k)
    BY <1>10
  <2>2. b \in DOMAIN old /\ RollupKey(b, old[b], z) = k
    BY <2>1, RowIs
  <2>3. b \in DOMAIN new /\ RollupKey(b, new[b], z) = k
    BY <1>7, <1>8, <2>2
  <2>4. b \in Rows(new, z, k)
    BY <2>3, RowIs
  <2> QED BY <2>4
<1>11. Out(p) = Out(t) /\ From(p, z) = From(t, z)
  BY <1>3 DEF Out, From
<1>12. ASSUME p.pc \in {"fillWait", "commit"}
       PROVE  Covers(p, new, z) /\ Replaces(p, new, z) /\ Current(p, new, rollup', z)
  <2>0. Covers(t, old, z) /\ Replaces(t, old, z) /\ Current(t, old, rollup, z)
    BY <1>3, <1>a, <1>12
  <2>1. Covers(p, new, z)
    <3>1. ASSUME NEW b \in DOMAIN t.own, Day(TimeOf[b], z) >= From(t, z)
          PROVE  RollupKey(b, new[b], z) \in DOMAIN Out(t)
      <4>1. RollupKey(b, old[b], z) \in DOMAIN Out(t)
        BY <1>b, <2>0, <3>1 DEF Covers
      <4>2. new[b] = old[b]
        BY <1>4, <1>5, <1>7, <3>1
      <4> QED BY <4>1, <4>2
    <3>2. ~ p.alone /\ DOMAIN p.own = DOMAIN t.own
      BY <1>3, <1>b
    <3> QED BY <1>11, <3>1, <3>2 DEF Covers
  <2>2. Replaces(p, new, z)
    <3>1. ASSUME NEW k \in t.cleared PROVE k \in DOMAIN Out(t) \/ Rows(new, z, k) = {}
      <4>1. k \in DOMAIN Out(t) \/ Rows(old, z, k) = {}
        BY <2>0, <3>1 DEF Replaces
      <4>2. k \notin DOMAIN s.made
        BY <1>4, <3>1
      <4> QED BY <1>9, <4>1, <4>2
    <3> QED BY <1>3, <1>11, <3>1 DEF Replaces
  <2>3. ASSUME NEW k \in DOMAIN Out(t)
        PROVE  /\ Rows(new, z, k) # {}
               /\ \/ t.pc = "fillWait" /\ k \in DOMAIN rollup' \ t.cleared
                  \/ Out(t)[k] = Fresh(new, z, k)
    <3>1. /\ Rows(old, z, k) # {}
          /\ \/ t.pc = "fillWait" /\ k \in DOMAIN rollup \ t.cleared
             \/ Out(t)[k] = Fresh(old, z, k)
      BY <2>0, <2>3 DEF Current
    <3>2. Rows(new, z, k) # {}
      BY <1>10, <3>1
    <3>3. CASE k \in DOMAIN s.made
      <4>1. t.pc = "fillWait"
        BY <1>3, <1>4, <1>12, <2>3, <3>3 DEF Out
      <4>2. k \in DOMAIN rollup' \ t.cleared
        BY <1>2, <1>4, <3>3
      <4> QED BY <3>2, <4>1, <4>2
    <3>4. CASE k \notin DOMAIN s.made
      BY <1>2, <1>9, <3>1, <3>2, <3>4
    <3> QED BY <3>3, <3>4
  <2>4. Current(p, new, rollup', z)
    BY <1>3, <1>11, <2>3 DEF Current
  <2> QED BY <2>1, <2>2, <2>4
<1>13. /\ p.pc \in {"deleteWait", "fill", "fillWait", "commit"} => p.zone = z
       /\ ~ p.alone
       /\ \A k \in p.doomed \cup p.cleared : k[1] >= From(p, z)
  BY <1>3, <1>11, <1>a, <1>b
<1>14. Refreshes(p, beats', rollup', z)
  BY <1>12, <1>13 DEF Refreshes, new
<1> QED BY <1>1, <1>14 DEF p

LEMMA RollupInit == Init => RollupInv
<1> SUFFICES ASSUME Init PROVE RollupInv
  OBVIOUS
<1>1. DOMAIN beats = {} /\ DOMAIN rollup = {}
  BY DEF Init, Nothing
<1>2. \A w \in Writers : tx[w].pc = "idle"
  BY IdleHolds DEF Init
<1> QED BY <1>1, <1>2 DEF RollupInv, Fits, Bound

\* Company only weakens what a refresh has to do.
LEMMA RefreshJoined ==
  ASSUME NEW t \in Tx, NEW bs, NEW ro, NEW z, Refreshes(t, bs, ro, z)
  PROVE  Refreshes(Joined(t), bs, ro, z)
<1> DEFINE j == Joined(t)
<1>1. /\ ~ j.alone /\ j.pc = t.pc /\ j.since = t.since /\ j.zone = t.zone /\ j.own = t.own
      /\ j.doomed = t.doomed /\ j.cleared = t.cleared /\ j.fill = t.fill /\ j.made = t.made
  BY JoinedIs
<1> HIDE DEF j
<1>2. Out(j) = Out(t) /\ From(j, z) = From(t, z)
  BY <1>1 DEF Out, From
<1>3. ASSUME NEW view, DOMAIN t.own \subseteq DOMAIN view, Covers(t, view, z) PROVE Covers(j, view, z)
  BY <1>1, <1>2, <1>3 DEF Covers
<1>4. DOMAIN t.own \subseteq DOMAIN Over(t.own, bs)
  BY DEF Over
<1>5. \A view : Replaces(t, view, z) => Replaces(j, view, z)
  BY <1>1, <1>2 DEF Replaces
<1>6. \A view : Current(t, view, ro, z) => Current(j, view, ro, z)
  BY <1>1, <1>2 DEF Current
<1>7. Refreshes(j, bs, ro, z)
  <2> DEFINE view == Over(t.own, bs)
  <2>1. /\ t.pc \in {"deleteWait", "fill", "fillWait", "commit"} => t.zone = z
        /\ \A k \in t.doomed \cup t.cleared : k[1] >= From(t, z)
        /\ t.pc \in {"fillWait", "commit"} =>
             Covers(t, view, z) /\ Replaces(t, view, z) /\ Current(t, view, ro, z)
    BY DEF Refreshes
  <2>2. DOMAIN t.own \subseteq DOMAIN view /\ Over(j.own, bs) = view
    BY <1>1, <1>4
  <2> HIDE DEF view
  <2>3. t.pc \in {"fillWait", "commit"} =>
             Covers(j, view, z) /\ Replaces(j, view, z) /\ Current(j, view, ro, z)
    BY <1>3, <1>5, <1>6, <2>1, <2>2
  <2> QED BY <1>1, <1>2, <2>1, <2>2, <2>3 DEF Refreshes
<1> QED BY <1>7 DEF j

LEMMA RollupStart ==
  ASSUME Held, RollupInv, NEW w \in Writers, Start(w)
  PROVE  RollupInv'
<1>0. /\ Typed /\ Idle \in Tx /\ (\A v \in Writers : tx[v] \in Tx)
  BY IdleIsTx DEF Held, Typed
<1>1. ASSUME NEW kind, NEW t \in Tx, Begin(w, kind, t), t.pc \in {"insert", "gaps", "delete"},
             t.doomed = {}, t.cleared = {}, UNCHANGED <<beats, rollup>>,
             "rollup" \notin stale' => zone' = zone /\ "rollup" \notin stale
      PROVE  RollupInv'
  <2>1. /\ tx'[w] = Beginning(t, kind) /\ kind \in Kinds
        /\ \A v \in Writers : v # w => tx'[v] = IF tx[v].pc = "idle" THEN tx[v] ELSE Joined(tx[v])
    BY <1>0, <1>1, BeginIs
  <2>2. tx'[w].pc = t.pc /\ tx'[w].doomed = {} /\ tx'[w].cleared = {}
    BY <1>1, <2>1, BeginningIs
  <2>3. Refreshes(tx'[w], beats', rollup', zone')
    BY <1>1, <2>2 DEF Refreshes
  <2>4. "rollup" \notin stale' => Fits(beats', rollup', zone')
    BY <1>1 DEF RollupInv
  <2>5. ASSUME NEW v \in Writers, v # w, Bound(tx'[v], stale')
        PROVE  Refreshes(tx'[v], beats', rollup', zone')
    <3>1. /\ tx[v] \in Tx /\ Joined(tx[v]).alone = FALSE /\ Joined(tx[v]).kind = tx[v].kind
          /\ Joined(tx[v]).pc = tx[v].pc
      BY <1>0, <2>5, JoinedIs
    <3>2. tx'[v] = Joined(tx[v]) /\ tx[v].pc # "idle"
      BY <2>1, <2>5, <3>1 DEF Bound
    <3>3. "rollup" \notin stale' /\ tx[v].kind # "raw"
      BY <2>5, <3>1, <3>2 DEF Bound
    <3>4. Refreshes(tx[v], beats, rollup, zone)
      BY <1>1, <2>5, <3>2, <3>3 DEF RollupInv, Bound
    <3>5. Refreshes(Joined(tx[v]), beats, rollup, zone)
      BY <3>1, <3>4, RefreshJoined
    <3> QED BY <1>1, <3>2, <3>3, <3>5
  <2> QED BY <2>3, <2>4, <2>5 DEF RollupInv
<1>2. ASSUME NEW kind \in Kinds, Save(w, kind) PROVE RollupInv'
  <2> DEFINE S == IF kind = "workout" THEN Workouts ELSE Beats \ Workouts
  <2>1. S \in SUBSET Beats
    BY HeartbeatAssumption
  <2>2. PICK batch \in Batches(S) :
          LET times == {TimeOf[b] : b \in DOMAIN batch} IN
          Begin(w, kind, [Idle EXCEPT !.pc = "insert", !.batch = batch, !.since = Min(times),
                                      !.until = Max(times)])
    <3>1. Save(w, kind)
      BY <1>2
    <3> HIDE DEF S
    <3> QED BY <3>1, Zenon DEF Save, S
  <2> HIDE DEF S
  <2> DEFINE times == {TimeOf[b] : b \in DOMAIN batch}
             t == [Idle EXCEPT !.pc = "insert", !.batch = batch, !.since = Min(times),
                               !.until = Max(times)]
  <2>3. Begin(w, kind, t)
    BY <2>2
  <2>4. t \in Tx
    <3>1. batch \in Batches(S) /\ S \in SUBSET Beats
      BY <2>1
    <3> QED BY <3>1, SaveIsTx, Zenon
  <2> HIDE DEF times
  <2>5. t.pc = "insert" /\ t.doomed = {} /\ t.cleared = {}
    BY DEF Idle
  <2> HIDE DEF t
  <2>6. UNCHANGED <<beats, rollup>> /\ zone' = zone /\ stale' = stale
    BY <1>2 DEF Save
  <2> QED BY <1>1, <2>3, <2>4, <2>5, <2>6
<1>3. CASE ResyncDerived(w)
  <2> DEFINE t == [Idle EXCEPT !.pc = "gaps"]
  <2>1. Begin(w, "resync", t) /\ UNCHANGED <<beats, rollup>> /\ zone' = zone /\ stale' = stale
    BY <1>3 DEF ResyncDerived
  <2>2. t \in Tx /\ t.pc = "gaps" /\ t.doomed = {} /\ t.cleared = {}
    BY <1>0, IdleHolds DEF Tx, Stages
  <2> HIDE DEF t
  <2> QED BY <1>1, <2>1, <2>2
<1>4. ASSUME NEW y \in Zones, UpdateTimezone(w, y) PROVE RollupInv'
  <2> DEFINE t == [Idle EXCEPT !.pc = "delete"]
  <2>1. Begin(w, "zone", t) /\ UNCHANGED <<beats, rollup>> /\ stale' = stale \cup {"rollup"}
    BY <1>4 DEF UpdateTimezone
  <2>2. t \in Tx /\ t.pc = "delete" /\ t.doomed = {} /\ t.cleared = {}
    BY <1>0, IdleHolds DEF Tx, Stages
  <2> HIDE DEF t
  <2> QED BY <1>1, <2>1, <2>2
<1> QED BY <1>2, <1>3, <1>4 DEF Start

\* The statements of a refresh.
LEMMA RefreshFills ==
  ASSUME Held, NEW w \in Writers, AggregateRows(w), NEW t,
         t.fill = Aggregate(View(w), Day(tx[w].since, tx[w].zone), tx[w].zone),
         t.pc = "fillWait", t.zone = tx[w].zone, t.since = tx[w].since, t.own = tx[w].own,
         t.alone = tx[w].alone, t.doomed = tx[w].doomed, t.cleared = tx[w].cleared,
         Refreshes(tx[w], beats, rollup, zone)
  PROVE  Refreshes(t, beats, rollup, zone)
<1> DEFINE s == tx[w]
           z == zone
           view == View(w)
           A == Aggregate(view, From(s, z), z)
<1>0. /\ Typed /\ s \in Tx /\ z \in Zones /\ s.pc = "fill"
      /\ s.zone = z
  BY DEF Held, Typed, AggregateRows, Refreshes
<1>1. From(s, z) \in Nat
  BY OwnDays
<1>2. /\ view \in Tables(Beats, Row) /\ view = Over(s.own, beats)
      /\ DOMAIN view = DOMAIN beats \cup DOMAIN s.own
  BY <1>0, ViewIs DEF View
<1>3. /\ \A b \in DOMAIN view : Day(TimeOf[b], z) >= From(s, z) => RollupKey(b, view[b], z) \in DOMAIN A
      /\ \A k \in DOMAIN A : Rows(view, z, k) # {} /\ A[k] = Fresh(view, z, k)
  <2> HIDE DEF view
  <2> QED BY <1>0, <1>1, <1>2, AggregateIs
<1>4. Out(t) = A /\ From(t, z) = From(s, z)
  BY <1>0 DEF Out, From
<1>5. /\ s.alone => s.cleared = {k \in DOMAIN rollup : k[1] >= From(s, z)}
      /\ \A k \in s.doomed \cup s.cleared : k[1] >= From(s, z)
  BY <1>0 DEF Refreshes
<1> HIDE DEF A, view
<1>6. Covers(t, view, z)
  BY <1>2, <1>3, <1>4 DEF Covers
<1>7. Replaces(t, view, z)
  <2>1. ASSUME NEW k \in s.cleared, Rows(view, z, k) # {} PROVE k \in DOMAIN A
    <3>1. PICK b : b \in Rows(view, z, k)
      BY <2>1
    <3>2. b \in DOMAIN view /\ RollupKey(b, view[b], z) = k
      BY <3>1, RowIs
    <3>3. Day(TimeOf[b], z) = k[1]
      BY <3>2, KeyIs
    <3> QED BY <1>3, <1>5, <2>1, <3>2, <3>3
  <2> QED BY <1>4, <2>1 DEF Replaces
<1>8. Current(t, view, rollup, z)
  BY <1>3, <1>4 DEF Current
<1>9. Over(t.own, beats) = view
  BY <1>2
<1>10. /\ t.zone = z /\ (t.alone => t.cleared = {k \in DOMAIN rollup : k[1] >= From(t, z)})
       /\ \A k \in t.doomed \cup t.cleared : k[1] >= From(t, z)
  BY <1>0, <1>4, <1>5
<1> HIDE DEF s, z
<1>11. Refreshes(t, beats, rollup, z)
  BY <1>6, <1>7, <1>8, <1>9, <1>10 DEF Refreshes
<1> QED BY <1>11 DEF z

LEMMA RefreshInserts ==
  ASSUME NEW s, NEW t, NEW bs, NEW ro, NEW z, Refreshes(s, bs, ro, z),
         s.pc = "fillWait", DOMAIN s.fill \cap (DOMAIN ro \ s.cleared) = {},
         t.pc = "commit", t.made = s.fill, t.zone = s.zone, t.since = s.since, t.own = s.own,
         t.alone = s.alone, t.doomed = s.doomed, t.cleared = s.cleared
  PROVE  Refreshes(t, bs, ro, z)
<1>1. Out(t) = s.fill /\ Out(s) = s.fill /\ From(t, z) = From(s, z)
  BY DEF Out, From
<1> DEFINE view == Over(s.own, bs)
<1>2. /\ Covers(s, view, z) /\ Replaces(s, view, z) /\ Current(s, view, ro, z)
      /\ s.zone = z /\ (s.alone => s.cleared = {k \in DOMAIN ro : k[1] >= From(s, z)})
      /\ \A k \in s.doomed \cup s.cleared : k[1] >= From(s, z)
  BY DEF Refreshes
<1>3. Over(t.own, bs) = view
  OBVIOUS
<1> HIDE DEF view
<1>4. Covers(t, view, z) /\ Replaces(t, view, z)
  BY <1>1, <1>2 DEF Covers, Replaces
<1>5. Current(t, view, ro, z)
  BY <1>1, <1>2 DEF Current
<1> QED BY <1>1, <1>2, <1>3, <1>4, <1>5 DEF Refreshes

LEMMA RollupStatement ==
  ASSUME Held, RollupInv, NEW w \in Writers, Statement(w)
  PROVE  RollupInv'
<1> DEFINE s == tx[w]
<1>0. /\ Typed /\ s \in Tx /\ tx \in [Writers -> Tx] /\ Shape(s, beats, rollup)
      /\ Bound(s, stale) => Refreshes(s, beats, rollup, zone)
  BY DEF Held, Typed, RollupInv
\* The step changes tx[w] only.
<1>1. ASSUME NEW t, tx' = [tx EXCEPT ![w] = t], UNCHANGED <<beats, rollup, zone, stale>>,
             Bound(t, stale) => Refreshes(t, beats, rollup, zone)
      PROVE  RollupInv'
  <2>1. tx'[w] = t /\ \A v \in Writers : v # w => tx'[v] = tx[v]
    BY <1>0, <1>1
  <2>2. \A v \in Writers : Bound(tx'[v], stale') => Refreshes(tx'[v], beats', rollup', zone')
    BY <1>1, <2>1 DEF RollupInv
  <2> QED BY <1>1, <2>2 DEF RollupInv
\* So far nothing has been deleted.
<1>2. ASSUME NEW t, t.pc \in {"gaps", "gapsWait", "delete"}, s.pc # "idle",
             t.kind = s.kind, t.alone = s.alone, t.since = s.since,
             t.doomed = s.doomed, t.cleared = s.cleared, Bound(t, stale), NEW bs
      PROVE  Refreshes(t, bs, rollup, zone)
  <2>1. Refreshes(s, beats, rollup, zone)
    BY <1>0, <1>2 DEF Bound, Rebuilds
  <2>2. \A k \in t.doomed \cup t.cleared : k[1] >= From(t, zone)
    BY <1>2, <2>1 DEF Refreshes, From
  <2> QED BY <1>2, <2>2 DEF Refreshes
<1>3. CASE InsertHeartbeats(w)
  <2> DEFINE o == Upserted(beats, s.batch)
             t == [s EXCEPT !.own = o, !.pc = IF s.kind = "raw" THEN "commit" ELSE "gaps"]
  <2>1. tx' = [tx EXCEPT ![w] = t] /\ UNCHANGED <<beats, rollup, zone, stale>> /\ s.pc = "insert"
    BY <1>3 DEF InsertHeartbeats
  <2> HIDE DEF o
  <2>2. /\ t.pc = (IF s.kind = "raw" THEN "commit" ELSE "gaps") /\ t.kind = s.kind
        /\ t.alone = s.alone /\ t.since = s.since /\ t.doomed = s.doomed /\ t.cleared = s.cleared
    BY <1>0 DEF Tx
  <2> HIDE DEF t
  <2>3. Bound(t, stale) => t.pc = "gaps"
    BY <2>2 DEF Bound
  <2>4. Bound(t, stale) => Refreshes(t, beats, rollup, zone)
    BY <1>2, <2>1, <2>2, <2>3
  <2> QED BY <1>1, <2>1, <2>4
<1>4. CASE ReadGaps(w)
  <2>1. PICK g \in RecomputedGaps(DOMAIN View(w), s.since, s.kind = "ingest", s.until) :
          tx' = [tx EXCEPT ![w].gaps = g, ![w].pc = "gapsWait"]
    BY <1>4 DEF ReadGaps
  <2> DEFINE t == [s EXCEPT !.gaps = g, !.pc = "gapsWait"]
  <2>2. tx' = [tx EXCEPT ![w] = t] /\ UNCHANGED <<beats, rollup, zone, stale>> /\ s.pc = "gaps"
    BY <1>4, <2>1 DEF ReadGaps
  <2>3. /\ t.pc = "gapsWait" /\ t.kind = s.kind
        /\ t.alone = s.alone /\ t.since = s.since /\ t.doomed = s.doomed /\ t.cleared = s.cleared
    BY <1>0 DEF Tx
  <2> HIDE DEF t
  <2>4. Bound(t, stale) => Refreshes(t, beats, rollup, zone)
    BY <1>2, <2>2, <2>3
  <2> QED BY <1>1, <2>2, <2>4
<1>5. CASE WriteGaps(w)
  <2>0. s.pc = "gapsWait" /\ UNCHANGED <<rollup, zone>>
    BY <1>5 DEF WriteGaps
  <2>1. CASE s.kind = "resync"
    <3> DEFINE t == [s EXCEPT !.pc = "delete"]
    <3>1. tx' = [tx EXCEPT ![w] = t] /\ "rollup" \in stale'
      BY <1>5, <2>1 DEF WriteGaps
    <3>2. /\ t.pc = "delete" /\ t.kind = s.kind
          /\ t.alone = s.alone /\ t.since = s.since /\ t.doomed = s.doomed /\ t.cleared = s.cleared
      BY <1>0 DEF Tx
    <3> HIDE DEF t
    <3>3. tx'[w] = t /\ \A v \in Writers : v # w => tx'[v] = tx[v]
      BY <1>0, <3>1
    <3>4. ASSUME Bound(t, stale') PROVE Refreshes(t, beats', rollup', zone')
      <4>1. Bound(t, stale)
        BY <3>1, <3>4 DEF Bound
      <4> QED BY <1>2, <2>0, <3>2, <4>1
    <3>5. ASSUME NEW v \in Writers, v # w PROVE ~ Bound(tx'[v], stale')
      <4>1. tx[v].pc # "idle" => ~ tx[v].alone
        BY <2>0, <3>5, CompanyOfOpen DEF Held
      <4> QED BY <3>1, <3>3, <3>5, <4>1 DEF Bound
    <3> QED BY <3>1, <3>3, <3>4, <3>5 DEF RollupInv
  <2>2. CASE s.kind # "resync"
    <3> DEFINE o == Over(Regapped(w), s.own)
               t == [s EXCEPT !.own = o, !.pc = "delete"]
    <3>1. tx' = [tx EXCEPT ![w] = t] /\ beats' = beats /\ stale' = stale
      BY <1>5, <2>2 DEF WriteGaps
    <3> HIDE DEF o
    <3>2. /\ t.pc = "delete" /\ t.kind = s.kind
          /\ t.alone = s.alone /\ t.since = s.since /\ t.doomed = s.doomed /\ t.cleared = s.cleared
      BY <1>0 DEF Tx
    <3> HIDE DEF t
    <3>3. Bound(t, stale) => Refreshes(t, beats, rollup, zone)
      BY <1>2, <2>0, <3>2
    <3> QED BY <1>1, <2>0, <3>1, <3>3
  <2> QED BY <2>1, <2>2
<1>6. CASE ReadRollup(w)
  <2> DEFINE D == {k \in DOMAIN rollup : k[1] >= DeleteFrom(w)}
             t == [s EXCEPT !.zone = zone, !.pc = "deleteWait", !.doomed = D]
  <2>1. tx' = [tx EXCEPT ![w] = t] /\ UNCHANGED <<beats, rollup, zone, stale>> /\ s.pc = "delete"
    BY <1>6 DEF ReadRollup
  <2>2. D = {k \in DOMAIN rollup : k[1] >= From(s, zone)}
    BY DEF DeleteFrom, From
  <2> HIDE DEF D
  <2>3. /\ t.pc = "deleteWait" /\ t.kind = s.kind /\ t.zone = zone /\ t.doomed = D
        /\ t.alone = s.alone /\ t.since = s.since /\ t.cleared = s.cleared
    BY <1>0 DEF Tx
  <2> HIDE DEF t
  <2>4. ASSUME Bound(t, stale) PROVE Refreshes(t, beats, rollup, zone)
    <3>1. Refreshes(s, beats, rollup, zone)
      BY <1>0, <2>1, <2>3, <2>4 DEF Bound, Rebuilds
    <3>2. From(t, zone) = From(s, zone) /\ \A k \in s.cleared : k[1] >= From(s, zone)
      BY <2>3, <3>1 DEF Refreshes, From
    <3> QED BY <2>2, <2>3, <3>2 DEF Refreshes
  <2> QED BY <1>1, <2>1, <2>4
<1>7. CASE DeleteRollup(w)
  <2> DEFINE t == [s EXCEPT !.cleared = s.doomed, !.doomed = {}, !.pc = "fill"]
  <2>1. tx' = [tx EXCEPT ![w] = t] /\ UNCHANGED <<beats, rollup, zone, stale>> /\ s.pc = "deleteWait"
    BY <1>7 DEF DeleteRollup
  <2>2. /\ t.pc = "fill" /\ t.kind = s.kind /\ t.zone = s.zone /\ t.doomed = {}
        /\ t.alone = s.alone /\ t.since = s.since /\ t.cleared = s.doomed
    BY <1>0 DEF Tx
  <2> HIDE DEF t
  <2>3. ASSUME Bound(t, stale) PROVE Refreshes(t, beats, rollup, zone)
    <3>1. Refreshes(s, beats, rollup, zone)
      BY <1>0, <2>1, <2>2, <2>3 DEF Bound, Rebuilds
    <3>2. /\ From(t, zone) = From(s, zone) /\ s.zone = zone
          /\ s.alone => s.doomed = {k \in DOMAIN rollup : k[1] >= From(s, zone)}
          /\ \A k \in s.doomed : k[1] >= From(s, zone)
      BY <2>1, <2>2, <3>1 DEF Refreshes, From
    <3> QED BY <2>2, <3>2 DEF Refreshes
  <2> QED BY <1>1, <2>1, <2>3
<1>8. CASE AggregateRows(w)
  <2> DEFINE A == Aggregate(View(w), Day(s.since, s.zone), s.zone)
             t == [s EXCEPT !.fill = A, !.pc = "fillWait"]
  <2>1. tx' = [tx EXCEPT ![w] = t] /\ UNCHANGED <<beats, rollup, zone, stale>> /\ s.pc = "fill"
    BY <1>8 DEF AggregateRows
  <2> HIDE DEF A
  <2>2. /\ t.pc = "fillWait" /\ t.kind = s.kind /\ t.zone = s.zone /\ t.doomed = s.doomed
        /\ t.alone = s.alone /\ t.since = s.since /\ t.cleared = s.cleared /\ t.own = s.own
        /\ t.fill = A
    BY <1>0 DEF Tx
  <2> HIDE DEF t
  <2>3. ASSUME Bound(t, stale) PROVE Refreshes(t, beats, rollup, zone)
    <3>1. Refreshes(s, beats, rollup, zone)
      BY <1>0, <2>1, <2>2, <2>3 DEF Bound, Rebuilds
    <3> QED BY <1>8, <2>2, <3>1, RefreshFills DEF A
  <2> QED BY <1>1, <2>1, <2>3
<1>9. CASE FillRollup(w)
  <2> DEFINE t == [s EXCEPT !.made = s.fill, !.fill = Nothing, !.pc = "commit"]
  <2>1. /\ tx' = [tx EXCEPT ![w] = t] /\ UNCHANGED <<beats, rollup, zone, stale>> /\ s.pc = "fillWait"
        /\ DOMAIN s.fill \cap (DOMAIN rollup \ s.cleared) = {}
    BY <1>9 DEF FillRollup
  <2>2. /\ t.pc = "commit" /\ t.kind = s.kind /\ t.zone = s.zone /\ t.doomed = s.doomed
        /\ t.alone = s.alone /\ t.since = s.since /\ t.cleared = s.cleared /\ t.own = s.own
        /\ t.made = s.fill
    BY <1>0 DEF Tx
  <2> HIDE DEF t
  <2>3. ASSUME Bound(t, stale) PROVE Refreshes(t, beats, rollup, zone)
    <3>1. Refreshes(s, beats, rollup, zone)
      BY <1>0, <2>1, <2>2, <2>3 DEF Bound, Rebuilds
    <3> QED BY <2>1, <2>2, <3>1, RefreshInserts
  <2> QED BY <1>1, <2>1, <2>3
<1> QED BY <1>3, <1>4, <1>5, <1>6, <1>7, <1>8, <1>9 DEF Statement

LEMMA RollupCommit ==
  ASSUME Held, RollupInv, NEW w \in Writers, Commit(w)
  PROVE  RollupInv'
<1> DEFINE s == tx[w]
<1>0. /\ Typed /\ s \in Tx /\ s.pc = "commit" /\ tx'[w] = Idle /\ stale' = StaleAfter(w)
      /\ \A v \in Writers : v # w => tx[v] \in Tx /\ tx'[v] = Passed(s, tx[v])
  BY CommitIs DEF Held, Typed
<1>1. ~ Bound(tx'[w], stale')
  BY <1>0, IdleHolds DEF Bound
<1>2. ASSUME NEW v \in Writers, v # w, Bound(tx'[v], stale')
      PROVE  Bound(tx[v], stale') /\ ~ tx[v].alone /\ "rollup" \notin stale'
  <2>1. tx'[v].pc = tx[v].pc /\ tx'[v].kind = tx[v].kind /\ tx'[v].alone = tx[v].alone
    BY <1>0, <1>2, PassedIs
  <2>2. Bound(tx[v], stale')
    BY <1>2, <2>1 DEF Bound, Rebuilds
  <2>3. ~ tx[v].alone
    BY <1>0, <1>2, <2>2, CompanyOfOpen DEF Held, Bound
  <2> QED BY <2>2, <2>3 DEF Bound
<1>3. CASE "rollup" \in stale'
  BY <1>1, <1>2, <1>3 DEF RollupInv
<1>4. CASE "rollup" \notin stale' /\ s.alone
  <2>1. s.kind # "raw" /\ ("rollup" \notin stale \/ Rebuilds(s))
    BY <1>0, <1>4 DEF StaleAfter, Rebuilds
  <2>2. Refreshes(s, beats, rollup, zone) /\ (Rebuilds(s) \/ Fits(beats, rollup, zone))
    BY <1>0, <1>4, <2>1 DEF RollupInv, Bound
  <2>3. Fits(beats', rollup', zone')
    BY <1>4, <2>2, CommitAlone
  <2>4. ASSUME NEW v \in Writers, v # w PROVE ~ Bound(tx'[v], stale')
    <3>1. tx[v].pc = "idle"
      BY <1>0, <1>4, <2>4 DEF Held, Solo
    <3> QED BY <1>2, <2>4, <3>1 DEF Bound
  <2> QED BY <1>1, <2>3, <2>4 DEF RollupInv
<1>5. CASE "rollup" \notin stale' /\ ~ s.alone
  <2>1. s.kind # "raw" /\ ~ Rebuilds(s) /\ ~ Moves(w) /\ "rollup" \notin stale
    BY <1>0, <1>5 DEF StaleAfter, Rebuilds
  <2>2. Refreshes(s, beats, rollup, zone) /\ Fits(beats, rollup, zone)
    BY <1>0, <2>1 DEF RollupInv, Bound
  <2>3. Fits(beats', rollup', zone')
    BY <1>5, <2>1, <2>2, CommitShared
  <2>4. ASSUME NEW v \in Writers, v # w, Bound(tx'[v], stale')
        PROVE  Refreshes(tx'[v], beats', rollup', zone')
    <3>1. Refreshes(tx[v], beats, rollup, zone) /\ ~ tx[v].alone
      BY <1>2, <2>1, <2>4 DEF RollupInv, Bound
    <3> QED BY <1>5, <2>1, <2>2, <2>4, <3>1, CommitBeside
  <2> QED BY <1>1, <2>3, <2>4 DEF RollupInv
<1> QED BY <1>3, <1>4, <1>5

LEMMA RollupNext == Held /\ RollupInv /\ [Next]_vars => RollupInv'
<1> SUFFICES ASSUME Held, RollupInv, [Next]_vars PROVE RollupInv'
  OBVIOUS
<1>0. Typed /\ tx \in [Writers -> Tx] /\ (\A v \in Writers : tx[v] \in Tx)
  BY DEF Held, Typed
<1>1. ASSUME NEW w \in Writers, Start(w) PROVE RollupInv'
  BY <1>1, RollupStart
<1>2. ASSUME NEW w \in Writers, Statement(w) PROVE RollupInv'
  BY <1>2, RollupStatement
<1>3. ASSUME NEW w \in Writers, Commit(w) PROVE RollupInv'
  BY <1>3, RollupCommit
<1>4. ASSUME NEW w \in Writers, Rollback(w) PROVE RollupInv'
  <2>1. tx' = [tx EXCEPT ![w] = Idle] /\ UNCHANGED <<beats, rollup, zone, stale>>
    BY <1>4 DEF Rollback
  <2>2. tx'[w] = Idle /\ \A v \in Writers : v # w => tx'[v] = tx[v]
    BY <1>0, <2>1
  <2>3. ~ Bound(tx'[w], stale')
    BY <2>2, IdleHolds DEF Bound
  <2>4. \A v \in Writers : Bound(tx'[v], stale') => Refreshes(tx'[v], beats', rollup', zone')
    BY <2>1, <2>2, <2>3 DEF RollupInv
  <2> QED BY <2>1, <2>4 DEF RollupInv
\* A rule leaves the rollup as it is, and nobody runs alone beside it.
<1>5. ASSUME NEW kind, NEW matching, Curate(kind, matching), "rollup" \in stale' PROVE RollupInv'
  <2>1. ASSUME NEW v \in Writers PROVE ~ Bound(tx'[v], stale')
    <3>1. tx'[v] = IF tx[v].pc = "idle" THEN tx[v] ELSE Joined(tx[v])
      BY <1>0, <1>5, CurateIs
    <3>2. Joined(tx[v]).alone = FALSE
      BY <1>0, JoinedIs
    <3> QED BY <1>5, <3>1, <3>2 DEF Bound
  <2> QED BY <1>5, <2>1 DEF RollupInv
<1>6. ASSUME NEW l \in Labels, NEW m \in Labels, ApplyRenameRule(l, m) PROVE RollupInv'
  BY <1>5, <1>6 DEF ApplyRenameRule
<1>7. ASSUME NEW l \in Labels, PurgeHiddenRule(l) PROVE RollupInv'
  BY <1>5, <1>7 DEF PurgeHiddenRule
<1>8. CASE UNCHANGED vars
  BY <1>8 DEF RollupInv, vars
<1> QED BY <1>1, <1>2, <1>3, <1>4, <1>6, <1>7, <1>8 DEF Next, Writing, Curating

\* However saves interleave, and whatever fails: unless a rule, a rebuild or a
\* batch that moves rows ran beside others, the rollup is the aggregate of the
\* rows, for refreshes from the local day of the earliest beat, in any zone.
THEOREM RollupStaysExact == Spec => []RollupIsExact
<1>1. Init => Held /\ RollupInv
  BY HeldInit, RollupInit
<1>2. Held /\ RollupInv /\ [Next]_vars => (Held /\ RollupInv)'
  BY HeldNext, RollupNext
<1>3. Held /\ RollupInv => RollupIsExact
  BY FitsIsExact DEF Held, Typed, RollupInv, RollupIsExact
<1> QED BY <1>1, <1>2, <1>3, PTL DEF Spec
=============================================================================
