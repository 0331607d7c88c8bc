---------------------------- MODULE RelaxProofs -----------------------------
(***************************************************************************)
(* Nothing but a ratification tightens: neither time nor any other commit  *)
(* makes a trigger fire that did not.  The levels may fall and, with them, *)
(* the baselines; the argument is that a baseline falls by no more than    *)
(* the level does.                                                         *)
(***************************************************************************)
EXTENDS PolicyProofs

-----------------------------------------------------------------------------
(* Carve-outs that have only lived on.                                     *)

\* `after` is what has become of the carve-outs `before`, the last of which was
\* ratified by `at`: some have ended, and no end has moved to the past.
LivedOn(before, after, at) ==
  /\ DOMAIN after = DOMAIN before
  /\ \A id \in DOMAIN before :
       LET a == before[id]
           b == after[id]
       IN  /\ b.non_goal = a.non_goal /\ b.ratified_at = a.ratified_at /\ b.historical = a.historical
           /\ a.ratified_at <= at
           /\ b.status = MOOT <=> a.status = MOOT
           /\ b.status = ACTIVE => a.status = ACTIVE
           /\ a.status \notin {ACTIVE, MOOT} =>
                a.terminal_at # None /\ b.terminal_at # None /\ a.terminal_at <= b.terminal_at

\* What no longer counts at an instant is no longer active either.
LEMMA LostWereActive ==
  ASSUME NEW at \in Nat, NEW now \in Nat, NEW before, CarveOuts(before, at), NEW after, CarveOuts(after, now),
         LivedOn(before, after, at), NEW ngs, NEW instant \in Nat
  PROVE  CountedOf(before, ngs, instant) \ CountedOf(after, ngs, instant)
           \subseteq ActiveOf(before, ngs) \ ActiveOf(after, ngs)
<1> SUFFICES ASSUME NEW id \in DOMAIN before, id \in CountedOf(before, ngs, instant),
                    id \notin CountedOf(after, ngs, instant)
             PROVE  id \in ActiveOf(before, ngs) /\ id \notin ActiveOf(after, ngs)
  BY DEF CountedOf
<1> DEFINE a == before[id]
           b == after[id]
<1>1. /\ b.non_goal = a.non_goal /\ b.ratified_at = a.ratified_at
      /\ b.status = MOOT <=> a.status = MOOT
      /\ b.status = ACTIVE => a.status = ACTIVE
      /\ a.status \notin {ACTIVE, MOOT} =>
           a.terminal_at # None /\ b.terminal_at # None /\ a.terminal_at <= b.terminal_at
  BY DEF LivedOn
<1>2. /\ a.terminal_at \in Nat \cup {None} /\ b.terminal_at \in Nat \cup {None}
      /\ b.status = ACTIVE => b.terminal_at = None
      /\ id \in DOMAIN after
  BY DEF CarveOuts, LivedOn
<1>3. /\ a.status # MOOT /\ a.non_goal \in ngs /\ a.ratified_at <= instant
      /\ a.terminal_at = None \/ instant < a.terminal_at
  BY DEF CountedOf, CountedAt, IntervalOf
<1>4. b.terminal_at # None /\ ~(instant < b.terminal_at)
  <2>1. b.status # MOOT
    BY <1>1, <1>3
  <2>2. ~CountedAt(IntervalOf(after, id), ngs, instant)
    BY <1>2, <2>1 DEF CountedOf
  <2> QED
    BY <1>1, <1>3, <2>2 DEF CountedAt, IntervalOf
<1>5. b.status # ACTIVE
  BY <1>2, <1>4
<1>6. a.status = ACTIVE
  <2> HIDE DEF a, b
  <2> QED
    BY <1>1, <1>2, <1>3, <1>4
<1> QED
  BY <1>3, <1>5, <1>6 DEF ActiveOf, counts_toward_level

\* If what a count loses is among what a level loses, the level stays above.
LEMMA AboveBefore ==
  ASSUME NEW X, IsFiniteSet(X), NEW Y, IsFiniteSet(Y), NEW L, IsFiniteSet(L), NEW M \in SUBSET L,
         X \ Y \subseteq L \ M, Cardinality(M) > Cardinality(Y)
  PROVE  Cardinality(L) > Cardinality(X)
<1>1. IsFiniteSet(L \ M) /\ IsFiniteSet(X \ Y) /\ IsFiniteSet(M) /\ IsFiniteSet(Y \cup (X \ Y))
  BY FS_Subset, FS_Union
<1>2. Cardinality(X \ Y) <= Cardinality(L \ M)
  BY <1>1, FS_Subset
<1>3. Cardinality(L \ M) = Cardinality(L) - Cardinality(M)
  <2>1. L \cap M = M
    OBVIOUS
  <2> QED
    BY <2>1, FS_Difference
<1>4. Cardinality(X) <= Cardinality(Y \cup (X \ Y))
  BY <1>1, FS_Subset
<1>5. Cardinality(Y \cup (X \ Y)) = Cardinality(Y) + Cardinality(X \ Y)
  <2>1. Cardinality(Y \cup (X \ Y)) = Cardinality(Y) + Cardinality(X \ Y) - Cardinality(Y \cap (X \ Y))
    BY <1>1, FS_Union
  <2>2. Cardinality(Y \cap (X \ Y)) = 0
    <3>1. Y \cap (X \ Y) = {}
      OBVIOUS
    <3> QED
      BY <3>1, FS_EmptySet, Zenon
  <2>3. Cardinality(Y) \in Nat /\ Cardinality(X \ Y) \in Nat
    BY <1>1, FS_CardinalityType
  <2> QED
    BY <2>1, <2>2, <2>3
<1>6. /\ Cardinality(X) \in Nat /\ Cardinality(Y) \in Nat /\ Cardinality(L) \in Nat /\ Cardinality(M) \in Nat
      /\ Cardinality(X \ Y) \in Nat /\ Cardinality(L \ M) \in Nat
  BY <1>1, FS_CardinalityType
<1> QED
  BY <1>2, <1>3, <1>4, <1>5, <1>6

LEMMA LevelShrinks ==
  ASSUME NEW at \in Nat, NEW before, CarveOuts(before, at), NEW after, LivedOn(before, after, at), NEW ngs
  PROVE  /\ ActiveOf(after, ngs) \subseteq ActiveOf(before, ngs)
         /\ IsFiniteSet(ActiveOf(before, ngs)) /\ IsFiniteSet(ActiveOf(after, ngs))
<1>1. ActiveOf(after, ngs) \subseteq ActiveOf(before, ngs)
  BY DEF ActiveOf, LivedOn, counts_toward_level
<1>2. IsFiniteSet(ActiveOf(before, ngs))
  BY FS_Subset DEF ActiveOf, CarveOuts
<1> QED
  BY <1>1, <1>2, FS_Subset

\* A level above the baseline was above the earlier baseline already, whatever
\* closed in between.
LEMMA StillAbove ==
  ASSUME NEW at \in Nat, NEW now \in Nat, NEW before, CarveOuts(before, at), NEW after, CarveOuts(after, now),
         LivedOn(before, after, at), NEW ngs, NEW since \in 0 .. at, NEW later \in 0 .. now, since <= later,
         Cardinality(ActiveOf(after, ngs)) > Floor(Intervals(after), ngs, later .. now)
  PROVE  Cardinality(ActiveOf(before, ngs)) > Floor(Intervals(before), ngs, since .. at)
<1>1. IsFiniteSet(Intervals(before)) /\ IsFiniteSet(Intervals(after))
  BY IntervalsShape
<1>2. PICK c \in later .. now : Floor(Intervals(after), ngs, later .. now) = count_at(Intervals(after), ngs, c)
  <2> DEFINE instants == later .. now
  <2>1. IsFiniteSet(instants) /\ now \in instants
    BY FS_Interval
  <2> HIDE DEF instants
  <2>2. \E c \in instants : Floor(Intervals(after), ngs, instants) = count_at(Intervals(after), ngs, c)
    BY <1>1, <2>1, FloorAttained
  <2> QED
    BY <2>2 DEF instants
<1>3. c \in Nat /\ since <= c
  OBVIOUS
<1>4. c <= at
  <2> SUFFICES ASSUME c > at PROVE FALSE
    BY <1>3
  <2>1. ActiveOf(after, ngs) \in SUBSET DOMAIN after
    BY DEF ActiveOf
  <2>2. \A id \in ActiveOf(after, ngs) : /\ after[id].status = ACTIVE /\ after[id].non_goal \in ngs
                                        /\ after[id].ratified_at <= c
    BY <1>3 DEF ActiveOf, LivedOn, CarveOuts, counts_toward_level
  <2>3. Cardinality(ActiveOf(after, ngs)) <= count_at(Intervals(after), ngs, c)
    BY <1>3, <2>1, <2>2, ActiveWereCounted
  <2>4. Cardinality(ActiveOf(after, ngs)) \in Nat /\ count_at(Intervals(after), ngs, c) \in Nat
    BY <1>1, LevelShrinks, FS_CardinalityType, CountIsNat
  <2> QED
    BY <1>2, <2>3, <2>4
<1>5. Cardinality(ActiveOf(before, ngs)) > count_at(Intervals(before), ngs, c)
  <2> DEFINE X == CountedOf(before, ngs, c)
             Y == CountedOf(after, ngs, c)
  <2>1. /\ IsFiniteSet(X) /\ count_at(Intervals(before), ngs, c) = Cardinality(X)
        /\ IsFiniteSet(Y) /\ count_at(Intervals(after), ngs, c) = Cardinality(Y)
    BY CountIsOfCarveOuts
  <2>2. X \ Y \subseteq ActiveOf(before, ngs) \ ActiveOf(after, ngs)
    BY <1>3, LostWereActive
  <2>3. Cardinality(ActiveOf(after, ngs)) > Cardinality(Y)
    BY <1>2, <2>1
  <2> HIDE DEF X, Y
  <2> QED
    BY <2>1, <2>2, <2>3, LevelShrinks, AboveBefore
<1>6. /\ Floor(Intervals(before), ngs, since .. at) \in Nat
      /\ Floor(Intervals(before), ngs, since .. at) <= count_at(Intervals(before), ngs, c)
  <2>1. IsFiniteSet(since .. at) /\ c \in since .. at
    BY <1>3, <1>4, FS_Interval
  <2> QED
    BY <1>1, <2>1, FloorAttained
<1>7. Cardinality(ActiveOf(before, ngs)) \in Nat /\ count_at(Intervals(before), ngs, c) \in Nat
  BY <1>1, LevelShrinks, FS_CardinalityType, CountIsNat
<1> QED
  BY <1>5, <1>6, <1>7

-----------------------------------------------------------------------------
(* Triggers over carve-outs that have lived on and reviews that stay closed. *)

\* No closure is withdrawn, moved or given another scope.
StayClosed(before, after) ==
  \A id \in DOMAIN before :
    before[id].status = CLOSED =>
      /\ id \in DOMAIN after /\ after[id].status = CLOSED
      /\ after[id].closed_at = before[id].closed_at /\ after[id].scope = before[id].scope

\* What has become as of `now` of a ledger as of `at`, under one charter.
Aged(c, before, at, after, now) ==
  /\ IsCharter(c) /\ at <= now
  /\ Ledger(before) /\ \A e \in before : e.at <= at
  /\ Ledger(after) /\ \A e \in after : e.at <= now
  /\ LivedOn(project(c, before, at).carveouts, project(c, after, now).carveouts, at)
  /\ StayClosed(project(c, before, at).reviews, project(c, after, now).reviews)

LEMMA ClosuresRemain ==
  ASSUME NEW before, Reviews(before), NEW after, StayClosed(before, after),
         NEW at \in Nat, NEW now \in Nat, at <= now, NEW ng
  PROVE  /\ CoveringClosures(before, ng, at) \subseteq CoveringClosures(after, ng, now)
         /\ GlobalClosures(before, at) \subseteq GlobalClosures(after, now)
<1>1. \A id \in DOMAIN before : before[id].status = CLOSED /\ before[id].closed_at <= at
        => after[id].closed_at <= now
  BY DEF StayClosed, Reviews
<1> QED
  BY <1>1 DEF CoveringClosures, GlobalClosures, ClosuresOf, StayClosed, covers

LEMMA LatestGrows ==
  ASSUME NEW T, T \subseteq Nat, IsFiniteSet(T), NEW S \in SUBSET T, S # {}
  PROVE  Max(S) <= Max(T)
<1>1. IsFiniteSet(S) /\ S \subseteq Int /\ T \subseteq Int /\ T # {}
  <2>1. S \subseteq T
    OBVIOUS
  <2>2. IsFiniteSet(S)
    BY <2>1, FS_Subset
  <2>3. S \subseteq Int /\ T \subseteq Int
    BY <2>1
  <2>4. T # {}
    BY <2>1
  <2> QED
    BY <2>2, <2>3, <2>4
<1>2. Max(S) \in S
  BY <1>1, MaxProperties
<1>3. Max(T) \in T /\ \A t \in T : Max(T) >= t
  BY <1>1, MaxProperties
<1>4. Max(S) \in T /\ Max(S) \in Int /\ Max(T) \in Int
  BY <1>1, <1>2, <1>3
<1> QED
  BY <1>3, <1>4

LEMMA FloorIsNat ==
  ASSUME NEW carveouts, NEW at \in Nat, CarveOuts(carveouts, at), NEW ngs, NEW since \in 0 .. at
  PROVE  Floor(Intervals(carveouts), ngs, since .. at) \in Nat /\ Floor(Intervals(carveouts), ngs, since .. at) # None
<1> DEFINE instants == since .. at
<1>1. IsFiniteSet(instants) /\ at \in instants
  BY FS_Interval
<1>2. IsFiniteSet(Intervals(carveouts))
  BY IntervalsShape
<1> HIDE DEF instants
<1>3. Floor(Intervals(carveouts), ngs, instants) \in Nat
  BY <1>1, <1>2, FloorAttained
<1> QED
  BY <1>3, NoneAssumption DEF instants

LEMMA PerIdRelaxes ==
  ASSUME NEW c, NEW at \in Nat, NEW now \in Nat, NEW before, NEW after, Aged(c, before, at, after, now),
         NEW ng \in active_non_goals(c),
         per_id(c, project(c, after, now), SettingsOf(c), ng).fired
  PROVE  per_id(c, project(c, before, at), SettingsOf(c), ng).fired
<1> DEFINE old == project(c, before, at)
           new == project(c, after, now)
           L == ActiveOf(old.carveouts, {ng})
           M == ActiveOf(new.carveouts, {ng})
           budget == budget_for(c, ng, SettingsOf(c).default_carveout_budget)
           past == CoveringClosures(old.reviews, ng, at)
           closures == CoveringClosures(new.reviews, ng, now)
<1> USE DEF Aged
<1>1. /\ CarveOuts(old.carveouts, at) /\ Reviews(old.reviews)
      /\ old.per_non_goal = per_non_goal_baseline(c, Intervals(old.carveouts), old.reviews, at)
  BY ProjectionOf
<1>2. /\ CarveOuts(new.carveouts, now) /\ Reviews(new.reviews)
      /\ new.per_non_goal = per_non_goal_baseline(c, Intervals(new.carveouts), new.reviews, now)
  BY ProjectionOf
<1>3. active_carveouts_for(old, ng) = L /\ active_carveouts_for(new, ng) = M
  BY ActiveOfState
<1>4. /\ M \subseteq L /\ IsFiniteSet(L) /\ IsFiniteSet(M) /\ Cardinality(L) \in Nat /\ Cardinality(M) \in Nat
      /\ Cardinality(M) <= Cardinality(L)
  <2>1. M \subseteq L /\ IsFiniteSet(L) /\ IsFiniteSet(M)
    BY <1>1, LevelShrinks
  <2> HIDE DEF L, M
  <2> QED
    BY <2>1, FS_Subset, FS_CardinalityType
<1>5. Cardinality(M) > budget /\ above_baseline(Cardinality(M), for_non_goal_baseline(new, ng))
  BY <1>3 DEF per_id
<1>6. budget \in Nat
  BY BudgetIsNat
<1>7. Cardinality(L) > budget
  <2> HIDE DEF L, M, budget
  <2> QED
    BY <1>4, <1>5, <1>6
<1>8. above_baseline(Cardinality(L), for_non_goal_baseline(old, ng))
  <2>1. CASE past = {}
    <3>1. ng \notin DOMAIN old.per_non_goal
      BY <1>1, <2>1 DEF per_non_goal_baseline
    <3> QED
      BY <3>1 DEF for_non_goal_baseline, above_baseline
  <2>2. CASE past # {}
    <3>1. past \subseteq closures /\ closures # {}
      BY <1>1, <2>2, ClosuresRemain
    <3>2. Max(past) <= Max(closures)
      <4>1. closures \subseteq Nat /\ IsFiniteSet(closures)
        BY <1>2, CoveringClosuresShape
      <4> HIDE DEF past, closures
      <4> QED
        BY <2>2, <3>1, <4>1, LatestGrows
    <3>3. /\ Max(past) \in 0 .. at
          /\ for_non_goal_baseline(old, ng) = Floor(Intervals(old.carveouts), {ng}, Max(past) .. at)
      BY <1>1, <2>2, PerNonGoalBaseline DEF for_non_goal_baseline
    <3>4. /\ Max(closures) \in 0 .. now
          /\ for_non_goal_baseline(new, ng) = Floor(Intervals(new.carveouts), {ng}, Max(closures) .. now)
      BY <1>2, <3>1, PerNonGoalBaseline DEF for_non_goal_baseline
    <3>5. Floor(Intervals(new.carveouts), {ng}, Max(closures) .. now) # None
      BY <1>2, <3>4, FloorIsNat
    <3>6. Cardinality(M) > Floor(Intervals(new.carveouts), {ng}, Max(closures) .. now)
      BY <1>5, <3>4, <3>5 DEF above_baseline
    <3>7. Cardinality(L) > Floor(Intervals(old.carveouts), {ng}, Max(past) .. at)
      <4> HIDE DEF old, new, past, closures
      <4> QED
        BY <1>1, <1>2, <3>2, <3>3, <3>4, <3>6, StillAbove DEF old, new
    <3> QED
      BY <3>3, <3>7 DEF above_baseline
  <2> QED
    BY <2>1, <2>2
<1> QED
  BY <1>3, <1>7, <1>8 DEF per_id

LEMMA CumulativeRelaxes ==
  ASSUME NEW c, NEW at \in Nat, NEW now \in Nat, NEW before, NEW after, Aged(c, before, at, after, now),
         cumulative(c, project(c, after, now), SettingsOf(c)).fired
  PROVE  cumulative(c, project(c, before, at), SettingsOf(c)).fired
<1> DEFINE old == project(c, before, at)
           new == project(c, after, now)
           ngs == active_non_goals(c)
           L == ActiveOf(old.carveouts, ngs)
           M == ActiveOf(new.carveouts, ngs)
           ratio == SettingsOf(c).cumulative_ratio
           past == GlobalClosures(old.reviews, at)
           closures == GlobalClosures(new.reviews, now)
<1> USE DEF Aged
<1>1. /\ CarveOuts(old.carveouts, at) /\ Reviews(old.reviews)
      /\ old.cumulative = cumulative_baseline(c, Intervals(old.carveouts), old.reviews, at)
  BY ProjectionOf
<1>2. /\ CarveOuts(new.carveouts, now) /\ Reviews(new.reviews)
      /\ new.cumulative = cumulative_baseline(c, Intervals(new.carveouts), new.reviews, now)
  BY ProjectionOf
<1>3. /\ UNION {active_carveouts_for(old, ng) : ng \in ngs} = L
      /\ UNION {active_carveouts_for(new, ng) : ng \in ngs} = M
  BY ActiveOfState
<1>4. /\ M \subseteq L /\ IsFiniteSet(L) /\ IsFiniteSet(M) /\ Cardinality(L) \in Nat /\ Cardinality(M) \in Nat
      /\ Cardinality(M) <= Cardinality(L)
  <2>1. M \subseteq L /\ IsFiniteSet(L) /\ IsFiniteSet(M)
    BY <1>1, LevelShrinks
  <2> HIDE DEF L, M
  <2> QED
    BY <2>1, FS_Subset, FS_CardinalityType
<1>5. /\ ngs # {} /\ above_baseline(Cardinality(M), new.cumulative)
      /\ Cardinality(M) * ratio[2] - ratio[1] * Cardinality(ngs) > 0
  BY <1>3 DEF cumulative
<1>6. ratio[1] \in Nat /\ ratio[2] \in Nat /\ Cardinality(ngs) \in Nat
  BY ThresholdsTyped, ActiveNonGoalsFinite, FS_CardinalityType DEF Positive
<1>7. Cardinality(L) * ratio[2] - ratio[1] * Cardinality(ngs) > 0
  <2> DEFINE l == Cardinality(L)
             m == Cardinality(M)
             n == ratio[1] * Cardinality(ngs)
             d == ratio[2]
  <2>1. l \in Nat /\ m \in Nat /\ n \in Nat /\ d \in Nat /\ m <= l /\ m * d - n > 0
    BY <1>4, <1>5, <1>6
  <2> HIDE DEF l, m, n, d
  <2>2. m * d <= l * d
    BY <2>1
  <2>3. l * d - n > 0
    BY <2>1, <2>2
  <2> QED
    BY <2>3 DEF l, n, d
<1>8. above_baseline(Cardinality(L), old.cumulative)
  <2>1. CASE past = {}
    <3>1. old.cumulative = None
      BY <1>1, <2>1 DEF cumulative_baseline
    <3> QED
      BY <3>1 DEF above_baseline
  <2>2. CASE past # {}
    <3>1. past \subseteq closures /\ closures # {}
      BY <1>1, <2>2, ClosuresRemain
    <3>2. Max(past) <= Max(closures)
      <4>1. closures \subseteq Nat /\ IsFiniteSet(closures)
        BY <1>2, GlobalClosuresShape
      <4> HIDE DEF past, closures
      <4> QED
        BY <2>2, <3>1, <4>1, LatestGrows
    <3>3. Max(past) \in 0 .. at /\ old.cumulative = Floor(Intervals(old.carveouts), ngs, Max(past) .. at)
      BY <1>1, <1>5, <2>2, CumulativeBaseline
    <3>4. Max(closures) \in 0 .. now /\ new.cumulative = Floor(Intervals(new.carveouts), ngs, Max(closures) .. now)
      BY <1>2, <1>5, <3>1, CumulativeBaseline
    <3>5. Floor(Intervals(new.carveouts), ngs, Max(closures) .. now) # None
      BY <1>2, <3>4, FloorIsNat
    <3>6. Cardinality(M) > Floor(Intervals(new.carveouts), ngs, Max(closures) .. now)
      BY <1>5, <3>4, <3>5 DEF above_baseline
    <3>7. Cardinality(L) > Floor(Intervals(old.carveouts), ngs, Max(past) .. at)
      <4> HIDE DEF old, new, past, closures, ngs
      <4> QED
        BY <1>1, <1>2, <3>2, <3>3, <3>4, <3>6, StillAbove DEF old, new
    <3> QED
      BY <3>3, <3>7 DEF above_baseline
  <2> QED
    BY <2>1, <2>2
<1> QED
  BY <1>3, <1>5, <1>7, <1>8 DEF cumulative

LEMMA DensityRelaxes ==
  ASSUME NEW c, NEW at \in Nat, NEW now \in Nat, NEW before, NEW after, Aged(c, before, at, after, now),
         density(project(c, after, now), SettingsOf(c), now).fired
  PROVE  density(project(c, before, at), SettingsOf(c), at).fired
<1> DEFINE old == project(c, before, at)
           new == project(c, after, now)
           settings == SettingsOf(c)
           few == in_range(new, settings, now)
           many == in_range(old, settings, at)
<1> USE DEF Aged
<1>1. CarveOuts(old.carveouts, at) /\ LivedOn(old.carveouts, new.carveouts, at)
  BY ProjectionOf
<1>2. /\ settings.density_window_days \in Nat /\ settings.density_threshold \in Nat
  BY ThresholdsTyped DEF Positive
<1> HIDE DEF old, new, settings
<1>3. few \subseteq many
  <2> SUFFICES ASSUME NEW id \in few PROVE id \in many
    OBVIOUS
  <2> DEFINE a == old.carveouts[id]
             b == new.carveouts[id]
  <2>1. id \in DOMAIN new.carveouts /\ counts_toward_velocity(b)
        /\ in_window(b.ratified_at, now, settings.density_window_days, settings.window_boundary)
    BY DEF in_range
  <2>2. id \in DOMAIN old.carveouts /\ b.ratified_at = a.ratified_at /\ b.historical = a.historical
        /\ a.ratified_at <= at /\ a.ratified_at \in Nat /\ (a.status = MOOT => b.status = MOOT)
    BY <1>1, <2>1 DEF LivedOn, CarveOuts
  <2>3. counts_toward_velocity(a)
    BY <2>1, <2>2 DEF counts_toward_velocity
  <2>4. in_window(a.ratified_at, at, settings.density_window_days, settings.window_boundary)
    <3> HIDE DEF a, b
    <3> QED
      BY <1>2, <2>1, <2>2 DEF in_window
  <2> QED
    BY <2>2, <2>3, <2>4 DEF in_range
<1>4. IsFiniteSet(many)
  BY <1>1, FS_Subset DEF in_range, CarveOuts
<1>5. Cardinality(few) >= settings.density_threshold
  BY DEF density, new, settings
<1>6. Cardinality(many) >= settings.density_threshold
  <2> HIDE DEF few, many
  <2>1. IsFiniteSet(few) /\ Cardinality(few) <= Cardinality(many)
    BY <1>3, <1>4, FS_Subset
  <2> QED
    BY <1>2, <1>4, <1>5, <2>1, FS_CardinalityType
<1> QED
  BY <1>6 DEF density, old, settings

\* Whatever fires as of `now` fired as of `at` already.
LEMMA NothingNewFires ==
  ASSUME NEW c, NEW at \in Nat, NEW now \in Nat, NEW before, NEW after, Aged(c, before, at, after, now)
  PROVE  Fired(c, after, now) \subseteq Fired(c, before, at)
<1> DEFINE old == project(c, before, at)
           new == project(c, after, now)
           settings == SettingsOf(c)
<1>1. \A ng \in active_non_goals(c) : per_id(c, new, settings, ng).fired => per_id(c, old, settings, ng).fired
  BY PerIdRelaxes
<1>2. density(new, settings, now).fired => density(old, settings, at).fired
  BY DensityRelaxes
<1>3. cumulative(c, new, settings).fired => cumulative(c, old, settings).fired
  BY CumulativeRelaxes
<1> HIDE DEF old, new, settings
<1>4. \A ng, state : per_id(c, state, settings, ng).trigger_id = PER_ID /\ per_id(c, state, settings, ng).scope = ng
  BY DEF per_id
<1>5. \A state, t : density(state, settings, t).trigger_id = DENSITY /\ density(state, settings, t).scope = GLOBAL
  BY DEF density
<1>6. \A state : /\ cumulative(c, state, settings).trigger_id = CUMULATIVE
                 /\ cumulative(c, state, settings).scope = GLOBAL
  BY DEF cumulative
<1>7. \A r \in evaluate_all(c, new, settings, now) :
        r.fired => \E q \in evaluate_all(c, old, settings, at) :
                     q.fired /\ q.trigger_id = r.trigger_id /\ q.scope = r.scope
  <2> SUFFICES ASSUME NEW r \in evaluate_all(c, new, settings, now), r.fired
               PROVE  \E q \in evaluate_all(c, old, settings, at) :
                        q.fired /\ q.trigger_id = r.trigger_id /\ q.scope = r.scope
    OBVIOUS
  <2>1. \/ \E ng \in active_non_goals(c) : r = per_id(c, new, settings, ng)
        \/ r = density(new, settings, now)
        \/ r = cumulative(c, new, settings)
    BY DEF evaluate_all
  <2>2. /\ \A ng \in active_non_goals(c) : per_id(c, old, settings, ng) \in evaluate_all(c, old, settings, at)
        /\ density(old, settings, at) \in evaluate_all(c, old, settings, at)
        /\ cumulative(c, old, settings) \in evaluate_all(c, old, settings, at)
    BY DEF evaluate_all
  <2> QED
    BY <1>1, <1>2, <1>3, <1>4, <1>5, <1>6, <2>1, <2>2
<1> QED
  BY <1>7 DEF Fired, fired_of, old, new, settings

-----------------------------------------------------------------------------
(* What a step does to the carve-outs and the reviews.                     *)

\* Later evidence of the same life: `retired` and `expired` are the first events
\* of their kinds as of `at`, `retired2` and `expired2` as of `now`.
LEMMA LifeGoesOn ==
  ASSUME NEW at \in Nat, NEW now \in Nat, at <= now, NEW x \in Nat \cup {None}, NEW moot \in BOOLEAN,
         NEW retired, NEW retired2, NEW expired, NEW expired2,
         \A e \in {retired, retired2, expired, expired2} : e # None => e.at \in Nat,
         retired # None => retired2 # None,
         expired # None => expired2 # None,
         ~moot /\ retired # None => retired2.at >= retired.at,
         ~moot /\ expired # None => expired2.at >= expired.at,
         ~moot /\ retired = None /\ expired # None /\ retired2 # None => retired2.at >= expired.at,
         ~moot /\ retired = None /\ expired = None /\ reached(x, at) =>
           \A e \in {retired2, expired2} : e # None => e.at >= x
  PROVE  LET a == lifecycle(x, moot, retired, expired, at)
             b == lifecycle(x, moot, retired2, expired2, now)
         IN  /\ b.status = MOOT <=> a.status = MOOT
             /\ b.status = ACTIVE => a.status = ACTIVE
             /\ a.status \notin {ACTIVE, MOOT} =>
                  a.terminal_at # None /\ b.terminal_at # None /\ a.terminal_at <= b.terminal_at
<1> DEFINE a == lifecycle(x, moot, retired, expired, at)
           b == lifecycle(x, moot, retired2, expired2, now)
<1>1. CASE moot
  <2>1. a.status = MOOT /\ b.status = MOOT
    BY <1>1 DEF lifecycle
  <2> QED
    BY <2>1 DEF ACTIVE, MOOT
<1>2. CASE ~moot /\ retired # None
  <2>1. a.status = RETIRED /\ a.terminal_at = retired.at /\ b.status = RETIRED /\ b.terminal_at = retired2.at
    BY <1>2 DEF lifecycle
  <2>2. retired.at \in Nat /\ retired2.at \in Nat /\ retired.at <= retired2.at
    BY <1>2
  <2> QED
    BY <2>1, <2>2, NoneAssumption DEF ACTIVE, MOOT, RETIRED
<1>3. CASE ~moot /\ retired = None /\ expired # None
  <2>1. a.status = EXPIRED /\ a.terminal_at = expired.at /\ expired.at \in Nat
    BY <1>3 DEF lifecycle
  <2>2. CASE retired2 # None
    <3>1. b.status = RETIRED /\ b.terminal_at = retired2.at /\ retired2.at \in Nat /\ retired2.at >= expired.at
      BY <1>3, <2>2 DEF lifecycle
    <3> QED
      BY <2>1, <3>1, NoneAssumption DEF ACTIVE, MOOT, RETIRED, EXPIRED
  <2>3. CASE retired2 = None
    <3>1. b.status = EXPIRED /\ b.terminal_at = expired2.at /\ expired2.at \in Nat /\ expired2.at >= expired.at
      BY <1>3, <2>3 DEF lifecycle
    <3> QED
      BY <2>1, <3>1, NoneAssumption DEF ACTIVE, MOOT, EXPIRED
  <2> QED
    BY <2>2, <2>3
<1>4. CASE ~moot /\ retired = None /\ expired = None /\ reached(x, at)
  <2>1. x \in Nat /\ x <= now /\ x <= at
    BY <1>4 DEF reached
  <2>2. a.status = EXPIRED /\ a.terminal_at = x
    BY <1>4 DEF lifecycle, EffectiveExpiry
  <2>3. CASE retired2 # None
    <3>1. b.status = RETIRED /\ b.terminal_at = retired2.at /\ retired2.at \in Nat /\ retired2.at >= x
      BY <1>4, <2>3 DEF lifecycle
    <3> QED
      BY <2>1, <2>2, <3>1, NoneAssumption DEF ACTIVE, MOOT, RETIRED, EXPIRED
  <2>4. CASE retired2 = None /\ expired2 # None
    <3>1. b.status = EXPIRED /\ b.terminal_at = expired2.at /\ expired2.at \in Nat /\ expired2.at >= x
      BY <1>4, <2>4 DEF lifecycle
    <3> QED
      BY <2>1, <2>2, <3>1, NoneAssumption DEF ACTIVE, MOOT, EXPIRED
  <2>5. CASE retired2 = None /\ expired2 = None
    <3>1. reached(x, now)
      BY <2>1, NoneAssumption DEF reached
    <3>2. b.status = EXPIRED /\ b.terminal_at = x
      BY <1>4, <2>5, <3>1 DEF lifecycle, EffectiveExpiry
    <3> QED
      BY <2>1, <2>2, <3>2, NoneAssumption DEF ACTIVE, MOOT, EXPIRED
  <2> QED
    BY <2>3, <2>4, <2>5
<1>5. CASE ~moot /\ retired = None /\ expired = None /\ ~reached(x, at)
  <2>1. a.status = ACTIVE
    BY <1>5 DEF lifecycle, EffectiveExpiry
  <2>2. b.status # MOOT
    BY <1>5 DEF lifecycle, MOOT, RETIRED, EXPIRED, ACTIVE
  <2> QED
    BY <2>1, <2>2 DEF ACTIVE, MOOT
<1> QED
  BY <1>1, <1>2, <1>3, <1>4, <1>5

\* The first event of a set stays the first when only later ones are added.
LEMMA FirstStaysFirst ==
  ASSUME NEW few, Ledger(few), few # {}, NEW many, Ledger(many), few \subseteq many,
         NEW t, \A e \in few : e.at <= t, \A e \in many \ few : e.at = t
  PROVE  FirstOf(many).at = FirstOf(few).at /\ FirstOf(few) # None /\ FirstOf(many) # None
<1> DEFINE f == FirstOf(few)
           g == FirstOf(many)
<1>1. f \in few /\ \A e \in few \ {f} : Precedes(f, e)
  BY FirstOfProperties
<1>2. g \in many /\ \A e \in many \ {g} : Precedes(g, e)
  BY FirstOfProperties
<1>3. \A e \in many : e.at \in Nat
  BY EventFields DEF Ledger
<1>4. f # None /\ g # None
  BY <1>1, <1>2, NoneAssumption DEF Ledger
<1> HIDE DEF f, g
<1>5. f.at <= g.at
  <2>1. CASE g \in few
    BY <1>1, <1>3, <2>1 DEF Precedes
  <2>2. CASE g \notin few
    BY <1>1, <1>2, <1>3, <2>2
  <2> QED
    BY <2>1, <2>2
<1>6. g.at <= f.at
  BY <1>1, <1>2, <1>3 DEF Precedes
<1> QED
  BY <1>1, <1>2, <1>3, <1>4, <1>5, <1>6 DEF f, g

\* `after` extends `before` as a commit at `at` may that ratifies nothing.
Continues(c, before, at, after) ==
  /\ before \subseteq after
  /\ \A e \in after \ before :
       /\ e.kind # CARVEOUT_RATIFIED
       /\ e.kind = REVIEW_OPENED => OfKind(before, REVIEW_OPENED, e.id) = {}
       /\ e.at # at =>
            /\ e.kind = REVIEW_CLOSED => OfKind(before, REVIEW_CLOSED, e.id) = {}
            /\ e.kind \in TERMINAL_KINDS =>
                 /\ \A kind \in TERMINAL_KINDS : OfKind(before, kind, e.id) = {}
                 /\ e.id \in ProjectedIds(before) => CarveOutState(c, before, e.id, at).status # EXPIRED

\* What a ledger has of a kind and id stays the first of its kind.
LEMMA FirstOfKindStays ==
  ASSUME NEW c, NEW at \in Nat, NEW before, Ledger(before), \A e \in before : e.at <= at,
         NEW after, Ledger(after), Continues(c, before, at, after),
         NEW kind \in TERMINAL_KINDS \cup {REVIEW_CLOSED}, NEW id, OfKind(before, kind, id) # {}
  PROVE  /\ FirstOf(OfKind(after, kind, id)).at = FirstOf(OfKind(before, kind, id)).at
         /\ FirstOf(OfKind(after, kind, id)) # None
<1> DEFINE few == OfKind(before, kind, id)
           many == OfKind(after, kind, id)
<1>1. Ledger(few) /\ Ledger(many)
  BY SubsetIsLedger DEF OfKind
<1>2. few \subseteq many
  BY DEF OfKind, Continues
<1>3. \A e \in few : e.at <= at
  BY DEF OfKind
<1>4. \A e \in many \ few : e.at = at
  <2> SUFFICES ASSUME NEW e \in many, e \notin few, e.at # at PROVE FALSE
    OBVIOUS
  <2>1. e \in after \ before /\ e.kind = kind /\ e.id = id
    BY DEF OfKind
  <2>2. CASE kind = REVIEW_CLOSED
    BY <2>1, <2>2 DEF Continues
  <2>3. CASE kind \in TERMINAL_KINDS
    BY <2>1, <2>3 DEF Continues
  <2> QED
    BY <2>2, <2>3
<1> HIDE DEF few, many
<1>5. FirstOf(many).at = FirstOf(few).at /\ FirstOf(few) # None /\ FirstOf(many) # None
  BY <1>1, <1>2, <1>3, <1>4, FirstStaysFirst DEF few
<1> QED
  BY <1>5 DEF few, many

\* What neither a tick nor such a commit touches, and what it may only end.
LEMMA CarveOutLivesOn ==
  ASSUME NEW c, NEW at \in Nat, NEW now \in Nat, at <= now,
         NEW before, Ledger(before), \A e \in before : e.at <= at,
         NEW after, Ledger(after), Continues(c, before, at, after), NEW id \in ProjectedIds(before)
  PROVE  LET a == CarveOutState(c, before, id, at)
             b == CarveOutState(c, after, id, now)
         IN  /\ b.non_goal = a.non_goal /\ b.ratified_at = a.ratified_at /\ b.historical = a.historical
             /\ a.ratified_at <= at
             /\ b.status = MOOT <=> a.status = MOOT
             /\ b.status = ACTIVE => a.status = ACTIVE
             /\ a.status \notin {ACTIVE, MOOT} =>
                  a.terminal_at # None /\ b.terminal_at # None /\ a.terminal_at <= b.terminal_at
<1> DEFINE ratified == FirstOf(OfKind(before, CARVEOUT_RATIFIED, id))
           x == ratified.expires_at
           moot == ratified.non_goal \in retired_non_goals(c)
           retired == FirstOf(OfKind(before, CARVEOUT_RETIRED, id))
           expired == FirstOf(OfKind(before, CARVEOUT_EXPIRED, id))
           retired2 == FirstOf(OfKind(after, CARVEOUT_RETIRED, id))
           expired2 == FirstOf(OfKind(after, CARVEOUT_EXPIRED, id))
           a == lifecycle(x, moot, retired, expired, at)
           b == lifecycle(x, moot, retired2, expired2, now)
<1>1. OfKind(after, CARVEOUT_RATIFIED, id) = OfKind(before, CARVEOUT_RATIFIED, id)
  BY DEF Continues, OfKind
<1>2. /\ ratified \in before /\ ratified.kind = CARVEOUT_RATIFIED
  <2>1. OfKind(before, CARVEOUT_RATIFIED, id) # {}
    BY DEF ProjectedIds, OfKind
  <2> QED
    BY <2>1, FirstIsPresent
<1>3. x \in Nat \cup {None}
  BY <1>2 DEF Ledger, ResolvedEvent, CarveOutRatified, CarveOutTerminal, ReviewOpened,
              ReviewClosed, Correction, CARVEOUT_RATIFIED, TERMINAL_KINDS, CARVEOUT_RETIRED,
              CARVEOUT_EXPIRED, REVIEW_OPENED, REVIEW_CLOSED, CORRECTION
<1>4. /\ CARVEOUT_RETIRED \in TERMINAL_KINDS /\ CARVEOUT_EXPIRED \in TERMINAL_KINDS
  BY DEF TERMINAL_KINDS
<1>5. /\ retired # None => retired \in before /\ retired.kind = CARVEOUT_RETIRED /\ retired.id = id /\ retired.at \in Nat
      /\ expired # None => expired \in before /\ expired.kind = CARVEOUT_EXPIRED /\ expired.id = id /\ expired.at \in Nat
      /\ retired2 # None => retired2 \in after /\ retired2.kind = CARVEOUT_RETIRED /\ retired2.id = id /\ retired2.at \in Nat
      /\ expired2 # None => expired2 \in after /\ expired2.kind = CARVEOUT_EXPIRED /\ expired2.id = id /\ expired2.at \in Nat
      /\ retired # None <=> OfKind(before, CARVEOUT_RETIRED, id) # {}
      /\ expired # None <=> OfKind(before, CARVEOUT_EXPIRED, id) # {}
  BY FirstIsPresent
<1>6. retired # None => retired2 # None /\ retired2.at = retired.at
  BY <1>4, <1>5, FirstOfKindStays
<1>7. expired # None => expired2 # None /\ expired2.at = expired.at
  BY <1>4, <1>5, FirstOfKindStays
\* What ends anew ends now.
<1>8. ASSUME NEW e \in {retired2, expired2}, e # None, e \notin before,
             \/ retired # None \/ expired # None \/ a.status = EXPIRED
      PROVE  e.at = at
  <2>1. e \in after \ before /\ e.kind \in TERMINAL_KINDS /\ e.id = id
    BY <1>4, <1>5, <1>8
  <2>2. a.status = CarveOutState(c, before, id, at).status
    BY DEF CarveOutState
  <2> HIDE DEF a, retired, expired, retired2, expired2
  <2> QED
    BY <1>4, <1>5, <1>8, <2>1, <2>2 DEF Continues
<1>9. retired = None /\ expired # None /\ retired2 # None => retired2.at >= expired.at
  <2> SUFFICES ASSUME retired = None, expired # None, retired2 # None PROVE retired2.at >= expired.at
    OBVIOUS
  <2>1. retired2 \notin before
    BY <1>5 DEF OfKind
  <2> HIDE DEF retired, expired, retired2, expired2, a
  <2>2. retired2.at = at
    BY <1>8, <2>1
  <2> QED
    BY <1>5, <2>2
<1>10. ASSUME ~moot, retired = None, expired = None, reached(x, at), NEW e \in {retired2, expired2}, e # None
       PROVE  e.at >= x
  <2>1. a.status = EXPIRED
    BY <1>10 DEF lifecycle, EffectiveExpiry
  <2>2. e \notin before
    BY <1>5, <1>10 DEF OfKind
  <2>3. x \in Nat /\ x <= at
    BY <1>3, <1>10 DEF reached
  <2> HIDE DEF retired, expired, retired2, expired2, a, x
  <2>4. e.at = at
    BY <1>8, <1>10, <2>1, <2>2
  <2> QED
    BY <2>3, <2>4
<1>11. /\ b.status = MOOT <=> a.status = MOOT
       /\ b.status = ACTIVE => a.status = ACTIVE
       /\ a.status \notin {ACTIVE, MOOT} =>
            a.terminal_at # None /\ b.terminal_at # None /\ a.terminal_at <= b.terminal_at
  <2>1. moot \in BOOLEAN
    OBVIOUS
  <2> HIDE DEF ratified, x, moot, retired, expired, retired2, expired2
  <2>2. \A e \in {retired, retired2, expired, expired2} : e # None => e.at \in Nat
    BY <1>5
  <2>3. (retired # None => retired2.at >= retired.at) /\ (expired # None => expired2.at >= expired.at)
    BY <1>5, <1>6, <1>7
  <2> QED
    BY <1>3, <1>6, <1>7, <1>9, <1>10, <2>1, <2>2, <2>3, LifeGoesOn
<1>12. ratified.at <= at
  BY <1>2
<1> QED
  BY <1>1, <1>11, <1>12 DEF CarveOutState

LEMMA ReviewsStayClosed ==
  ASSUME NEW c, NEW at \in Nat, NEW before, Ledger(before), \A e \in before : e.at <= at,
         NEW after, Ledger(after), Continues(c, before, at, after)
  PROVE  StayClosed(project_reviews(before), project_reviews(after))
<1> SUFFICES ASSUME NEW id \in DOMAIN project_reviews(before), project_reviews(before)[id].status = CLOSED
             PROVE  /\ id \in DOMAIN project_reviews(after) /\ project_reviews(after)[id].status = CLOSED
                    /\ project_reviews(after)[id].closed_at = project_reviews(before)[id].closed_at
                    /\ project_reviews(after)[id].scope = project_reviews(before)[id].scope
  BY DEF StayClosed
<1> DEFINE closing == FirstOf(OfKind(before, REVIEW_CLOSED, id))
           closing2 == FirstOf(OfKind(after, REVIEW_CLOSED, id))
<1>1. OfKind(before, REVIEW_OPENED, id) # {} /\ project_reviews(before)[id] = ReviewState(before, id)
  BY DEF project_reviews, OfKind
<1>2. OfKind(after, REVIEW_OPENED, id) = OfKind(before, REVIEW_OPENED, id)
  BY <1>1 DEF Continues, OfKind
<1>3. id \in DOMAIN project_reviews(after) /\ project_reviews(after)[id] = ReviewState(after, id)
  BY <1>1, <1>2 DEF project_reviews, OfKind
<1>4. closing # None
  BY <1>1 DEF ReviewState, OPEN, CLOSED
<1>5. closing2 # None /\ closing2.at = closing.at
  BY <1>4, FirstIsPresent, FirstOfKindStays
<1> QED
  BY <1>1, <1>2, <1>3, <1>4, <1>5 DEF ReviewState

LEMMA ContinuedIsAged ==
  ASSUME NEW c, IsCharter(c), NEW at \in Nat, NEW now \in Nat, at <= now,
         NEW before, Ledger(before), \A e \in before : e.at <= at,
         NEW after, Ledger(after), \A e \in after : e.at <= now, Continues(c, before, at, after)
  PROVE  Aged(c, before, at, after, now)
<1>1. /\ project(c, before, at).carveouts = project_carveouts(c, before, at)
      /\ project(c, before, at).reviews = project_reviews(before)
  BY ProjectionOf
<1>2. /\ project(c, after, now).carveouts = project_carveouts(c, after, now)
      /\ project(c, after, now).reviews = project_reviews(after)
  BY ProjectionOf
<1>3. ProjectedIds(after) = ProjectedIds(before)
  BY DEF Continues, ProjectedIds
<1>4. LivedOn(project_carveouts(c, before, at), project_carveouts(c, after, now), at)
  BY <1>3, CarveOutLivesOn DEF LivedOn, project_carveouts
<1>5. StayClosed(project_reviews(before), project_reviews(after))
  BY ReviewsStayClosed
<1> QED
  BY <1>1, <1>2, <1>4, <1>5 DEF Aged

-----------------------------------------------------------------------------
(* The two properties.                                                     *)

\* With the same reviews open and nothing new firing, no path is more closed.
LEMMA PathRelaxes ==
  ASSUME NEW reviews, NEW old, NEW new, NEW ng,
         \A r \in fired_of(new) : \E q \in fired_of(old) : q.trigger_id = r.trigger_id /\ q.scope = r.scope
  PROVE  Closedness(compute_path_state(reviews, new), ng) <= Closedness(compute_path_state(reviews, old), ng)
<1> DEFINE before == compute_path_state(reviews, old)
           after == compute_path_state(reviews, new)
<1>1. after.closed \subseteq before.closed
  BY DEF compute_path_state
<1>2. \/ before.global_state = after.global_state
      \/ after.global_state = OPEN /\ before.global_state = CLOSED
  BY DEF compute_path_state
<1>3. before.global_state \in {OPEN, CLOSED, REVIEW_REQUIRED}
  BY DEF compute_path_state
<1> HIDE DEF before, after
<1>4. for_non_goal(before, ng) \in {OPEN, CLOSED, REVIEW_REQUIRED}
  BY <1>3 DEF for_non_goal
<1>5. \/ for_non_goal(after, ng) = for_non_goal(before, ng)
      \/ for_non_goal(after, ng) = OPEN
  BY <1>1, <1>2 DEF for_non_goal, OPEN, CLOSED, REVIEW_REQUIRED
<1> QED
  BY <1>4, <1>5 DEF Closedness, OPEN, CLOSED, REVIEW_REQUIRED, before, after

\* Time only relaxes: a Tick fires nothing that did not fire and closes no
\* path, whatever the charter and the ledger (window.py, projection.py).
THEOREM TimeCanOnlyRelax == Spec => TimeOnlyRelaxes
<1>1. ASSUME TypeOK, TypeOK', [Next]_vars PROVE TimeRelaxes
  <2> SUFFICES ASSUME Tick
               PROVE  /\ Fired(charter', ledger', clock') \subseteq Fired(charter, ledger, clock)
                      /\ \A ng \in DOMAIN charter.non_goals :
                           Closedness(Path(charter', ledger', clock'), ng)
                             <= Closedness(Path(charter, ledger, clock), ng)
    BY DEF TimeRelaxes
  <2>1. charter' = charter /\ ledger' = ledger /\ clock' = clock + 1
    BY DEF Tick
  <2>2. IsCharter(charter) /\ clock \in Nat /\ Ledger(ledger) /\ \A e \in ledger : e.at <= clock
    BY <1>1 DEF TypeOK, Ledger
  <2>3. \A e \in ledger : e.at <= clock + 1
    BY <2>2, EventFields DEF Ledger
  <2>4. Continues(charter, ledger, clock, ledger)
    BY DEF Continues
  <2>5. Aged(charter, ledger, clock, ledger, clock + 1)
    BY <2>2, <2>3, <2>4, ContinuedIsAged
  <2>6. Fired(charter, ledger, clock + 1) \subseteq Fired(charter, ledger, clock)
    BY <2>2, <2>5, NothingNewFires
  <2> DEFINE old == evaluate_all(charter, project(charter, ledger, clock), SettingsOf(charter), clock)
             new == evaluate_all(charter, project(charter, ledger, clock + 1), SettingsOf(charter), clock + 1)
  <2>7. \A r \in fired_of(new) : \E q \in fired_of(old) : q.trigger_id = r.trigger_id /\ q.scope = r.scope
    <3> DEFINE Pairs(results) == {<<r.trigger_id, r.scope>> : r \in fired_of(results)}
    <3>1. Pairs(new) \subseteq Pairs(old)
      BY <2>6 DEF Fired
    <3> HIDE DEF old, new
    <3> SUFFICES ASSUME NEW r \in fired_of(new)
                 PROVE  \E q \in fired_of(old) : q.trigger_id = r.trigger_id /\ q.scope = r.scope
      OBVIOUS
    <3>2. <<r.trigger_id, r.scope>> \in Pairs(old)
      BY <3>1
    <3>3. PICK q \in fired_of(old) : <<r.trigger_id, r.scope>> = <<q.trigger_id, q.scope>>
      BY <3>2
    <3> QED
      BY <3>3
  <2>8. /\ project(charter, ledger, clock).reviews = project_reviews(ledger)
        /\ project(charter, ledger, clock + 1).reviews = project_reviews(ledger)
    BY <2>2, <2>3, ProjectionOf
  <2>9. /\ Path(charter, ledger, clock) = compute_path_state(project_reviews(ledger), old)
        /\ Path(charter, ledger, clock + 1) = compute_path_state(project_reviews(ledger), new)
    BY <2>8 DEF Path
  <2> HIDE DEF old, new
  <2>10. \A ng : Closedness(Path(charter, ledger, clock + 1), ng) <= Closedness(Path(charter, ledger, clock), ng)
    BY <2>7, <2>9, PathRelaxes
  <2> QED
    BY <2>1, <2>6, <2>10
<1> QED
  BY <1>1, TypeCorrect, PTL DEF Spec, TimeOnlyRelaxes

\* What is committed is added to the ledger, and nothing else changes.
LEMMA CommitSteps ==
  ASSUME Next, ledger' # ledger
  PROVE  charter' = charter /\ clock' = clock /\ ledger \subseteq ledger'
<1>1. \A events : Commit(events) => charter' = charter /\ clock' = clock /\ ledger \subseteq ledger'
  BY DEF Commit
<1>2. ~EditCharter /\ ~Tick
  BY DEF EditCharter, RetireNonGoal, SetBudget, SetConfig, SwitchProfile, RatifyCharter, Tick
<1>3. \E events : Commit(events)
  BY <1>2 DEF Next, Tightening, Relaxing, Ratify, RatifyTogether, Retire, Expire, OpenReview, CloseReview,
              OpenAndCloseReview, Correct
<1> QED
  BY <1>1, <1>3

\* Only a ratification can make a trigger fire: no other commit does, a
\* backdated one included, provided it ends what is still open or ends it now.
THEOREM OnlyRatificationCanTighten == Spec => OnlyRatificationTightens
<1>1. ASSUME TypeOK, TypeOK', [Next]_vars PROVE RelaxesUnlessRatified
  <2> DEFINE new == ledger' \ ledger
  <2> SUFFICES ASSUME new # {}, \A e \in new : e.kind # CARVEOUT_RATIFIED, EndsWhatIsOpen
               PROVE  Fired(charter', ledger', clock') \subseteq Fired(charter, ledger, clock)
    BY DEF RelaxesUnlessRatified
  <2>1. Next /\ ledger' # ledger
    BY <1>1 DEF vars
  <2>2. charter' = charter /\ clock' = clock /\ ledger \subseteq ledger'
    BY <2>1, CommitSteps
  <2>3. IsCharter(charter) /\ clock \in Nat /\ Ledger(ledger) /\ \A e \in ledger : e.at <= clock
    BY <1>1 DEF TypeOK, Ledger
  <2>4. Ledger(ledger') /\ \A e \in ledger' : e.at <= clock
    BY <1>1, <2>2 DEF TypeOK, Ledger, UniquePaths
  <2>5. Continues(charter, ledger, clock, ledger')
    <3> SUFFICES ASSUME NEW e \in new
                 PROVE  /\ e.kind # CARVEOUT_RATIFIED
                        /\ e.kind = REVIEW_OPENED => OfKind(ledger, REVIEW_OPENED, e.id) = {}
                        /\ e.at # clock =>
                             /\ e.kind = REVIEW_CLOSED => OfKind(ledger, REVIEW_CLOSED, e.id) = {}
                             /\ e.kind \in TERMINAL_KINDS =>
                                  /\ \A kind \in TERMINAL_KINDS : OfKind(ledger, kind, e.id) = {}
                                  /\ e.id \in ProjectedIds(ledger) =>
                                       CarveOutState(charter, ledger, e.id, clock).status # EXPIRED
      BY <2>2 DEF Continues
    <3>1. /\ e.kind = REVIEW_OPENED => OfKind(ledger, REVIEW_OPENED, e.id) = {}
          /\ e.at # clock /\ e.kind = REVIEW_CLOSED => OfKind(ledger, REVIEW_CLOSED, e.id) = {}
      BY DEF EndsWhatIsOpen, Has
    <3>2. ASSUME e.at # clock, e.kind \in TERMINAL_KINDS
          PROVE  /\ \A kind \in TERMINAL_KINDS : OfKind(ledger, kind, e.id) = {}
                 /\ e.id \in ProjectedIds(ledger) =>
                      CarveOutState(charter, ledger, e.id, clock).status # EXPIRED
      <4>1. ~Ended(e.id) /\ ~AlreadyExpired(e.id)
        BY <3>2 DEF EndsWhatIsOpen
      <4>2. \A kind \in TERMINAL_KINDS : OfKind(ledger, kind, e.id) = {}
        BY <4>1 DEF Ended, Has, TERMINAL_KINDS
      <4>3. e.id \in ProjectedIds(ledger) => OfKind(ledger, CARVEOUT_RATIFIED, e.id) # {}
        BY DEF ProjectedIds, OfKind
      <4> QED
        BY <4>1, <4>2, <4>3 DEF AlreadyExpired, Has
    <3> QED
      BY <3>1, <3>2
  <2>6. Aged(charter, ledger, clock, ledger', clock)
    BY <2>3, <2>4, <2>5, ContinuedIsAged
  <2>7. Fired(charter, ledger', clock) \subseteq Fired(charter, ledger, clock)
    BY <2>3, <2>6, NothingNewFires
  <2> QED
    BY <2>2, <2>7
<1> QED
  BY <1>1, TypeCorrect, PTL DEF Spec, OnlyRatificationTightens

-----------------------------------------------------------------------------
(* Density.                                                                *)

\* Density fires on amendment activity only, whatever the ledger: the recent
\* ratifications of live, non-historical carve-outs are at least as many as the
\* threshold (triggers/density.py, window.py, A11 and A12).
THEOREM DensityFiresOnActivity == Spec => []DensityNeedsActivity
<1>1. TypeOK => DensityNeedsActivity
  <2> SUFFICES ASSUME TypeOK, DensityNow(charter, ledger, clock).fired
               PROVE  LET settings == SettingsOf(charter)
                          recent == {e \in ledger :
                                       /\ e.kind = CARVEOUT_RATIFIED
                                       /\ charter.adopted_at = None \/ e.at > charter.adopted_at
                                       /\ e.at + settings.density_window_days >= clock
                                       /\ settings.window_boundary = "exclusive" =>
                                            e.at + settings.density_window_days # clock
                                       /\ e.non_goal \notin retired_non_goals(charter)}
                      IN  Cardinality({e.id : e \in recent}) >= settings.density_threshold
    BY DEF DensityNeedsActivity
  <2> DEFINE settings == SettingsOf(charter)
             recent == {e \in ledger :
                          /\ e.kind = CARVEOUT_RATIFIED
                          /\ charter.adopted_at = None \/ e.at > charter.adopted_at
                          /\ e.at + settings.density_window_days >= clock
                          /\ settings.window_boundary = "exclusive" =>
                               e.at + settings.density_window_days # clock
                          /\ e.non_goal \notin retired_non_goals(charter)}
             ids == {e.id : e \in recent}
             state == project(charter, ledger, clock)
             counted == in_range(state, settings, clock)
  <2>1. /\ IsCharter(charter) /\ clock \in Nat /\ Ledger(ledger) /\ \A e \in ledger : e.at <= clock
    BY DEF TypeOK, Ledger
  <2>2. /\ settings.density_window_days \in Nat /\ settings.density_threshold \in Nat
        /\ settings.window_boundary \in {"inclusive", "exclusive"}
    BY <2>1, ThresholdsTyped DEF Positive
  <2>3. charter.adopted_at \in Nat \cup {None}
    BY <2>1 DEF IsCharter, CharterOver
  <2>4. state.carveouts = project_carveouts(charter, ledger, clock)
    BY <2>1, ProjectionOf
  <2>5. Cardinality(counted) >= settings.density_threshold
    BY DEF DensityNow, density
  <2>6. counted \subseteq ids
    <3> SUFFICES ASSUME NEW id \in counted PROVE \E e \in recent : e.id = id
      OBVIOUS
    <3> DEFINE e == FirstOf(OfKind(ledger, CARVEOUT_RATIFIED, id))
               carveout == CarveOutState(charter, ledger, id, clock)
    <3>1. /\ id \in ProjectedIds(ledger) /\ counts_toward_velocity(carveout)
          /\ in_window(carveout.ratified_at, clock, settings.density_window_days, settings.window_boundary)
      BY <2>4 DEF in_range, project_carveouts
    <3>2. e \in ledger /\ e.kind = CARVEOUT_RATIFIED /\ e.id = id /\ e.at \in Nat
      <4>1. OfKind(ledger, CARVEOUT_RATIFIED, id) # {}
        BY <3>1 DEF ProjectedIds, OfKind
      <4> QED
        BY <2>1, <4>1, FirstIsPresent
    <3>3. /\ carveout.ratified_at = e.at /\ carveout.historical = historical(charter, e.at)
          /\ e.non_goal \in retired_non_goals(charter) => carveout.status = MOOT
      BY DEF CarveOutState, lifecycle
    <3> HIDE DEF e, carveout, settings
    <3>4. e.non_goal \notin retired_non_goals(charter) /\ ~historical(charter, e.at)
      BY <3>1, <3>3 DEF counts_toward_velocity
    <3>5. charter.adopted_at = None \/ e.at > charter.adopted_at
      BY <2>3, <3>2, <3>4 DEF historical
    <3>6. /\ e.at + settings.density_window_days >= clock
          /\ settings.window_boundary = "exclusive" => e.at + settings.density_window_days # clock
      BY <2>1, <2>2, <3>1, <3>2, <3>3 DEF in_window
    <3> QED
      BY <3>2, <3>4, <3>5, <3>6
  <2>7. IsFiniteSet(ids)
    <3> DEFINE g == [e \in recent |-> e.id]
    <3>1. IsFiniteSet(recent)
      BY <2>1, FS_Subset DEF Ledger
    <3>2. g \in [recent -> {g[e] : e \in recent}] /\ {g[e] : e \in recent} = ids
      OBVIOUS
    <3> HIDE DEF g, recent, ids
    <3> QED
      BY <3>1, <3>2, ImageFinite
  <2>8. Cardinality(ids) >= settings.density_threshold
    <3> HIDE DEF ids, counted, settings
    <3>1. IsFiniteSet(counted) /\ Cardinality(counted) <= Cardinality(ids)
      BY <2>6, <2>7, FS_Subset
    <3> QED
      BY <2>2, <2>5, <2>7, <3>1, FS_CardinalityType
  <2> QED
    BY <2>8
<1> QED
  BY <1>1, TypeCorrect, PTL DEF Spec
=============================================================================
