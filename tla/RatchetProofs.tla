--------------------------- MODULE RatchetProofs ----------------------------
(***************************************************************************)
(* The repository implements the abstract ratchet.  First how counts and   *)
(* floors move when carve-outs end, when carve-outs are ratified and when  *)
(* a review closes; then what an evaluation shows of a scope; then which   *)
(* of the three each commit, and the passing of time, amounts to.          *)
(***************************************************************************)
EXTENDS RatchetRefinement, RepoProofs

-----------------------------------------------------------------------------
(* How counts and floors move.                                             *)

\* Carve-outs as of an instant: none is ratified later, and what is neither
\* active nor moot has ended.
Settled(carveouts, at) ==
  /\ CarveOuts(carveouts, at)
  /\ \A id \in DOMAIN carveouts :
       /\ carveouts[id].ratified_at <= at
       /\ carveouts[id].status \notin {ACTIVE, MOOT} => carveouts[id].terminal_at # None

LEMMA ProjectionSettles ==
  ASSUME NEW c, NEW events, Ledger(events), NEW t \in Nat, \A e \in events : e.at <= t
  PROVE  Settled(project_carveouts(c, events, t), t)
<1> DEFINE carveouts == project_carveouts(c, events, t)
<1>1. CarveOuts(carveouts, t)
  BY ProjectedCarveOuts
<1>2. ASSUME NEW id \in DOMAIN carveouts
      PROVE  /\ carveouts[id].ratified_at <= t
             /\ carveouts[id].status \notin {ACTIVE, MOOT} => carveouts[id].terminal_at # None
  <2> DEFINE ratified == FirstOf(OfKind(events, CARVEOUT_RATIFIED, id))
             retirement == FirstOf(OfKind(events, CARVEOUT_RETIRED, id))
             expiration == FirstOf(OfKind(events, CARVEOUT_EXPIRED, id))
             life == lifecycle(ratified.expires_at, ratified.non_goal \in retired_non_goals(c),
                               retirement, expiration, t)
  <2>1. OfKind(events, CARVEOUT_RATIFIED, id) # {}
    BY DEF project_carveouts, ProjectedIds, OfKind
  <2>2. ratified.at <= t
    BY <2>1, FirstIsPresent
  <2>3. /\ retirement # None => retirement.at # None
        /\ expiration # None => expiration.at # None
    BY FirstIsPresent, NoneAssumption
  <2>4. life.status \notin {ACTIVE, MOOT} => life.terminal_at # None
    <3> HIDE DEF ratified, retirement, expiration
    <3> QED
      BY <2>3 DEF lifecycle, reached, EffectiveExpiry
  <2>5. carveouts[id].ratified_at = ratified.at /\ carveouts[id].status = life.status
        /\ carveouts[id].terminal_at = life.terminal_at
    BY DEF project_carveouts, CarveOutState
  <2> QED
    BY <2>2, <2>4, <2>5
<1> QED
  BY <1>1, <1>2 DEF Settled

\* The level is the count of the instant itself.
LEMMA LevelIsCount ==
  ASSUME NEW carveouts, NEW at \in Nat, Settled(carveouts, at), NEW ngs
  PROVE  /\ CountedOf(carveouts, ngs, at) = ActiveOf(carveouts, ngs)
         /\ IsFiniteSet(ActiveOf(carveouts, ngs)) /\ Cardinality(ActiveOf(carveouts, ngs)) \in Nat
<1>1. \A id \in DOMAIN carveouts :
        id \in CountedOf(carveouts, ngs, at) <=> id \in ActiveOf(carveouts, ngs)
  BY DEF Settled, CarveOuts, CountedOf, CountedAt, IntervalOf, ActiveOf, counts_toward_level, ACTIVE, MOOT
<1>2. CountedOf(carveouts, ngs, at) = ActiveOf(carveouts, ngs)
  BY <1>1 DEF CountedOf, ActiveOf
<1>3. IsFiniteSet(ActiveOf(carveouts, ngs))
  BY FS_Subset DEF ActiveOf, Settled, CarveOuts
<1> QED
  BY <1>2, <1>3, FS_CardinalityType

\* What the engine takes for the floor of some non-goals after these closures.
BaselineOver(carveouts, ngs, closures, at) ==
  IF closures = {} THEN None ELSE Floor(Intervals(carveouts), ngs, Max(closures) .. at)

Counts(carveouts, ngs, t) == Cardinality(CountedOf(carveouts, ngs, t))

LEMMA CountsAreNat ==
  ASSUME NEW carveouts, NEW at \in Nat, CarveOuts(carveouts, at), NEW ngs, NEW t
  PROVE  /\ IsFiniteSet(CountedOf(carveouts, ngs, t)) /\ Counts(carveouts, ngs, t) \in Nat
         /\ count_at(Intervals(carveouts), ngs, t) = Counts(carveouts, ngs, t)
<1>1. /\ IsFiniteSet(CountedOf(carveouts, ngs, t))
      /\ count_at(Intervals(carveouts), ngs, t) = Cardinality(CountedOf(carveouts, ngs, t))
  BY CountIsOfCarveOuts
<1> QED
  BY <1>1, FS_CardinalityType DEF Counts

\* The least of the counts since an instant.
IsLeastCount(n, carveouts, ngs, since, at) ==
  /\ n \in Nat /\ n # None
  /\ \E t \in since .. at : n = Counts(carveouts, ngs, t)
  /\ \A t \in since .. at : n <= Counts(carveouts, ngs, t)

LEMMA BaselineIsLeast ==
  ASSUME NEW carveouts, NEW at \in Nat, CarveOuts(carveouts, at), NEW ngs,
         NEW closures \in SUBSET (0 .. at), IsFiniteSet(closures), closures # {}
  PROVE  /\ Max(closures) \in closures /\ Max(closures) \in 0 .. at
         /\ \A t \in closures : Max(closures) >= t
         /\ IsLeastCount(BaselineOver(carveouts, ngs, closures, at), carveouts, ngs, Max(closures), at)
<1> DEFINE since == Max(closures)
           instants == since .. at
<1>1. since \in closures /\ \A t \in closures : since >= t
  <2>1. closures \subseteq Int
    OBVIOUS
  <2> QED
    BY <2>1, MaxProperties
<1>2. IsFiniteSet(Intervals(carveouts))
  BY IntervalsShape
<1>3. IsFiniteSet(instants) /\ at \in instants
  <2>1. since \in 0 .. at
    BY <1>1
  <2> HIDE DEF since
  <2> QED
    BY <2>1, FS_Interval
<1>4. /\ Floor(Intervals(carveouts), ngs, instants) \in Nat
      /\ \E t \in instants : Floor(Intervals(carveouts), ngs, instants) = count_at(Intervals(carveouts), ngs, t)
      /\ \A t \in instants : Floor(Intervals(carveouts), ngs, instants) <= count_at(Intervals(carveouts), ngs, t)
  <2> HIDE DEF instants
  <2> QED
    BY <1>2, <1>3, FloorAttained
<1>5. \A t : count_at(Intervals(carveouts), ngs, t) = Counts(carveouts, ngs, t)
  BY CountsAreNat
<1> QED
  BY <1>1, <1>4, <1>5, NoneAssumption DEF BaselineOver, IsLeastCount

\* Some carve-outs have ended just now, nothing else has happened to any.
Lapsed(before, after, now) ==
  /\ DOMAIN after = DOMAIN before
  /\ \A id \in DOMAIN before :
       LET a == before[id]
           b == after[id]
       IN  /\ b.non_goal = a.non_goal /\ b.ratified_at = a.ratified_at
           /\ \/ b.status = a.status /\ b.terminal_at = a.terminal_at
              \/ a.status = ACTIVE /\ b.status \notin {ACTIVE, MOOT} /\ b.terminal_at = now

\* Endings now leave earlier counts alone and lower the present one.
LEMMA LapseCounts ==
  ASSUME NEW at \in Nat, NEW now \in {at, at + 1}, NEW before, Settled(before, at),
         NEW after, Settled(after, now), Lapsed(before, after, now), NEW ngs
  PROVE  /\ \A t \in Nat : t < now => CountedOf(after, ngs, t) = CountedOf(before, ngs, t)
         /\ ActiveOf(after, ngs) \subseteq ActiveOf(before, ngs)
<1>1. \A id \in DOMAIN before : before[id].status = ACTIVE => before[id].terminal_at = None
  BY DEF Settled, CarveOuts
<1>2. ASSUME NEW t \in Nat, t < now PROVE CountedOf(after, ngs, t) = CountedOf(before, ngs, t)
  <2>1. \A id \in DOMAIN before : id \in CountedOf(after, ngs, t) <=> id \in CountedOf(before, ngs, t)
    BY <1>1, <1>2 DEF Lapsed, CountedOf, CountedAt, IntervalOf, ACTIVE, MOOT
  <2> QED
    BY <2>1 DEF Lapsed, CountedOf
<1>3. ActiveOf(after, ngs) \subseteq ActiveOf(before, ngs)
  BY DEF Lapsed, ActiveOf, counts_toward_level
<1> QED
  BY <1>2, <1>3

\* The baseline falls with the level, if at all.
LEMMA LapseLowers ==
  ASSUME NEW at \in Nat, NEW now \in {at, at + 1}, NEW before, Settled(before, at),
         NEW after, Settled(after, now), Lapsed(before, after, now), NEW ngs,
         NEW closures \in SUBSET (0 .. at), IsFiniteSet(closures)
  PROVE  BaselineOver(after, ngs, closures, now)
           = R!Lower(BaselineOver(before, ngs, closures, at), Cardinality(ActiveOf(after, ngs)))
<1> DEFINE floor == BaselineOver(before, ngs, closures, at)
           lower == BaselineOver(after, ngs, closures, now)
           n == Cardinality(ActiveOf(after, ngs))
           since == Max(closures)
<1>1. CASE closures = {}
  BY <1>1 DEF BaselineOver, R!Lower
<1>2. CASE closures # {}
  <2>0. now \in Nat /\ at <= now /\ closures \in SUBSET (0 .. now) /\ CarveOuts(before, at) /\ CarveOuts(after, now)
    BY DEF Settled
  <2>1. since \in 0 .. at /\ IsLeastCount(floor, before, ngs, since, at)
    BY <1>2, <2>0, BaselineIsLeast
  <2>2. IsLeastCount(lower, after, ngs, since, now)
    BY <1>2, <2>0, BaselineIsLeast
  <2>3. \A t \in Nat : t < now => Counts(after, ngs, t) = Counts(before, ngs, t)
    BY LapseCounts DEF Counts
  <2>4. Counts(after, ngs, now) = n /\ n \in Nat
    BY <2>0, LevelIsCount DEF Counts
  <2>5. n <= Counts(before, ngs, at)
    <3>1. /\ ActiveOf(after, ngs) \subseteq ActiveOf(before, ngs)
          /\ IsFiniteSet(ActiveOf(before, ngs)) /\ CountedOf(before, ngs, at) = ActiveOf(before, ngs)
      BY LapseCounts, LevelIsCount
    <3> QED
      BY <3>1, FS_Subset DEF Counts
  <2>6. Counts(before, ngs, at) \in Nat
    BY <2>0, CountsAreNat
  <2> HIDE DEF floor, lower, n, since
  <2> USE DEF IsLeastCount
  <2>7. lower <= n
    BY <2>0, <2>1, <2>2, <2>4
  <2>8. lower <= floor
    <3>1. PICK t \in since .. at : floor = Counts(before, ngs, t)
      BY <2>1
    <3>2. CASE t < now
      BY <2>0, <2>1, <2>2, <2>3, <3>1, <3>2
    <3>3. CASE ~(t < now)
      <4>1. t = at
        BY <2>0, <2>1, <3>3
      <4> QED
        BY <2>1, <2>2, <2>4, <2>5, <2>6, <2>7, <3>1, <4>1
    <3> QED
      BY <3>2, <3>3
  <2>9. lower = n \/ lower >= floor
    <3>1. PICK t \in since .. now : lower = Counts(after, ngs, t)
      BY <2>2
    <3>2. CASE t = now
      BY <2>4, <3>1, <3>2
    <3>3. CASE t # now
      <4>1. t < now /\ t \in Nat /\ t \in since .. at
        BY <2>0, <2>1, <3>3
      <4>2. lower = Counts(before, ngs, t)
        BY <2>3, <3>1, <4>1
      <4> QED
        BY <2>1, <4>1, <4>2
    <3> QED
      BY <3>2, <3>3
  <2>10. lower = R!Lower(floor, n)
    BY <2>1, <2>2, <2>4, <2>7, <2>8, <2>9 DEF R!Lower
  <2> QED
    BY <2>10 DEF floor, lower, n
<1> QED
  BY <1>1, <1>2

\* Some carve-outs are ratified just now, nothing else has happened to any, and
\* nothing else happened at this very instant.
Grown(before, after, at) ==
  /\ DOMAIN before \subseteq DOMAIN after
  /\ \A id \in DOMAIN before :
       /\ after[id] = before[id]
       /\ before[id].ratified_at # at /\ before[id].terminal_at # at
  /\ \A id \in DOMAIN after \ DOMAIN before : after[id].ratified_at = at

\* Ratifications now leave earlier counts alone and raise the present one.
LEMMA GrowthCounts ==
  ASSUME NEW at \in Nat, NEW before, Settled(before, at), NEW after, Settled(after, at),
         Grown(before, after, at), NEW ngs
  PROVE  /\ \A t \in Nat : t < at => CountedOf(after, ngs, t) = CountedOf(before, ngs, t)
         /\ CountedOf(before, ngs, at) \subseteq CountedOf(after, ngs, at)
         /\ at > 0 => CountedOf(before, ngs, at) = CountedOf(before, ngs, at - 1)
<1>1. ASSUME NEW t \in Nat, t < at PROVE CountedOf(after, ngs, t) = CountedOf(before, ngs, t)
  <2>1. \A id \in DOMAIN before : id \in CountedOf(after, ngs, t) <=> id \in CountedOf(before, ngs, t)
    BY DEF Grown, CountedOf, CountedAt, IntervalOf
  <2>2. \A id \in DOMAIN after \ DOMAIN before : id \notin CountedOf(after, ngs, t)
    BY <1>1 DEF Grown, CountedOf, CountedAt, IntervalOf
  <2> QED
    BY <2>1, <2>2 DEF CountedOf, Grown
<1>2. CountedOf(before, ngs, at) \subseteq CountedOf(after, ngs, at)
  BY DEF Grown, CountedOf, CountedAt, IntervalOf
<1>3. ASSUME at > 0 PROVE CountedOf(before, ngs, at) = CountedOf(before, ngs, at - 1)
  <2>1. ASSUME NEW id \in DOMAIN before
        PROVE  CountedAt(IntervalOf(before, id), ngs, at) <=> CountedAt(IntervalOf(before, id), ngs, at - 1)
    <3> DEFINE a == before[id]
    <3>1. /\ a.ratified_at \in Nat /\ a.ratified_at <= at /\ a.ratified_at # at
          /\ a.terminal_at \in Nat \cup {None} /\ a.terminal_at # at
      BY DEF Settled, CarveOuts, Grown
    <3>2. a.ratified_at <= at /\ a.ratified_at <= at - 1
      BY <3>1
    <3>3. a.terminal_at # None => (at < a.terminal_at <=> at - 1 < a.terminal_at)
      BY <3>1
    <3> HIDE DEF a
    <3> QED
      BY <3>2, <3>3 DEF CountedAt, IntervalOf, a
  <2> QED
    BY <2>1 DEF CountedOf
<1> QED
  BY <1>1, <1>2, <1>3

\* The baseline holds while the level grows.
LEMMA GrowthHolds ==
  ASSUME NEW at \in Nat, NEW before, Settled(before, at), NEW after, Settled(after, at),
         Grown(before, after, at), NEW ngs,
         NEW closures \in SUBSET (0 .. at), IsFiniteSet(closures), at \notin closures
  PROVE  /\ BaselineOver(after, ngs, closures, at) = BaselineOver(before, ngs, closures, at)
         /\ Cardinality(ActiveOf(after, ngs)) >= Cardinality(ActiveOf(before, ngs))
<1> DEFINE floor == BaselineOver(before, ngs, closures, at)
           new == BaselineOver(after, ngs, closures, at)
           since == Max(closures)
<1>0. CarveOuts(before, at) /\ CarveOuts(after, at)
  BY DEF Settled
<1>1. Cardinality(ActiveOf(after, ngs)) >= Cardinality(ActiveOf(before, ngs))
  <2>1. ActiveOf(before, ngs) \subseteq ActiveOf(after, ngs)
    BY DEF ActiveOf, Grown
  <2>2. /\ IsFiniteSet(ActiveOf(after, ngs)) /\ Cardinality(ActiveOf(after, ngs)) \in Nat
        /\ Cardinality(ActiveOf(before, ngs)) \in Nat
    BY LevelIsCount
  <2> QED
    BY <2>1, <2>2, FS_Subset
<1>2. CASE closures = {}
  BY <1>1, <1>2 DEF BaselineOver
<1>3. CASE closures # {}
  <2>1. since \in 0 .. at /\ since # at /\ IsLeastCount(floor, before, ngs, since, at)
    BY <1>0, <1>3, BaselineIsLeast
  <2>2. IsLeastCount(new, after, ngs, since, at)
    BY <1>0, <1>3, BaselineIsLeast
  <2>3. \A t \in Nat : t < at => Counts(after, ngs, t) = Counts(before, ngs, t)
    BY GrowthCounts DEF Counts
  <2>4. \A t : Counts(after, ngs, t) \in Nat /\ Counts(before, ngs, t) \in Nat
    BY <1>0, CountsAreNat
  <2>5. Counts(before, ngs, at) <= Counts(after, ngs, at)
    <3>1. CountedOf(before, ngs, at) \subseteq CountedOf(after, ngs, at)
          /\ IsFiniteSet(CountedOf(after, ngs, at))
      BY <1>0, GrowthCounts, CountsAreNat
    <3> QED
      BY <3>1, FS_Subset DEF Counts
  <2>6. Counts(before, ngs, at) = Counts(before, ngs, at - 1)
    BY <2>1, GrowthCounts DEF Counts
  <2> HIDE DEF floor, new, since
  <2> USE DEF IsLeastCount
  <2>7. new <= floor
    <3>1. PICK t \in since .. at : floor = Counts(before, ngs, t)
      BY <2>1
    <3>2. CASE t < at
      BY <2>1, <2>2, <2>3, <3>1, <3>2
    <3>3. CASE ~(t < at)
      <4>1. t = at /\ at - 1 \in since .. at /\ at - 1 \in Nat
        BY <2>1, <3>3
      <4>2. new <= Counts(after, ngs, at - 1)
        BY <2>2, <4>1
      <4>3. Counts(after, ngs, at - 1) = Counts(before, ngs, at - 1)
        BY <2>3, <4>1
      <4> QED
        BY <2>6, <3>1, <4>1, <4>2, <4>3
    <3> QED
      BY <3>2, <3>3
  <2>8. new >= floor
    <3>1. PICK t \in since .. at : new = Counts(after, ngs, t)
      BY <2>2
    <3>2. floor <= Counts(before, ngs, t)
      BY <2>1
    <3>3. Counts(before, ngs, t) <= Counts(after, ngs, t)
      <4>1. t \in Nat /\ (t < at \/ t = at)
        BY <2>1
      <4> QED
        BY <2>3, <2>4, <2>5, <4>1
    <3> QED
      BY <2>1, <2>4, <3>1, <3>2, <3>3
  <2>9. new = floor
    BY <2>1, <2>2, <2>7, <2>8
  <2> QED
    BY <1>1, <2>9 DEF new, floor
<1> QED
  BY <1>2, <1>3

\* A closure sets the baseline at the level of its instant.
LEMMA ClosureRebases ==
  ASSUME NEW carveouts, NEW at \in Nat, Settled(carveouts, at), NEW ngs,
         NEW closures \in SUBSET (0 .. at), IsFiniteSet(closures)
  PROVE  BaselineOver(carveouts, ngs, closures \cup {at}, at) = Cardinality(ActiveOf(carveouts, ngs))
<1> DEFINE closed == closures \cup {at}
           floor == BaselineOver(carveouts, ngs, closed, at)
<1>1. closed \in SUBSET (0 .. at) /\ IsFiniteSet(closed) /\ closed # {} /\ at \in closed
  <2>1. IsFiniteSet(closed)
    BY FS_Singleton, FS_Union
  <2> QED
    BY <2>1
<1> HIDE DEF closed
<1>2. /\ Max(closed) \in 0 .. at /\ Max(closed) >= at
      /\ IsLeastCount(floor, carveouts, ngs, Max(closed), at)
  BY <1>1, BaselineIsLeast DEF Settled
<1>3. \E t \in at .. at : floor = Counts(carveouts, ngs, t)
  <2>1. Max(closed) = at
    BY <1>2
  <2> QED
    BY <1>2, <2>1 DEF IsLeastCount
<1>4. floor = Counts(carveouts, ngs, at)
  BY <1>3
<1> QED
  BY <1>4, LevelIsCount DEF Counts, floor, closed

LEMMA BaselineBelowLevel ==
  ASSUME NEW carveouts, NEW at \in Nat, Settled(carveouts, at), NEW ngs,
         NEW closures \in SUBSET (0 .. at), IsFiniteSet(closures)
  PROVE  \/ BaselineOver(carveouts, ngs, closures, at) = None
         \/ /\ BaselineOver(carveouts, ngs, closures, at) \in Nat
            /\ BaselineOver(carveouts, ngs, closures, at) <= Cardinality(ActiveOf(carveouts, ngs))
<1> DEFINE floor == BaselineOver(carveouts, ngs, closures, at)
<1>1. CASE closures = {}
  BY <1>1 DEF BaselineOver
<1>2. CASE closures # {}
  <2>1. Max(closures) \in 0 .. at /\ IsLeastCount(floor, carveouts, ngs, Max(closures), at)
    BY <1>2, BaselineIsLeast DEF Settled
  <2>2. floor \in Nat /\ floor <= Counts(carveouts, ngs, at)
    <3> HIDE DEF floor
    <3> QED
      BY <2>1 DEF IsLeastCount
  <2> QED
    BY <2>2, LevelIsCount DEF Counts
<1> QED
  BY <1>1, <1>2

-----------------------------------------------------------------------------
(* What the ratchet sees of an evaluation.                                 *)

\* The non-goals a watched scope counts, and the reviews that set its baseline.
ScopeOf(c, s) == IF s = GLOBAL THEN active_non_goals(c) ELSE {s}
Rebases(c, review, s) ==
  IF s = GLOBAL THEN active_non_goals(c) # {} /\ review.scope.global_
                ELSE s \in active_non_goals(c) /\ covers(review, s)
ClosuresFor(c, reviews, s, at) ==
  {reviews[id].closed_at :
     id \in {r \in DOMAIN reviews : /\ reviews[r].status = CLOSED
                                    /\ reviews[r].closed_at <= at
                                    /\ Rebases(c, reviews[r], s)}}

\* The ledger as of an instant none of its events comes after.
AsOf(events, t) == t \in Nat /\ Ledger(events) /\ \A e \in events : e.at <= t

LEMMA ClosuresForShape ==
  ASSUME NEW c, NEW reviews, Reviews(reviews), NEW s, NEW at \in Nat
  PROVE  ClosuresFor(c, reviews, s, at) \in SUBSET (0 .. at) /\ IsFiniteSet(ClosuresFor(c, reviews, s, at))
<1> DEFINE S == {r \in DOMAIN reviews : /\ reviews[r].status = CLOSED
                                       /\ reviews[r].closed_at <= at
                                       /\ Rebases(c, reviews[r], s)}
<1>1. ClosuresFor(c, reviews, s, at) = {reviews[id].closed_at : id \in S}
  BY DEF ClosuresFor
<1>2. S \in SUBSET DOMAIN reviews /\ \A id \in S : reviews[id].status = CLOSED /\ reviews[id].closed_at <= at
  OBVIOUS
<1> HIDE DEF S
<1>3. {reviews[id].closed_at : id \in S} \subseteq Nat /\ IsFiniteSet({reviews[id].closed_at : id \in S})
  BY <1>2, ClosureInstants
<1>4. \A t \in {reviews[id].closed_at : id \in S} : t \in 0 .. at
  BY <1>2, <1>3
<1> QED
  BY <1>1, <1>3, <1>4

LEMMA ObservedScope ==
  ASSUME NEW c, NEW events, NEW t, AsOf(events, t), NEW s \in Watched
  PROVE  LET carveouts == project_carveouts(c, events, t)
             closures == ClosuresFor(c, project_reviews(events), s, t)
         IN  /\ LevelOf(c, project(c, events, t))[s] = Cardinality(ActiveOf(carveouts, ScopeOf(c, s)))
             /\ BaselineOf(project(c, events, t))[s] = BaselineOver(carveouts, ScopeOf(c, s), closures, t)
             /\ ReviewedOf(c, project(c, events, t))[s] = closures
<1> DEFINE state == project(c, events, t)
           carveouts == project_carveouts(c, events, t)
           reviews == project_reviews(events)
           closures == ClosuresFor(c, reviews, s, t)
<1>1. /\ t \in Nat
      /\ state.carveouts = carveouts /\ state.reviews = reviews /\ state.evaluated_at = t
      /\ state.per_non_goal = per_non_goal_baseline(c, Intervals(carveouts), reviews, t)
      /\ state.cumulative = cumulative_baseline(c, Intervals(carveouts), reviews, t)
      /\ CarveOuts(carveouts, t) /\ Reviews(reviews)
  BY ProjectionOf DEF AsOf, project
<1>2. LevelOf(c, state)[s] = Cardinality(ActiveOf(carveouts, ScopeOf(c, s)))
  <2>1. /\ \A ng : active_carveouts_for(state, ng) = ActiveOf(carveouts, {ng})
        /\ UNION {active_carveouts_for(state, ng) : ng \in active_non_goals(c)}
             = ActiveOf(carveouts, active_non_goals(c))
    BY <1>1, ActiveOfState
  <2> HIDE DEF state, carveouts
  <2> QED
    BY <2>1 DEF LevelOf, ScopeOf
<1>3. BaselineOf(state)[s] = IF s = GLOBAL THEN state.cumulative ELSE for_non_goal_baseline(state, s)
  BY DEF BaselineOf
<1>4. CASE s = GLOBAL /\ active_non_goals(c) # {}
  <2>1. closures = GlobalClosures(reviews, t)
    BY <1>4 DEF ClosuresFor, GlobalClosures, ClosuresOf, Rebases
  <2>2. state.cumulative = BaselineOver(carveouts, active_non_goals(c), GlobalClosures(reviews, t), t)
    BY <1>1, <1>4, CumulativeBaseline DEF BaselineOver
  <2>3. ReviewedOf(c, state)[s] = GlobalClosures(reviews, t)
    BY <1>1, <1>4 DEF ReviewedOf
  <2> QED
    BY <1>2, <1>3, <1>4, <2>1, <2>2, <2>3 DEF ScopeOf
<1>5. CASE s = GLOBAL /\ active_non_goals(c) = {}
  <2>1. closures = {}
    BY <1>5 DEF ClosuresFor, Rebases
  <2>2. ReviewedOf(c, state)[s] = {}
    BY <1>5 DEF ReviewedOf
  <2> QED
    BY <1>1, <1>2, <1>3, <1>5, <2>1, <2>2 DEF BaselineOver, cumulative_baseline
<1>6. CASE s # GLOBAL /\ s \in active_non_goals(c)
  <2>1. closures = CoveringClosures(reviews, s, t)
    BY <1>6 DEF ClosuresFor, CoveringClosures, ClosuresOf, Rebases
  <2>2. for_non_goal_baseline(state, s) = BaselineOver(carveouts, {s}, CoveringClosures(reviews, s, t), t)
    <3> DEFINE floors == per_non_goal_baseline(c, Intervals(carveouts), reviews, t)
    <3>1. /\ s \in DOMAIN floors <=> CoveringClosures(reviews, s, t) # {}
          /\ CoveringClosures(reviews, s, t) # {} =>
               floors[s] = Floor(Intervals(carveouts), {s}, Max(CoveringClosures(reviews, s, t)) .. t)
      <4> HIDE DEF carveouts, reviews
      <4> QED
        BY <1>1, <1>6, PerNonGoalBaseline
    <3>2. state.per_non_goal = floors
      BY <1>1
    <3> HIDE DEF floors
    <3> QED
      BY <3>1, <3>2 DEF BaselineOver, for_non_goal_baseline
  <2>3. ReviewedOf(c, state)[s] = CoveringClosures(reviews, s, t)
    BY <1>1, <1>6 DEF ReviewedOf
  <2> QED
    BY <1>2, <1>3, <1>6, <2>1, <2>2, <2>3 DEF ScopeOf
<1>7. CASE s # GLOBAL /\ s \notin active_non_goals(c)
  <2>1. closures = {}
    BY <1>7 DEF ClosuresFor, Rebases
  <2>2. s \notin DOMAIN state.per_non_goal
    BY <1>1, <1>7 DEF per_non_goal_baseline
  <2>3. ReviewedOf(c, state)[s] = {}
    BY <1>7 DEF ReviewedOf
  <2> QED
    BY <1>2, <1>3, <1>7, <2>1, <2>2, <2>3 DEF BaselineOver, for_non_goal_baseline
<1> QED
  BY <1>4, <1>5, <1>6, <1>7

\* What the abstract ratchet allows of one scope, as a relation of values.
Moves(l, b, x, m, d, y) ==
  \/ y = x /\ m = l /\ d = b
  \/ y = x /\ m > l /\ d = b
  \/ y = x /\ m < l /\ d = R!Lower(b, m)
  \/ x \subseteq y /\ y # x /\ m = l /\ d = l

\* How one scope moves from an evaluation to the next.
ViewMoves(c, before, at, d, after, now, s) ==
  Moves(LevelOf(c, project(c, before, at))[s], BaselineOf(project(c, before, at))[s],
        ReviewedOf(c, project(c, before, at))[s],
        LevelOf(d, project(d, after, now))[s], BaselineOf(project(d, after, now))[s],
        ReviewedOf(d, project(d, after, now))[s])

LEMMA ObservedTyped ==
  ASSUME NEW c, NEW events, NEW t, AsOf(events, t), NEW s \in Watched
  PROVE  /\ LevelOf(c, project(c, events, t))[s] \in Nat
         /\ BaselineOf(project(c, events, t))[s] \in Nat \cup {None}
         /\ ReviewedOf(c, project(c, events, t))[s] \in SUBSET Nat
<1>1. Settled(project_carveouts(c, events, t), t) /\ Reviews(project_reviews(events)) /\ t \in Nat
  BY ProjectionSettles, ProjectedReviews DEF AsOf
<1>2. /\ ClosuresFor(c, project_reviews(events), s, t) \in SUBSET (0 .. t)
      /\ IsFiniteSet(ClosuresFor(c, project_reviews(events), s, t))
  BY <1>1, ClosuresForShape
<1> QED
  BY <1>1, <1>2, ObservedScope, LevelIsCount, BaselineBelowLevel

LEMMA LapseMoves ==
  ASSUME NEW c, NEW before, NEW at, AsOf(before, at), NEW after, NEW now, AsOf(after, now),
         now \in {at, at + 1}, project_reviews(after) = project_reviews(before),
         Lapsed(project_carveouts(c, before, at), project_carveouts(c, after, now), now),
         NEW s \in Watched,
         ClosuresFor(c, project_reviews(before), s, now) = ClosuresFor(c, project_reviews(before), s, at)
  PROVE  ViewMoves(c, before, at, c, after, now, s)
<1> DEFINE old == project_carveouts(c, before, at)
           new == project_carveouts(c, after, now)
           closures == ClosuresFor(c, project_reviews(before), s, at)
           ngs == ScopeOf(c, s)
           l == Cardinality(ActiveOf(old, ngs))
           b == BaselineOver(old, ngs, closures, at)
           m == Cardinality(ActiveOf(new, ngs))
           d == BaselineOver(new, ngs, closures, now)
<1>1. /\ at \in Nat /\ now \in Nat /\ Settled(old, at) /\ Settled(new, now)
      /\ closures \in SUBSET (0 .. at) /\ IsFiniteSet(closures)
  BY ProjectionSettles, ProjectedReviews, ClosuresForShape DEF AsOf
<1>2. /\ LevelOf(c, project(c, before, at))[s] = l /\ BaselineOf(project(c, before, at))[s] = b
      /\ LevelOf(c, project(c, after, now))[s] = m /\ BaselineOf(project(c, after, now))[s] = d
      /\ ReviewedOf(c, project(c, before, at))[s] = closures
      /\ ReviewedOf(c, project(c, after, now))[s] = closures
  BY ObservedScope
<1>3. d = R!Lower(b, m)
  <2> HIDE DEF old, new, closures, ngs
  <2> QED
    BY <1>1, LapseLowers DEF old, new
<1>4. l \in Nat /\ m \in Nat /\ m <= l
  <2>1. ActiveOf(new, ngs) \subseteq ActiveOf(old, ngs)
    <3> HIDE DEF old, new, ngs
    <3> QED
      BY <1>1, LapseCounts DEF old, new
  <2>2. IsFiniteSet(ActiveOf(old, ngs)) /\ l \in Nat /\ m \in Nat
    BY <1>1, LevelIsCount
  <2> QED
    BY <2>1, <2>2, FS_Subset
<1>5. b = None \/ (b \in Nat /\ b <= l)
  BY <1>1, BaselineBelowLevel
<1> HIDE DEF l, b, m, d, closures
<1>6. Moves(l, b, closures, m, d, closures)
  BY <1>3, <1>4, <1>5 DEF Moves, R!Lower
<1> QED
  BY <1>2, <1>6 DEF ViewMoves

LEMMA GrowthMoves ==
  ASSUME NEW c, NEW before, NEW after, NEW at, AsOf(before, at), AsOf(after, at),
         project_reviews(after) = project_reviews(before),
         Grown(project_carveouts(c, before, at), project_carveouts(c, after, at), at),
         NEW s \in Watched, at \notin ClosuresFor(c, project_reviews(before), s, at)
  PROVE  ViewMoves(c, before, at, c, after, at, s)
<1> DEFINE old == project_carveouts(c, before, at)
           new == project_carveouts(c, after, at)
           closures == ClosuresFor(c, project_reviews(before), s, at)
           ngs == ScopeOf(c, s)
           l == Cardinality(ActiveOf(old, ngs))
           b == BaselineOver(old, ngs, closures, at)
           m == Cardinality(ActiveOf(new, ngs))
           d == BaselineOver(new, ngs, closures, at)
<1>1. /\ at \in Nat /\ Settled(old, at) /\ Settled(new, at)
      /\ closures \in SUBSET (0 .. at) /\ IsFiniteSet(closures)
  BY ProjectionSettles, ProjectedReviews, ClosuresForShape DEF AsOf
<1>2. /\ LevelOf(c, project(c, before, at))[s] = l /\ BaselineOf(project(c, before, at))[s] = b
      /\ LevelOf(c, project(c, after, at))[s] = m /\ BaselineOf(project(c, after, at))[s] = d
      /\ ReviewedOf(c, project(c, before, at))[s] = closures
      /\ ReviewedOf(c, project(c, after, at))[s] = closures
  BY ObservedScope
<1>3. d = b /\ m >= l /\ m \in Nat /\ l \in Nat
  <2> HIDE DEF old, new, closures, ngs
  <2> QED
    BY <1>1, GrowthHolds, LevelIsCount DEF old, new, closures
<1> HIDE DEF l, b, m, d, closures
<1>4. Moves(l, b, closures, m, d, closures)
  BY <1>3 DEF Moves
<1> QED
  BY <1>2, <1>4 DEF ViewMoves

LEMMA ClosureMoves ==
  ASSUME NEW c, NEW before, NEW after, NEW at, AsOf(before, at), AsOf(after, at),
         project_carveouts(c, after, at) = project_carveouts(c, before, at),
         NEW s \in Watched,
         ClosuresFor(c, project_reviews(after), s, at)
           \in {ClosuresFor(c, project_reviews(before), s, at),
                ClosuresFor(c, project_reviews(before), s, at) \cup {at}}
  PROVE  ViewMoves(c, before, at, c, after, at, s)
<1> DEFINE carveouts == project_carveouts(c, before, at)
           closures == ClosuresFor(c, project_reviews(before), s, at)
           closed == ClosuresFor(c, project_reviews(after), s, at)
           ngs == ScopeOf(c, s)
           l == Cardinality(ActiveOf(carveouts, ngs))
           b == BaselineOver(carveouts, ngs, closures, at)
           d == BaselineOver(carveouts, ngs, closed, at)
<1>1. /\ at \in Nat /\ Settled(carveouts, at) /\ closures \in SUBSET (0 .. at) /\ IsFiniteSet(closures)
  BY ProjectionSettles, ProjectedReviews, ClosuresForShape DEF AsOf
<1>2. /\ LevelOf(c, project(c, before, at))[s] = l /\ BaselineOf(project(c, before, at))[s] = b
      /\ LevelOf(c, project(c, after, at))[s] = l /\ BaselineOf(project(c, after, at))[s] = d
      /\ ReviewedOf(c, project(c, before, at))[s] = closures
      /\ ReviewedOf(c, project(c, after, at))[s] = closed
  BY ObservedScope
<1>3. \/ closed = closures /\ d = b
      \/ closures \subseteq closed /\ closed # closures /\ d = l
  <2>1. CASE closed = closures
    BY <2>1
  <2>2. CASE closed = closures \cup {at} /\ closed # closures
    BY <1>1, <2>2, ClosureRebases
  <2> QED
    BY <2>1, <2>2
<1> HIDE DEF l, b, d, closures, closed
<1>4. Moves(l, b, closures, l, d, closed)
  BY <1>3 DEF Moves
<1> QED
  BY <1>2, <1>4 DEF ViewMoves

-----------------------------------------------------------------------------
(* What commits and time do to carve-outs and closures.                    *)

\* A terminal event after everything else, of a carve-out that has not expired.
EndsLast(c, events, at, e) ==
  /\ AsOf(events, at) /\ AsOf(events \cup {e}, at)
  /\ \A f \in events : f.at # at
  /\ e.kind \in TERMINAL_KINDS /\ e.at = at
  /\ OfKind(events, CARVEOUT_RATIFIED, e.id) # {} => CarveOutState(c, events, e.id, at).status # EXPIRED

\* Such an event ends a carve-out that is in force, and leaves a retired one as
\* it is.
LEMMA EndingLapses ==
  ASSUME NEW c, NEW events, NEW at, NEW e, EndsLast(c, events, at, e)
  PROVE  /\ Lapsed(project_carveouts(c, events, at), project_carveouts(c, events \cup {e}, at), at)
         /\ project_reviews(events \cup {e}) = project_reviews(events)
<1> USE DEF EndsLast
<1> DEFINE more == events \cup {e}
<1>0. /\ at \in Nat /\ Ledger(events) /\ Ledger(more)
      /\ \A f \in events, g \in {e} : f.at < g.at
  BY EventFields DEF AsOf, Ledger
<1>1. /\ CARVEOUT_RATIFIED \notin TERMINAL_KINDS
      /\ {REVIEW_OPENED, REVIEW_CLOSED} \cap TERMINAL_KINDS = {}
  BY DEF CARVEOUT_RATIFIED, TERMINAL_KINDS, CARVEOUT_RETIRED, CARVEOUT_EXPIRED, REVIEW_OPENED, REVIEW_CLOSED
<1>2. \A kind, id : kind # e.kind \/ id # e.id => OfKind(more, kind, id) = OfKind(events, kind, id)
  BY DEF OfKind
<1>3. project_reviews(more) = project_reviews(events)
  <2>1. \A kind \in {REVIEW_OPENED, REVIEW_CLOSED} : \A id : SameFirst(more, events, kind, id)
    BY <1>1, <1>2 DEF SameFirst
  <2> QED
    BY <2>1, SameReviews
<1>4. ProjectedIds(more) = ProjectedIds(events)
  BY <1>1 DEF ProjectedIds
<1>5. ASSUME NEW id \in ProjectedIds(events)
      PROVE  LET a == CarveOutState(c, events, id, at)
                 b == CarveOutState(c, more, id, at)
             IN  /\ b.non_goal = a.non_goal /\ b.ratified_at = a.ratified_at
                 /\ \/ b.status = a.status /\ b.terminal_at = a.terminal_at
                    \/ a.status = ACTIVE /\ b.status \notin {ACTIVE, MOOT} /\ b.terminal_at = at
  <2>1. CASE id # e.id
    <3>1. CarveOutState(c, more, id, at) = CarveOutState(c, events, id, at)
      BY <1>2, <2>1 DEF CarveOutState
    <3> QED
      BY <3>1
  <2>2. CASE id = e.id
    <3> DEFINE r == FirstOf(OfKind(events, CARVEOUT_RATIFIED, id))
               moot == r.non_goal \in retired_non_goals(c)
               retirement == FirstOf(OfKind(events, CARVEOUT_RETIRED, id))
               expiration == FirstOf(OfKind(events, CARVEOUT_EXPIRED, id))
               retired == FirstOf(OfKind(more, CARVEOUT_RETIRED, id))
               expired == FirstOf(OfKind(more, CARVEOUT_EXPIRED, id))
               before == lifecycle(r.expires_at, moot, retirement, expiration, at)
               after == lifecycle(r.expires_at, moot, retired, expired, at)
    <3>1. FirstOf(OfKind(more, CARVEOUT_RATIFIED, id)) = r
      <4>1. OfKind(more, CARVEOUT_RATIFIED, id) = OfKind(events, CARVEOUT_RATIFIED, id)
        BY <1>1, <1>2
      <4> QED
        BY <4>1
    <3>2. /\ retirement # None => retired = retirement
          /\ retirement = None => retired = None \/ retired = e
          /\ expiration = None => expired = None \/ expired = e
          /\ retirement = None /\ expiration = None => retired = e \/ expired = e
      <4>1. \A kind \in TERMINAL_KINDS : OfKind(events, kind, id) # {} =>
              FirstOf(OfKind(more, kind, id)) = FirstOf(OfKind(events, kind, id))
        BY <1>0, FirstStays DEF SameFirst
      <4>2. \A kind \in TERMINAL_KINDS : OfKind(events, kind, id) = {} =>
              OfKind(more, kind, id) = IF kind = e.kind THEN {e} ELSE {}
        BY <2>2 DEF OfKind
      <4>3. FirstOf({e}) = e /\ FirstOf({}) = None
        BY DEF FirstOf
      <4>4. \A kind \in TERMINAL_KINDS :
              /\ FirstOf(OfKind(events, kind, id)) # None => FirstOf(OfKind(more, kind, id)) = FirstOf(OfKind(events, kind, id))
              /\ FirstOf(OfKind(events, kind, id)) = None =>
                   FirstOf(OfKind(more, kind, id)) = IF kind = e.kind THEN e ELSE None
        <5>1. \A kind : OfKind(events, kind, id) = {} <=> FirstOf(OfKind(events, kind, id)) = None
          BY <1>0, FirstIsPresent
        <5> QED
          BY <4>1, <4>2, <4>3, <5>1
      <4> HIDE DEF retired, expired, retirement, expiration
      <4>5. /\ retirement # None => retired = retirement
            /\ retirement = None => retired = IF CARVEOUT_RETIRED = e.kind THEN e ELSE None
            /\ expiration # None => expired = expiration
            /\ expiration = None => expired = IF CARVEOUT_EXPIRED = e.kind THEN e ELSE None
        BY <4>4 DEF retired, expired, retirement, expiration, TERMINAL_KINDS
      <4> QED
        BY <4>5 DEF TERMINAL_KINDS
    <3>3. OfKind(events, CARVEOUT_RATIFIED, id) # {}
      BY <1>5 DEF ProjectedIds, OfKind
    <3>4. /\ CarveOutState(c, events, id, at).non_goal = r.non_goal
          /\ CarveOutState(c, events, id, at).ratified_at = r.at
          /\ CarveOutState(c, events, id, at).status = before.status
          /\ CarveOutState(c, events, id, at).terminal_at = before.terminal_at
      BY DEF CarveOutState
    <3>5. /\ CarveOutState(c, more, id, at).non_goal = r.non_goal
          /\ CarveOutState(c, more, id, at).ratified_at = r.at
          /\ CarveOutState(c, more, id, at).status = after.status
          /\ CarveOutState(c, more, id, at).terminal_at = after.terminal_at
      BY <3>1 DEF CarveOutState
    <3>6. before.status # EXPIRED
      BY <2>2, <3>3, <3>4
    <3>7. e # None
      <4>1. e \in ResolvedEvent
        BY DEF AsOf, Ledger
      <4> QED
        BY <4>1, NoneAssumption
    <3> HIDE DEF r, retirement, expiration, retired, expired
    <3>8. CASE moot
      BY <3>4, <3>5, <3>8 DEF lifecycle
    <3>9. CASE ~moot /\ retirement # None
      BY <3>2, <3>4, <3>5, <3>9 DEF lifecycle
    <3>10. CASE ~moot /\ retirement = None
      <4>1. before.status = ACTIVE /\ expiration = None
        BY <3>6, <3>10 DEF lifecycle, EXPIRED
      <4>2. /\ retired = None \/ (retired # None /\ retired.at = at)
            /\ expired = None \/ (expired # None /\ expired.at = at)
            /\ retired # None \/ expired # None
        BY <3>2, <3>7, <3>10, <4>1
      <4>3. after.status \in {RETIRED, EXPIRED} /\ after.terminal_at = at
        BY <3>10, <4>2 DEF lifecycle
      <4> HIDE DEF before, after
      <4> QED
        BY <3>4, <3>5, <4>1, <4>3 DEF ACTIVE, MOOT, RETIRED, EXPIRED
    <3> QED
      BY <3>8, <3>9, <3>10
  <2> QED
    BY <2>1, <2>2
<1> QED
  BY <1>3, <1>4, <1>5 DEF Lapsed, project_carveouts

\* A later copy of an event of the same kind and id.
LEMMA CopiesDoNotAct ==
  ASSUME NEW c, NEW events, NEW at, AsOf(events, at), \A f \in events : f.at # at,
         NEW e, e.at = at, AsOf(events \cup {e}, at), OfKind(events, e.kind, e.id) # {}
  PROVE  /\ project_carveouts(c, events \cup {e}, at) = project_carveouts(c, events, at)
         /\ project_reviews(events \cup {e}) = project_reviews(events)
<1> DEFINE more == events \cup {e}
<1>1. /\ Ledger(events) /\ Ledger(more)
      /\ \A f \in events, g \in {e} : f.at < g.at
  BY EventFields DEF AsOf, Ledger
<1>2. \A kind, id : SameFirst(events, more, kind, id)
  <2>1. ASSUME NEW kind, NEW id PROVE SameFirst(events, more, kind, id)
    <3>1. CASE kind = e.kind /\ id = e.id
      BY <1>1, <3>1, FirstStays
    <3>2. CASE kind # e.kind \/ id # e.id
      <4>1. OfKind(more, kind, id) = OfKind(events, kind, id)
        BY <3>2 DEF OfKind
      <4> QED
        BY <4>1 DEF SameFirst
    <3> QED
      BY <3>1, <3>2
  <2> QED
    BY <2>1
<1> QED
  BY <1>2, SameCarveOuts, SameReviews

\* Time lets declared expiries pass.
LEMMA TimeLapses ==
  ASSUME NEW c, NEW events, NEW at, AsOf(events, at)
  PROVE  Lapsed(project_carveouts(c, events, at), project_carveouts(c, events, at + 1), at + 1)
<1>1. ASSUME NEW id \in ProjectedIds(events)
      PROVE  LET a == CarveOutState(c, events, id, at)
                 b == CarveOutState(c, events, id, at + 1)
             IN  /\ b.non_goal = a.non_goal /\ b.ratified_at = a.ratified_at
                 /\ \/ b.status = a.status /\ b.terminal_at = a.terminal_at
                    \/ a.status = ACTIVE /\ b.status \notin {ACTIVE, MOOT} /\ b.terminal_at = at + 1
  <2> DEFINE r == FirstOf(OfKind(events, CARVEOUT_RATIFIED, id))
             moot == r.non_goal \in retired_non_goals(c)
             retirement == FirstOf(OfKind(events, CARVEOUT_RETIRED, id))
             expiration == FirstOf(OfKind(events, CARVEOUT_EXPIRED, id))
             Life(t) == lifecycle(r.expires_at, moot, retirement, expiration, t)
  <2>1. \A t : /\ CarveOutState(c, events, id, t).non_goal = r.non_goal
               /\ CarveOutState(c, events, id, t).ratified_at = r.at
               /\ CarveOutState(c, events, id, t).status = Life(t).status
               /\ CarveOutState(c, events, id, t).terminal_at = Life(t).terminal_at
    BY DEF CarveOutState
  <2>2. r.expires_at \in Nat \cup {None} /\ at \in Nat
    <3>1. OfKind(events, CARVEOUT_RATIFIED, id) # {}
      BY <1>1 DEF ProjectedIds, OfKind
    <3>2. r \in events /\ r.kind = CARVEOUT_RATIFIED
      BY <3>1, FirstIsPresent DEF AsOf
    <3> QED
      BY <3>2, RatifiedFields DEF AsOf, Ledger
  <2> HIDE DEF r, retirement, expiration
  <2>3. CASE moot \/ retirement # None \/ expiration # None
    <3>1. Life(at + 1).status = Life(at).status /\ Life(at + 1).terminal_at = Life(at).terminal_at
      BY <2>3 DEF lifecycle
    <3> QED
      BY <2>1, <3>1
  <2>4. CASE ~moot /\ retirement = None /\ expiration = None
    <3> DEFINE x == r.expires_at
    <3>1. \A t : /\ reached(x, t) => Life(t).status = EXPIRED /\ Life(t).terminal_at = x
                 /\ ~reached(x, t) => Life(t).status = ACTIVE /\ Life(t).terminal_at = None
      BY <2>4 DEF lifecycle, EffectiveExpiry
    <3>2. reached(x, at) => reached(x, at + 1)
      BY <2>2 DEF reached
    <3>3. reached(x, at + 1) /\ ~reached(x, at) => x = at + 1
      BY <2>2 DEF reached
    <3> HIDE DEF x, Life
    <3> QED
      BY <2>1, <3>1, <3>2, <3>3 DEF ACTIVE, EXPIRED, MOOT
  <2> QED
    BY <2>3, <2>4
<1> QED
  BY <1>1 DEF Lapsed, project_carveouts

\* Ratifications at an instant at which nothing else happened.
LEMMA RatificationsGrow ==
  ASSUME NEW c, NEW events, NEW at, AsOf(events, at), NEW new, AsOf(events \cup new, at),
         \A e \in new : /\ e.kind = CARVEOUT_RATIFIED /\ e.at = at
                        /\ OfKind(events, CARVEOUT_RATIFIED, e.id) = {},
         \A e \in events : e.at # at /\ (e.kind = CARVEOUT_RATIFIED => e.expires_at # at)
  PROVE  /\ Grown(project_carveouts(c, events, at), project_carveouts(c, events \cup new, at), at)
         /\ project_reviews(events \cup new) = project_reviews(events)
<1> DEFINE more == events \cup new
<1>0. at \in Nat /\ Ledger(events) /\ Ledger(more)
  BY DEF AsOf
<1>1. /\ CARVEOUT_RATIFIED \notin TERMINAL_KINDS
      /\ CARVEOUT_RATIFIED \notin {REVIEW_OPENED, REVIEW_CLOSED}
      /\ CARVEOUT_RETIRED \in TERMINAL_KINDS /\ CARVEOUT_EXPIRED \in TERMINAL_KINDS
  BY DEF CARVEOUT_RATIFIED, TERMINAL_KINDS, CARVEOUT_RETIRED, CARVEOUT_EXPIRED, REVIEW_OPENED, REVIEW_CLOSED
<1>2. \A kind, id : kind # CARVEOUT_RATIFIED => OfKind(more, kind, id) = OfKind(events, kind, id)
  BY DEF OfKind
<1>3. project_reviews(more) = project_reviews(events)
  <2>1. \A kind \in {REVIEW_OPENED, REVIEW_CLOSED} : \A id : SameFirst(more, events, kind, id)
    BY <1>1, <1>2 DEF SameFirst
  <2> QED
    BY <2>1, SameReviews
<1>4. \A seen, id : id \in ProjectedIds(seen) <=> OfKind(seen, CARVEOUT_RATIFIED, id) # {}
  BY DEF ProjectedIds, OfKind
<1>5. ASSUME NEW id \in ProjectedIds(events)
      PROVE  /\ id \in ProjectedIds(more)
             /\ CarveOutState(c, more, id, at) = CarveOutState(c, events, id, at)
             /\ CarveOutState(c, events, id, at).ratified_at # at
             /\ CarveOutState(c, events, id, at).terminal_at # at
  <2>1. OfKind(more, CARVEOUT_RATIFIED, id) = OfKind(events, CARVEOUT_RATIFIED, id)
    BY <1>4, <1>5 DEF OfKind
  <2>2. CarveOutState(c, more, id, at) = CarveOutState(c, events, id, at)
    BY <1>1, <1>2, <2>1 DEF CarveOutState
  <2> DEFINE r == FirstOf(OfKind(events, CARVEOUT_RATIFIED, id))
             retirement == FirstOf(OfKind(events, CARVEOUT_RETIRED, id))
             expiration == FirstOf(OfKind(events, CARVEOUT_EXPIRED, id))
             life == lifecycle(r.expires_at, r.non_goal \in retired_non_goals(c), retirement, expiration, at)
  <2>3. /\ r \in events /\ r.kind = CARVEOUT_RATIFIED
        /\ retirement # None => retirement \in events
        /\ expiration # None => expiration \in events
    BY <1>0, <1>4, <1>5, FirstIsPresent
  <2> HIDE DEF r, retirement, expiration
  <2>4. life.terminal_at # at
    <3>1. r.expires_at # at /\ (retirement # None => retirement.at # at) /\ (expiration # None => expiration.at # at)
      BY <2>3
    <3>2. None # at
      BY <1>0, NoneAssumption
    <3> QED
      BY <3>1, <3>2 DEF lifecycle, EffectiveExpiry
  <2>5. /\ CarveOutState(c, events, id, at).ratified_at = r.at
        /\ CarveOutState(c, events, id, at).terminal_at = life.terminal_at
    BY DEF CarveOutState, r, retirement, expiration
  <2> QED
    BY <1>4, <1>5, <2>1, <2>2, <2>3, <2>4, <2>5
<1>6. ASSUME NEW id \in ProjectedIds(more), id \notin ProjectedIds(events)
      PROVE  CarveOutState(c, more, id, at).ratified_at = at
  <2> DEFINE r == FirstOf(OfKind(more, CARVEOUT_RATIFIED, id))
  <2>1. r \in more /\ r.kind = CARVEOUT_RATIFIED /\ r.id = id
    BY <1>0, <1>4, <1>6, FirstIsPresent
  <2>2. CarveOutState(c, more, id, at).ratified_at = r.at
    BY DEF CarveOutState
  <2> HIDE DEF r
  <2>3. r \notin events
    BY <1>6, <2>1 DEF ProjectedIds
  <2> QED
    BY <2>1, <2>2, <2>3
<1> QED
  BY <1>3, <1>5, <1>6 DEF Grown, project_carveouts

\* An opening, or the first closing of a review.
LEMMA ClosuresGrow ==
  ASSUME NEW c, NEW events, NEW at, AsOf(events, at), NEW new, AsOf(events \cup new, at), NEW id,
         \A e \in new : e.kind \in {REVIEW_OPENED, REVIEW_CLOSED} /\ e.id = id /\ e.at = at,
         OfKind(events, REVIEW_CLOSED, id) = {}, NEW s
  PROVE  /\ project_carveouts(c, events \cup new, at) = project_carveouts(c, events, at)
         /\ ClosuresFor(c, project_reviews(events \cup new), s, at)
              \in {ClosuresFor(c, project_reviews(events), s, at),
                   ClosuresFor(c, project_reviews(events), s, at) \cup {at}}
<1> DEFINE more == events \cup new
           old == project_reviews(events)
           now == project_reviews(more)
           before == ClosuresFor(c, old, s, at)
           after == ClosuresFor(c, now, s, at)
<1>0. at \in Nat /\ Ledger(events) /\ Ledger(more)
  BY DEF AsOf
<1>1. {REVIEW_OPENED, REVIEW_CLOSED} \cap (TERMINAL_KINDS \cup {CARVEOUT_RATIFIED}) = {}
  BY DEF CARVEOUT_RATIFIED, TERMINAL_KINDS, CARVEOUT_RETIRED, CARVEOUT_EXPIRED, REVIEW_OPENED, REVIEW_CLOSED
<1>2. \A kind, other : kind \notin {REVIEW_OPENED, REVIEW_CLOSED} \/ other # id
                         => OfKind(more, kind, other) = OfKind(events, kind, other)
  BY DEF OfKind
<1>3. project_carveouts(c, more, at) = project_carveouts(c, events, at)
  BY <1>1, <1>2, SameCarveOuts DEF SameFirst
<1>4. \A seen, other : other \in DOMAIN project_reviews(seen) <=> OfKind(seen, REVIEW_OPENED, other) # {}
  BY DEF project_reviews, OfKind
<1>5. \A other : other # id => /\ other \in DOMAIN old <=> other \in DOMAIN now
                               /\ other \in DOMAIN old => old[other] = now[other]
  <2>1. ASSUME NEW other, other # id
        PROVE  /\ other \in DOMAIN old <=> other \in DOMAIN now
               /\ other \in DOMAIN old => old[other] = now[other]
    <3>1. /\ OfKind(more, REVIEW_OPENED, other) = OfKind(events, REVIEW_OPENED, other)
          /\ OfKind(more, REVIEW_CLOSED, other) = OfKind(events, REVIEW_CLOSED, other)
      BY <1>2, <2>1
    <3>2. ReviewState(more, other) = ReviewState(events, other)
      BY <3>1 DEF ReviewState
    <3>3. other \in DOMAIN old <=> other \in DOMAIN now
      BY <1>4, <3>1
    <3> QED
      BY <3>2, <3>3 DEF project_reviews
  <2> QED
    BY <2>1
<1>6. id \in DOMAIN old => old[id].status # CLOSED
  <2>1. FirstOf(OfKind(events, REVIEW_CLOSED, id)) = None
    BY DEF FirstOf
  <2>2. ReviewState(events, id).status = OPEN
    BY <2>1 DEF ReviewState
  <2> QED
    BY <2>2 DEF project_reviews, OPEN, CLOSED
<1>7. id \in DOMAIN now /\ now[id].status = CLOSED => now[id].closed_at = at
  <2> DEFINE closing == FirstOf(OfKind(more, REVIEW_CLOSED, id))
  <2>1. closing # None => closing \in more /\ closing.kind = REVIEW_CLOSED /\ closing.id = id
    BY <1>0, FirstIsPresent
  <2>2. ReviewState(more, id).status = CLOSED => closing # None /\ ReviewState(more, id).closed_at = closing.at
    BY DEF ReviewState, OPEN, CLOSED
  <2> HIDE DEF closing
  <2>3. closing # None => closing.at = at
    BY <2>1 DEF OfKind
  <2> QED
    BY <2>2, <2>3 DEF project_reviews
<1> HIDE DEF old, now
<1>8. ASSUME NEW t, t # at PROVE t \in after <=> t \in before
  BY <1>5, <1>6, <1>7, <1>8 DEF ClosuresFor
<1>9. at \in before => at \in after
  BY <1>5, <1>6 DEF ClosuresFor
<1>10. after = before \/ after = before \cup {at}
  <2> HIDE DEF before, after
  <2> QED
    BY <1>8, <1>9
<1> QED
  BY <1>3, <1>10 DEF old, now

-----------------------------------------------------------------------------
(* The repository implements the ratchet.                                  *)

\* Orderly ledgers, which may be adopted in batches, hold ratifications against
\* undeclared non-goals, corrections of anything, and later copies of events.
Orderly == Irregular \subseteq {"undeclared", "batch", "dangling", "duplicate"}

\* No review is closed that was not opened.
ClosingsHaveOpenings == \A e \in ledger : e.kind = REVIEW_CLOSED => Has(REVIEW_OPENED, e.id)

LEMMA OpeningsInit == Init => ClosingsHaveOpenings
BY DEF Init, ClosingsHaveOpenings

LEMMA OpeningsRemain ==
  ASSUME ClosingsHaveOpenings, NEW events, ledger' = ledger \cup events,
         \A e \in events : e.kind = REVIEW_CLOSED =>
           Has(REVIEW_OPENED, e.id) \/ \E f \in events : f.kind = REVIEW_OPENED /\ f.id = e.id
  PROVE  ClosingsHaveOpenings'
BY DEF ClosingsHaveOpenings, Has, OfKind

\* What an orderly commit finds: no event of this instant, and none that was
\* declared to take effect at it.
Quiet == \A e \in ledger : e.at # clock /\ (e.kind = CARVEOUT_RATIFIED => e.expires_at # clock)

LEMMA OrderlyCommit ==
  ASSUME Orderly, TypeOK, NEW at \in Stamps, NEW sha, NewCommit(at, sha)
  PROVE  at = clock /\ Quiet
BY DEF Orderly, Stamps, NewCommit, Quiet

LEMMA OpeningsStep == Orderly /\ ClosingsHaveOpenings /\ [Next]_vars => ClosingsHaveOpenings'
<1> SUFFICES ASSUME Orderly, ClosingsHaveOpenings, [Next]_vars PROVE ClosingsHaveOpenings'
  OBVIOUS
<1>0. /\ CARVEOUT_RATIFIED # REVIEW_CLOSED /\ CARVEOUT_RETIRED # REVIEW_CLOSED /\ CARVEOUT_EXPIRED # REVIEW_CLOSED
      /\ REVIEW_OPENED # REVIEW_CLOSED /\ CORRECTION # REVIEW_CLOSED
  BY DEF CARVEOUT_RATIFIED, CARVEOUT_RETIRED, CARVEOUT_EXPIRED, REVIEW_OPENED, REVIEW_CLOSED, CORRECTION
<1>1. ASSUME NEW events, Commit(events), \A e \in events : e.kind # REVIEW_CLOSED PROVE ClosingsHaveOpenings'
  BY <1>1, OpeningsRemain DEF Commit
<1>2. ASSUME NEW id, Ratify(id) PROVE ClosingsHaveOpenings'
  <2>1. PICK ng \in RatifiableNonGoals, x \in Expiries, at \in Stamps, sha \in Shas :
          Commit({Ratification(id, ng, x, at, sha)})
    BY <1>2 DEF Ratify
  <2>2. Ratification(id, ng, x, at, sha).kind = CARVEOUT_RATIFIED
    BY DEF Ratification
  <2> QED
    BY <1>0, <1>1, <2>1, <2>2
<1>3. ASSUME RatifyTogether PROVE ClosingsHaveOpenings'
  <2>1. PICK first, second \in Unused(CARVEOUT_RATIFIED, CarveOutIds), ng1, ng2 \in RatifiableNonGoals,
             at \in Stamps, sha \in Shas :
          Commit({Ratification(first, ng1, None, at, sha), Ratification(second, ng2, None, at, sha)})
    BY <1>3 DEF RatifyTogether
  <2>2. /\ Ratification(first, ng1, None, at, sha).kind = CARVEOUT_RATIFIED
        /\ Ratification(second, ng2, None, at, sha).kind = CARVEOUT_RATIFIED
    BY DEF Ratification
  <2> QED
    BY <1>0, <1>1, <2>1, <2>2
<1>4. ASSUME NEW id, Retire(id) \/ Expire(id) PROVE ClosingsHaveOpenings'
  <2>1. PICK kind \in {CARVEOUT_RETIRED, CARVEOUT_EXPIRED}, at \in Stamps, sha \in Shas :
          Commit({Terminal(kind, id, at, sha)})
    BY <1>4 DEF Retire, Expire
  <2>2. Terminal(kind, id, at, sha).kind = kind
    BY DEF Terminal
  <2> QED
    BY <1>0, <1>1, <2>1, <2>2
<1>5. ASSUME NEW id, OpenReview(id) PROVE ClosingsHaveOpenings'
  <2>1. PICK scope \in Scopes, at \in Stamps, sha \in Shas : Commit({Opening(id, scope, at, sha)})
    BY <1>5 DEF OpenReview
  <2>2. Opening(id, scope, at, sha).kind = REVIEW_OPENED
    BY DEF Opening
  <2> QED
    BY <1>0, <1>1, <2>1, <2>2
<1>6. ASSUME NEW id, CloseReview(id) PROVE ClosingsHaveOpenings'
  <2>1. PICK at \in Stamps, sha \in Shas : MayClose(id) /\ Commit({Closing(id, at, sha)})
    BY <1>6 DEF CloseReview
  <2>2. Has(REVIEW_OPENED, id)
    BY <2>1 DEF MayClose, Orderly
  <2>3. Closing(id, at, sha).id = id
    BY DEF Closing
  <2> QED
    BY <2>1, <2>2, <2>3, OpeningsRemain DEF Commit
<1>7. ASSUME NEW id, OpenAndCloseReview(id) PROVE ClosingsHaveOpenings'
  <2>1. PICK scope \in Scopes, at \in Stamps, sha \in Shas :
          Commit({Opening(id, scope, at, sha), Closing(id, at, sha)})
    BY <1>7 DEF OpenAndCloseReview
  <2>2. /\ Opening(id, scope, at, sha).kind = REVIEW_OPENED /\ Opening(id, scope, at, sha).id = id
        /\ Closing(id, at, sha).id = id
    BY DEF Opening, Closing
  <2> QED
    BY <1>0, <2>1, <2>2, OpeningsRemain DEF Commit
<1>8. ASSUME NEW id, Correct(id) PROVE ClosingsHaveOpenings'
  <2>1. PICK target \in EventKeys, at \in Stamps, sha \in Shas : Commit({Correcting(id, target, at, sha)})
    BY <1>8 DEF Correct
  <2>2. Correcting(id, target, at, sha).kind = CORRECTION
    BY DEF Correcting
  <2> QED
    BY <1>0, <1>1, <2>1, <2>2
<1>9. ASSUME EditCharter \/ Tick \/ UNCHANGED vars PROVE ClosingsHaveOpenings'
  <2>1. UNCHANGED ledger
    BY <1>9 DEF EditCharter, RetireNonGoal, SetBudget, SetConfig, SwitchProfile, RatifyCharter, Tick, vars
  <2> QED
    BY <2>1 DEF ClosingsHaveOpenings, Has
<1> QED
  BY <1>2, <1>3, <1>4, <1>5, <1>6, <1>7, <1>8, <1>9 DEF Next, Tightening, Relaxing

LEMMA ClosedByAnEvent ==
  ASSUME NEW events, Ledger(events), NEW id \in DOMAIN project_reviews(events),
         project_reviews(events)[id].status = CLOSED
  PROVE  \E e \in events : project_reviews(events)[id].closed_at = e.at
<1> DEFINE closing == FirstOf(OfKind(events, REVIEW_CLOSED, id))
<1>1. project_reviews(events)[id] = ReviewState(events, id)
  BY DEF project_reviews
<1>2. closing # None /\ ReviewState(events, id).closed_at = closing.at
  BY <1>1 DEF ReviewState, OPEN, CLOSED
<1>3. closing \in events
  BY <1>2, FirstIsPresent
<1> QED
  BY <1>1, <1>2, <1>3

LEMMA QuietClosures ==
  ASSUME TypeOK, NEW s
  PROVE  /\ Quiet => clock \notin ClosuresFor(charter, project_reviews(ledger), s, clock)
         /\ ClosuresFor(charter, project_reviews(ledger), s, clock + 1)
              = ClosuresFor(charter, project_reviews(ledger), s, clock)
<1> DEFINE reviews == project_reviews(ledger)
<1>1. \A id \in DOMAIN reviews : reviews[id].status = CLOSED =>
        /\ Quiet => reviews[id].closed_at # clock
        /\ reviews[id].closed_at <= clock + 1 /\ reviews[id].closed_at <= clock
  <2>1. \A id \in DOMAIN reviews : reviews[id].status = CLOSED =>
          \E e \in ledger : reviews[id].closed_at = e.at
    BY ClosedByAnEvent DEF TypeOK, Ledger
  <2>2. \A e \in ledger : e.at \in Nat /\ e.at <= clock /\ clock \in Nat /\ (Quiet => e.at # clock)
    BY EventFields DEF TypeOK, Quiet
  <2>3. \A e \in ledger : e.at <= clock + 1
    BY <2>2
  <2> HIDE DEF reviews
  <2> QED
    BY <2>1, <2>2, <2>3
<1> HIDE DEF reviews
<1> QED
  BY <1>1 DEF ClosuresFor, reviews

\* What one step of the repository makes of a scope.
ScopeMoves(s) == ViewMoves(charter, ledger, clock, charter', ledger', clock', s)

LEMMA StepMoves ==
  ASSUME Orderly, RetirableNonGoals = {}, TypeOK, TypeOK', ClosingsHaveOpenings, Next, NEW s \in Watched
  PROVE  ScopeMoves(s)
<1>0. /\ AsOf(ledger, clock) /\ AsOf(ledger', clock')
      /\ "late" \notin Irregular /\ "orphan" \notin Irregular
  BY DEF Orderly, TypeOK, AsOf, Ledger
<1>1. ASSUME NEW e, Commit({e}), Quiet, e.at = clock, Has(e.kind, e.id) PROVE ScopeMoves(s)
  <2>1. ledger' = ledger \cup {e} /\ charter' = charter /\ clock' = clock
    BY <1>1 DEF Commit
  <2>2. AsOf(ledger \cup {e}, clock)
    BY <1>0, <2>1
  <2>3. /\ project_carveouts(charter, ledger', clock) = project_carveouts(charter, ledger, clock)
        /\ project_reviews(ledger') = project_reviews(ledger)
    <3>1. /\ project_carveouts(charter, ledger \cup {e}, clock) = project_carveouts(charter, ledger, clock)
          /\ project_reviews(ledger \cup {e}) = project_reviews(ledger)
      BY <1>0, <1>1, <2>2, CopiesDoNotAct DEF Has, Quiet
    <3> QED
      BY <2>1, <3>1
  <2> QED
    BY <1>0, <2>1, <2>3, ClosureMoves DEF ScopeMoves
<1>2. ASSUME NEW new, Commit(new), Quiet,
             \A e \in new : e.kind = CARVEOUT_RATIFIED /\ e.at = clock /\ ~Has(CARVEOUT_RATIFIED, e.id)
      PROVE  ScopeMoves(s)
  <2>1. ledger' = ledger \cup new /\ charter' = charter /\ clock' = clock
    BY <1>2 DEF Commit
  <2>2. /\ Grown(project_carveouts(charter, ledger, clock), project_carveouts(charter, ledger', clock), clock)
        /\ project_reviews(ledger') = project_reviews(ledger)
    <3>1. AsOf(ledger \cup new, clock)
      BY <1>0, <2>1
    <3> QED
      BY <1>0, <1>2, <2>1, <3>1, RatificationsGrow DEF Has, Quiet
  <2>3. clock \notin ClosuresFor(charter, project_reviews(ledger), s, clock)
    BY <1>2, QuietClosures
  <2> QED
    BY <1>0, <2>1, <2>2, <2>3, GrowthMoves DEF ScopeMoves
<1>3. ASSUME NEW id, Ratify(id) PROVE ScopeMoves(s)
  <2>1. PICK ng \in RatifiableNonGoals, x \in Expiries, at \in Stamps, sha \in Shas :
          /\ id \in NewIds(CARVEOUT_RATIFIED, CarveOutIds) /\ NewCommit(at, sha)
          /\ Commit({Ratification(id, ng, x, at, sha)})
    BY <1>3 DEF Ratify
  <2>2. at = clock /\ Quiet
    BY <2>1, OrderlyCommit
  <2>3. Ratification(id, ng, x, at, sha).kind = CARVEOUT_RATIFIED /\ Ratification(id, ng, x, at, sha).at = at
        /\ Ratification(id, ng, x, at, sha).id = id
    BY DEF Ratification
  <2>4. CASE Has(CARVEOUT_RATIFIED, id)
    BY <1>1, <2>1, <2>2, <2>3, <2>4
  <2>5. CASE ~Has(CARVEOUT_RATIFIED, id)
    BY <1>2, <2>1, <2>2, <2>3, <2>5
  <2> QED
    BY <2>4, <2>5
<1>4. ASSUME RatifyTogether PROVE ScopeMoves(s)
  <2>1. PICK first, second \in Unused(CARVEOUT_RATIFIED, CarveOutIds), ng1, ng2 \in RatifiableNonGoals,
             at \in Stamps, sha \in Shas :
          /\ NewCommit(at, sha)
          /\ Commit({Ratification(first, ng1, None, at, sha), Ratification(second, ng2, None, at, sha)})
    BY <1>4 DEF RatifyTogether
  <2> DEFINE e == Ratification(first, ng1, None, at, sha)
             f == Ratification(second, ng2, None, at, sha)
  <2>2. ~Has(CARVEOUT_RATIFIED, first) /\ ~Has(CARVEOUT_RATIFIED, second) /\ at = clock /\ Quiet
    BY <2>1, OrderlyCommit DEF Unused
  <2>3. /\ e.kind = CARVEOUT_RATIFIED /\ e.at = at /\ e.id = first
        /\ f.kind = CARVEOUT_RATIFIED /\ f.at = at /\ f.id = second
    BY DEF Ratification
  <2>4. Commit({e, f})
    BY <2>1
  <2> HIDE DEF e, f
  <2> QED
    BY <1>2, <2>2, <2>3, <2>4
<1>5. ASSUME NEW id, Retire(id) \/ Expire(id) PROVE ScopeMoves(s)
  <2>1. PICK kind \in TERMINAL_KINDS, at \in Stamps, sha \in Shas :
          MayEnd(id) /\ NewCommit(at, sha) /\ Commit({Terminal(kind, id, at, sha)})
    BY <1>5 DEF Retire, Expire, TERMINAL_KINDS
  <2> DEFINE e == Terminal(kind, id, at, sha)
  <2>2. /\ \A f \in ledger : f.at # clock
        /\ OfKind(ledger, CARVEOUT_RATIFIED, id) # {} => CarveOutState(charter, ledger, id, clock).status # EXPIRED
        /\ at = clock
    BY <1>0, <2>1, OrderlyCommit DEF MayEnd, AlreadyExpired, Has, Quiet
  <2>3. e.kind \in TERMINAL_KINDS /\ e.id = id /\ e.at = clock
    BY <2>1, <2>2 DEF Terminal
  <2>4. Commit({e})
    BY <2>1
  <2> HIDE DEF e
  <2>5. ledger' = ledger \cup {e} /\ charter' = charter /\ clock' = clock
    BY <2>4 DEF Commit
  <2>6. AsOf(ledger \cup {e}, clock)
    BY <1>0, <2>5
  <2>7. /\ Lapsed(project_carveouts(charter, ledger, clock), project_carveouts(charter, ledger', clock), clock)
        /\ project_reviews(ledger') = project_reviews(ledger)
    <3>1. EndsLast(charter, ledger, clock, e)
      BY <1>0, <2>2, <2>3, <2>6 DEF EndsLast
    <3>2. /\ Lapsed(project_carveouts(charter, ledger, clock), project_carveouts(charter, ledger \cup {e}, clock), clock)
          /\ project_reviews(ledger \cup {e}) = project_reviews(ledger)
      BY <3>1, EndingLapses
    <3> QED
      BY <2>5, <3>2
  <2> QED
    BY <1>0, <2>5, <2>7, LapseMoves DEF ScopeMoves
<1>6. ASSUME NEW new, NEW id, Commit(new), OfKind(ledger, REVIEW_CLOSED, id) = {},
             \A e \in new : e.kind \in {REVIEW_OPENED, REVIEW_CLOSED} /\ e.id = id /\ e.at = clock
      PROVE  ScopeMoves(s)
  <2>1. ledger' = ledger \cup new /\ charter' = charter /\ clock' = clock
    BY <1>6 DEF Commit
  <2>2. AsOf(ledger \cup new, clock)
    BY <1>0, <2>1
  <2>3. /\ project_carveouts(charter, ledger', clock) = project_carveouts(charter, ledger, clock)
        /\ ClosuresFor(charter, project_reviews(ledger'), s, clock)
             \in {ClosuresFor(charter, project_reviews(ledger), s, clock),
                  ClosuresFor(charter, project_reviews(ledger), s, clock) \cup {clock}}
    <3>1. /\ project_carveouts(charter, ledger \cup new, clock) = project_carveouts(charter, ledger, clock)
          /\ ClosuresFor(charter, project_reviews(ledger \cup new), s, clock)
               \in {ClosuresFor(charter, project_reviews(ledger), s, clock),
                    ClosuresFor(charter, project_reviews(ledger), s, clock) \cup {clock}}
      BY <1>0, <1>6, <2>2, ClosuresGrow, Zenon
    <3> QED
      BY <2>1, <3>1
  <2> QED
    BY <1>0, <2>1, <2>3, ClosureMoves DEF ScopeMoves
<1>7. \A id : ~Has(REVIEW_OPENED, id) => OfKind(ledger, REVIEW_CLOSED, id) = {}
  BY DEF ClosingsHaveOpenings, Has, OfKind
<1>8. ASSUME NEW id, OpenReview(id) PROVE ScopeMoves(s)
  <2>1. PICK scope \in Scopes, at \in Stamps, sha \in Shas :
          /\ id \in NewIds(REVIEW_OPENED, ReviewIds) /\ NewCommit(at, sha) /\ Commit({Opening(id, scope, at, sha)})
    BY <1>8 DEF OpenReview
  <2>2. at = clock /\ Quiet
    BY <2>1, OrderlyCommit
  <2>3. Opening(id, scope, at, sha).kind = REVIEW_OPENED /\ Opening(id, scope, at, sha).id = id
        /\ Opening(id, scope, at, sha).at = at
    BY DEF Opening
  <2>4. CASE Has(REVIEW_OPENED, id)
    BY <1>1, <2>1, <2>2, <2>3, <2>4
  <2>5. CASE ~Has(REVIEW_OPENED, id)
    BY <1>6, <1>7, <2>1, <2>2, <2>3, <2>5
  <2> QED
    BY <2>4, <2>5
<1>9. ASSUME NEW id, CloseReview(id) PROVE ScopeMoves(s)
  <2>1. PICK at \in Stamps, sha \in Shas : MayClose(id) /\ NewCommit(at, sha) /\ Commit({Closing(id, at, sha)})
    BY <1>9 DEF CloseReview
  <2>2. at = clock /\ Quiet
    BY <2>1, OrderlyCommit
  <2>3. Closing(id, at, sha).kind = REVIEW_CLOSED /\ Closing(id, at, sha).id = id /\ Closing(id, at, sha).at = at
    BY DEF Closing
  <2>4. CASE Has(REVIEW_CLOSED, id)
    BY <1>1, <2>1, <2>2, <2>3, <2>4
  <2>5. CASE ~Has(REVIEW_CLOSED, id)
    BY <1>6, <2>1, <2>2, <2>3, <2>5 DEF Has
  <2> QED
    BY <2>4, <2>5
<1>10. ASSUME NEW id, OpenAndCloseReview(id) PROVE ScopeMoves(s)
  <2>1. PICK scope \in Scopes, at \in Stamps, sha \in Shas :
          /\ id \in Unused(REVIEW_OPENED, ReviewIds) /\ NewCommit(at, sha)
          /\ Commit({Opening(id, scope, at, sha), Closing(id, at, sha)})
    BY <1>10 DEF OpenAndCloseReview
  <2> DEFINE e == Opening(id, scope, at, sha)
             f == Closing(id, at, sha)
  <2>2. OfKind(ledger, REVIEW_CLOSED, id) = {} /\ at = clock
    BY <1>7, <2>1, OrderlyCommit DEF Unused
  <2>3. /\ e.kind = REVIEW_OPENED /\ e.id = id /\ e.at = at
        /\ f.kind = REVIEW_CLOSED /\ f.id = id /\ f.at = at
    BY DEF Opening, Closing
  <2>4. Commit({e, f})
    BY <2>1
  <2> HIDE DEF e, f
  <2> QED
    BY <1>6, <2>2, <2>3, <2>4
<1>11. ASSUME NEW id, Correct(id) PROVE ScopeMoves(s)
  <2>1. PICK target \in EventKeys, at \in Stamps, sha \in Shas :
          NewCommit(at, sha) /\ Commit({Correcting(id, target, at, sha)})
    BY <1>11 DEF Correct
  <2> DEFINE e == Correcting(id, target, at, sha)
  <2>2. ledger' = ledger \cup {e} /\ charter' = charter /\ clock' = clock
    BY <2>1 DEF Commit
  <2>3. e.kind = CORRECTION
    BY DEF Correcting
  <2> HIDE DEF e
  <2>4. \A kind \in {CARVEOUT_RATIFIED, REVIEW_OPENED, REVIEW_CLOSED} \cup TERMINAL_KINDS : \A other :
          OfKind(ledger, kind, other) = OfKind(ledger', kind, other)
    BY <2>2, <2>3 DEF OfKind, CARVEOUT_RATIFIED, TERMINAL_KINDS, CARVEOUT_RETIRED, CARVEOUT_EXPIRED,
                      REVIEW_OPENED, REVIEW_CLOSED, CORRECTION
  <2>5. project_carveouts(charter, ledger, clock) = project_carveouts(charter, ledger', clock)
    BY <2>4, SameCarveOuts DEF SameFirst
  <2>6. project_reviews(ledger) = project_reviews(ledger')
    BY <2>4, SameReviews DEF SameFirst
  <2> QED
    BY <1>0, <2>2, <2>5, <2>6, ClosureMoves DEF ScopeMoves
<1>12. ASSUME EditCharter PROVE ScopeMoves(s)
  <2>1. PICK declared \in SUBSET NonGoalIds : IsFiniteSet(declared) /\ charter \in CharterOver(declared)
    BY DEF TypeOK, IsCharter
  <2>2. /\ charter'.adopted_at = charter.adopted_at
        /\ active_non_goals(charter') = active_non_goals(charter)
        /\ retired_non_goals(charter') = retired_non_goals(charter)
    <3>1. ASSUME NEW ng, SetBudget(ng) PROVE <2>2
      BY <2>1, <3>1 DEF SetBudget, CharterOver, NonGoal, active_non_goals, retired_non_goals
    <3>2. ASSUME SetConfig \/ SwitchProfile \/ RatifyCharter PROVE <2>2
      BY <2>1, <3>2 DEF SetConfig, SwitchProfile, RatifyCharter, CharterOver, active_non_goals, retired_non_goals
    <3>3. \A ng : ~RetireNonGoal(ng)
      BY DEF RetireNonGoal
    <3> QED
      BY <1>12, <3>1, <3>2, <3>3 DEF EditCharter
  <2>3. ledger' = ledger /\ clock' = clock
    BY <1>12 DEF EditCharter, RetireNonGoal, SetBudget, SetConfig, SwitchProfile, RatifyCharter
  <2>4. project(charter', ledger', clock') = project(charter, ledger, clock)
    BY <2>2, <2>3, SameProjection
  <2>5. \A state : /\ LevelOf(charter', state) = LevelOf(charter, state)
                   /\ ReviewedOf(charter', state) = ReviewedOf(charter, state)
    BY <2>2 DEF LevelOf, ReviewedOf
  <2> QED
    BY <2>4, <2>5 DEF ScopeMoves, ViewMoves, Moves
<1>13. ASSUME Tick PROVE ScopeMoves(s)
  <2>1. ledger' = ledger /\ charter' = charter /\ clock' = clock + 1
    BY <1>13 DEF Tick
  <2>2. Lapsed(project_carveouts(charter, ledger, clock), project_carveouts(charter, ledger, clock + 1), clock + 1)
    BY <1>0, TimeLapses
  <2>3. AsOf(ledger, clock + 1)
    BY <1>0, <2>1
  <2> QED
    BY <1>0, <2>1, <2>2, <2>3, QuietClosures, LapseMoves DEF ScopeMoves
<1> QED
  BY <1>3, <1>4, <1>5, <1>8, <1>9, <1>10, <1>11, <1>12, <1>13 DEF Next, Tightening, Relaxing

\* The three variables of ObservedSpec show what an evaluation derives.
Observed ==
  /\ level = LevelOf(charter, project(charter, ledger, clock))
  /\ baseline = BaselineOf(project(charter, ledger, clock))
  /\ reviewed = ReviewedOf(charter, project(charter, ledger, clock))

LEMMA RatchetInit == ObservedInit => R!Init
<1> SUFFICES ASSUME ObservedInit PROVE R!Init
  OBVIOUS
<1>1. ledger = {} /\ clock = 0 /\ AsOf(ledger, clock)
  BY FS_EmptySet DEF ObservedInit, Init, AsOf, Ledger, UniquePaths
<1>2. project_carveouts(charter, ledger, clock) = [id \in {} |-> CarveOutState(charter, ledger, id, clock)]
  BY <1>1 DEF project_carveouts, ProjectedIds
<1>3. project_reviews(ledger) = [id \in {} |-> ReviewState(ledger, id)]
  BY <1>1 DEF project_reviews
<1>4. ASSUME NEW s \in Watched PROVE level[s] = 0 /\ baseline[s] = None /\ reviewed[s] = {}
  <2>1. ActiveOf(project_carveouts(charter, ledger, clock), ScopeOf(charter, s)) = {}
    BY <1>2 DEF ActiveOf
  <2>2. ClosuresFor(charter, project_reviews(ledger), s, clock) = {}
    BY <1>3 DEF ClosuresFor
  <2>3. level[s] = Cardinality({})
    BY <1>1, <2>1, ObservedScope DEF ObservedInit
  <2>4. baseline[s] = None
    BY <1>1, <2>2, ObservedScope DEF ObservedInit, BaselineOver
  <2>5. reviewed[s] = {}
    BY <1>1, <2>2, ObservedScope DEF ObservedInit
  <2> QED
    BY <2>3, <2>4, <2>5, FS_EmptySet
<1>5. /\ level = [s \in Watched |-> level[s]] /\ baseline = [s \in Watched |-> baseline[s]]
      /\ reviewed = [s \in Watched |-> reviewed[s]]
  BY DEF ObservedInit, LevelOf, BaselineOf, ReviewedOf
<1> QED
  BY <1>4, <1>5 DEF R!Init

LEMMA RatchetStep ==
  ASSUME Orderly, RetirableNonGoals = {}, TypeOK, TypeOK', ClosingsHaveOpenings, Observed, [ObservedNext]_observedVars
  PROVE  Observed' /\ [R!Next]_(R!vars)
<1>1. CASE UNCHANGED observedVars
  <2>1. /\ level' = level /\ baseline' = baseline /\ reviewed' = reviewed
        /\ charter' = charter /\ ledger' = ledger /\ clock' = clock
    BY <1>1 DEF observedVars
  <2>2. LevelOf(charter', project(charter', ledger', clock')) = LevelOf(charter, project(charter, ledger, clock))
        /\ BaselineOf(project(charter', ledger', clock')) = BaselineOf(project(charter, ledger, clock))
        /\ ReviewedOf(charter', project(charter', ledger', clock')) = ReviewedOf(charter, project(charter, ledger, clock))
    BY <2>1
  <2> QED
    BY <2>1, <2>2 DEF Observed, R!vars
<1>2. CASE ObservedNext
  <2>1. /\ Next
        /\ level' = LevelOf(charter', project(charter', ledger', clock'))
        /\ baseline' = BaselineOf(project(charter', ledger', clock'))
        /\ reviewed' = ReviewedOf(charter', project(charter', ledger', clock'))
        /\ level = LevelOf(charter, project(charter, ledger, clock))
        /\ baseline = BaselineOf(project(charter, ledger, clock))
        /\ reviewed = ReviewedOf(charter, project(charter, ledger, clock))
    BY <1>2 DEF ObservedNext, Observed
  <2>2. AsOf(ledger', clock')
    BY DEF TypeOK, AsOf, Ledger
  <2>3. /\ level' \in [Watched -> Nat] /\ baseline' \in [Watched -> Nat \cup {None}]
        /\ reviewed' \in [Watched -> SUBSET Nat]
    <3>1. \A s \in Watched :
            level'[s] \in Nat /\ baseline'[s] \in Nat \cup {None} /\ reviewed'[s] \in SUBSET Nat
      BY <2>1, <2>2, ObservedTyped
    <3>2. /\ level' = [s \in Watched |-> level'[s]] /\ baseline' = [s \in Watched |-> baseline'[s]]
          /\ reviewed' = [s \in Watched |-> reviewed'[s]]
      BY <2>1 DEF LevelOf, BaselineOf, ReviewedOf
    <3> QED
      BY <3>1, <3>2
  <2>4. ASSUME NEW s \in Watched PROVE R!Hold(s) \/ R!Grow(s) \/ R!Shrink(s) \/ R!Rebase(s)
    <3>1. ScopeMoves(s)
      BY <2>1, StepMoves
    <3>2. Moves(level[s], baseline[s], reviewed[s], level'[s], baseline'[s], reviewed'[s])
      BY <2>1, <3>1 DEF ScopeMoves, ViewMoves
    <3> QED
      BY <3>2 DEF Moves, R!Hold, R!Grow, R!Shrink, R!Rebase, R!Unreviewed, R!Reviewed
  <2> QED
    BY <2>1, <2>3, <2>4 DEF Observed, R!Next
<1> QED
  BY <1>1, <1>2

\* The counts the level triggers watch and the baselines the engine replays
\* from the ledger (_per_non_goal_baseline, _cumulative_baseline) take only the
\* steps of the abstract ratchet: in an orderly ledger, while no non-goal is
\* retired, a baseline falls with its count and rises only when a covering
\* review closes.
THEOREM RepositoryIsARatchet ==
  ASSUME Orderly, RetirableNonGoals = {}
  PROVE  ObservedSpec => ImplementsRatchet
<1>1. ObservedInit => Init /\ Observed
  BY DEF ObservedInit, Observed
<1>2. [ObservedNext]_observedVars => [Next]_vars
  BY DEF ObservedNext, observedVars, vars
<1>3. Init => TypeOK /\ ClosingsHaveOpenings
  BY TypeInit, OpeningsInit
<1>4. TypeOK /\ [Next]_vars => TypeOK'
  BY TypeStep
<1>5. ClosingsHaveOpenings /\ [Next]_vars => ClosingsHaveOpenings'
  BY OpeningsStep
<1>6. TypeOK /\ TypeOK' /\ ClosingsHaveOpenings /\ Observed /\ [ObservedNext]_observedVars
        => Observed' /\ [R!Next]_(R!vars)
  BY RatchetStep
<1> QED
  BY <1>1, <1>2, <1>3, <1>4, <1>5, <1>6, RatchetInit, PTL DEF ObservedSpec, ImplementsRatchet, R!Spec
=============================================================================
