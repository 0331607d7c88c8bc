---------------------------- MODULE LedgerLemmas ----------------------------
(***************************************************************************)
(* Lemmas about the operators the projection is built from: the first      *)
(* event of a set, least and greatest elements, and what carve-outs and    *)
(* intervals are made of.                                                  *)
(***************************************************************************)
EXTENDS Projection, FiniteSetTheorems, WellFoundedInduction, TLAPS

-----------------------------------------------------------------------------
(* Least elements.                                                         *)

\* A finite, non-empty set that R orders strictly and totally has an element
\* before all others.  Of the sets of predecessors, one is minimal.
LEMMA LeastExists ==
  ASSUME NEW T, IsFiniteSet(T), T # {}, NEW R,
         \A x \in T : <<x, x>> \notin R,
         \A x, y, z \in T : <<x, y>> \in R /\ <<y, z>> \in R => <<x, z>> \in R,
         \A x, y \in T : x # y => <<x, y>> \in R \/ <<y, x>> \in R
  PROVE  \E x \in T : \A y \in T \ {x} : <<x, y>> \in R
<1> DEFINE Before(x) == {y \in T : <<y, x>> \in R}
           F == {Before(x) : x \in T}
<1>1. F \subseteq FiniteSubsetsOf(T) /\ F # {}
  <2>1. \A x \in T : Before(x) \in SUBSET T /\ IsFiniteSet(Before(x))
    BY FS_Subset
  <2>2. F \subseteq FiniteSubsetsOf(T)
    <3> SUFFICES ASSUME NEW x \in T PROVE Before(x) \in FiniteSubsetsOf(T)
      OBVIOUS
    <3> QED
      BY <2>1 DEF FiniteSubsetsOf
  <2>3. F # {}
    <3>1. PICK x \in T : TRUE
      OBVIOUS
    <3>2. Before(x) \in F
      OBVIOUS
    <3> HIDE DEF F, Before
    <3> QED
      BY <3>2
  <2> HIDE DEF F
  <2> QED
    BY <2>2, <2>3
<1>2. IsWellFoundedOn(StrictSubsetOrdering(T), FiniteSubsetsOf(T))
  BY FS_StrictSubsetOrderingWellFounded
<1>3. PICK X \in F : \A Y \in F : <<Y, X>> \notin StrictSubsetOrdering(T)
  <2> HIDE DEF F
  <2> QED
    BY <1>1, <1>2, WFMin
<1>4. PICK x \in T : X = Before(x)
  OBVIOUS
<1>5. ASSUME NEW y \in T \ {x}, <<x, y>> \notin R PROVE FALSE
  <2>1. <<y, x>> \in R
    BY <1>5
  <2>2. Before(y) \subseteq Before(x) /\ y \in Before(x) /\ y \notin Before(y)
    BY <2>1
  <2>3. <<Before(y), Before(x)>> \in StrictSubsetOrdering(T)
    BY <2>2 DEF StrictSubsetOrdering
  <2> QED
    BY <1>3, <1>4, <2>3
<1> QED
  BY <1>5

\* Min and Max of a finite, non-empty set of integers.
LEMMA MinProperties ==
  ASSUME NEW T, T \subseteq Int, IsFiniteSet(T), T # {}
  PROVE  Min(T) \in T /\ \A y \in T : Min(T) <= y
<1> DEFINE R == {p \in T \X T : p[1] < p[2]}
<1>1. \E x \in T : \A y \in T \ {x} : <<x, y>> \in R
  <2>1. \A x \in T : <<x, x>> \notin R
    OBVIOUS
  <2>2. \A x, y, z \in T : <<x, y>> \in R /\ <<y, z>> \in R => <<x, z>> \in R
    OBVIOUS
  <2>3. \A x, y \in T : x # y => <<x, y>> \in R \/ <<y, x>> \in R
    OBVIOUS
  <2> HIDE DEF R
  <2> QED
    BY <2>1, <2>2, <2>3, LeastExists
<1>2. PICK x \in T : \A y \in T \ {x} : x < y
  BY <1>1
<1>3. \A y \in T : x <= y
  BY <1>2
<1> QED
  BY <1>3 DEF Min

LEMMA MaxProperties ==
  ASSUME NEW T, T \subseteq Int, IsFiniteSet(T), T # {}
  PROVE  Max(T) \in T /\ \A y \in T : Max(T) >= y
<1> DEFINE R == {p \in T \X T : p[1] > p[2]}
<1>1. \E x \in T : \A y \in T \ {x} : <<x, y>> \in R
  <2>1. \A x \in T : <<x, x>> \notin R
    OBVIOUS
  <2>2. \A x, y, z \in T : <<x, y>> \in R /\ <<y, z>> \in R => <<x, z>> \in R
    OBVIOUS
  <2>3. \A x, y \in T : x # y => <<x, y>> \in R \/ <<y, x>> \in R
    OBVIOUS
  <2> HIDE DEF R
  <2> QED
    BY <2>1, <2>2, <2>3, LeastExists
<1>2. PICK x \in T : \A y \in T \ {x} : x > y
  BY <1>1
<1>3. \A y \in T : x >= y
  BY <1>2
<1> QED
  BY <1>3 DEF Max

-----------------------------------------------------------------------------
(* The first event.                                                        *)

\* A ledger the projection may be handed.
Ledger(events) ==
  events \subseteq ResolvedEvent /\ IsFiniteSet(events) /\ UniquePaths(events)

LEMMA EventFields ==
  ASSUME NEW e \in ResolvedEvent
  PROVE  e.at \in Nat /\ e.sha \in Nat /\ e.path \in Nat
BY DEF ResolvedEvent, CarveOutRatified, CarveOutTerminal, ReviewOpened, ReviewClosed, Correction

LEMMA SubsetIsLedger ==
  ASSUME NEW events, Ledger(events), NEW part \in SUBSET events
  PROVE  Ledger(part)
BY FS_Subset DEF Ledger, UniquePaths

\* dict.setdefault over the total order keeps an event of the set, and every
\* other one comes after it.
LEMMA FirstOfProperties ==
  ASSUME NEW events, Ledger(events), events # {}
  PROVE  FirstOf(events) \in events /\ \A f \in events \ {FirstOf(events)} : Precedes(FirstOf(events), f)
<1> DEFINE R == {p \in events \X events : Precedes(p[1], p[2])}
<1>0. \A e \in events : e.at \in Nat /\ e.sha \in Nat /\ e.path \in Nat
  BY EventFields DEF Ledger
<1>1. \E e \in events : \A f \in events \ {e} : <<e, f>> \in R
  <2>1. \A x \in events : <<x, x>> \notin R
    BY <1>0 DEF Precedes
  <2>2. \A x, y, z \in events : <<x, y>> \in R /\ <<y, z>> \in R => <<x, z>> \in R
    BY <1>0 DEF Precedes
  <2>3. \A x, y \in events : x # y => <<x, y>> \in R \/ <<y, x>> \in R
    BY <1>0 DEF Precedes, Ledger, UniquePaths
  <2> HIDE DEF R
  <2> QED
    BY <2>1, <2>2, <2>3, LeastExists DEF Ledger
<1>2. \E e \in events : \A f \in events \ {e} : Precedes(e, f)
  BY <1>1
<1> QED
  BY <1>2 DEF FirstOf

\* Of the events of one kind and id: None, or one of them.
LEMMA FirstOfKind ==
  ASSUME NEW events, Ledger(events), NEW kind, NEW id
  PROVE  LET e == FirstOf(OfKind(events, kind, id))
         IN  \/ e = None /\ OfKind(events, kind, id) = {}
             \/ e \in events /\ e.kind = kind /\ e.id = id
<1>1. CASE OfKind(events, kind, id) = {}
  BY <1>1 DEF FirstOf
<1>2. CASE OfKind(events, kind, id) # {}
  <2>1. Ledger(OfKind(events, kind, id))
    BY SubsetIsLedger DEF OfKind
  <2>2. FirstOf(OfKind(events, kind, id)) \in OfKind(events, kind, id)
    BY <1>2, <2>1, FirstOfProperties
  <2> QED
    BY <2>2 DEF OfKind
<1> QED
  BY <1>1, <1>2

\* FirstOf is None only where there is no event.
LEMMA FirstIsPresent ==
  ASSUME NEW events, Ledger(events), NEW kind, NEW id
  PROVE  LET e == FirstOf(OfKind(events, kind, id))
         IN  /\ e # None <=> OfKind(events, kind, id) # {}
             /\ e # None => e \in events /\ e.kind = kind /\ e.id = id /\ e.at \in Nat
<1> DEFINE e == FirstOf(OfKind(events, kind, id))
<1>1. CASE OfKind(events, kind, id) = {}
  BY <1>1 DEF FirstOf
<1>2. CASE OfKind(events, kind, id) # {}
  <2>1. e \in OfKind(events, kind, id)
    <3>1. Ledger(OfKind(events, kind, id))
      BY SubsetIsLedger DEF OfKind
    <3> QED
      BY <1>2, <3>1, FirstOfProperties
  <2>2. e \in events /\ e.kind = kind /\ e.id = id
    BY <2>1 DEF OfKind
  <2>3. e # None /\ e.at \in Nat
    BY <2>2, NoneAssumption, EventFields DEF Ledger
  <2> QED
    BY <1>2, <2>2, <2>3
<1> QED
  BY <1>1, <1>2

-----------------------------------------------------------------------------
(* The total order.                                                        *)

\* order_key orders the files of a ledger totally.
LEMMA OrderIsTotal ==
  ASSUME NEW events, Ledger(events)
  PROVE  /\ \A x \in events : ~Precedes(x, x)
         /\ \A x, y \in events : Precedes(x, y) => ~Precedes(y, x)
         /\ \A x, y, z \in events : Precedes(x, y) /\ Precedes(y, z) => Precedes(x, z)
         /\ \A x, y \in events : x # y => Precedes(x, y) \/ Precedes(y, x)
<1>1. \A e \in events : e.at \in Nat /\ e.sha \in Nat /\ e.path \in Nat
  BY EventFields DEF Ledger
<1> QED
  BY <1>1 DEF Precedes, Ledger, UniquePaths

\* Events that precede others stand before them.
LEMMA PositionsFollowTheOrder ==
  ASSUME NEW events, Ledger(events)
  PROVE  /\ \A e \in events : Position(events, e) \in 1 .. Cardinality(events)
         /\ \A e, f \in events : Precedes(e, f) => Position(events, e) < Position(events, f)
<1> DEFINE Before(e) == {f \in events : Precedes(f, e)}
<1>1. \A e \in events : IsFiniteSet(Before(e)) /\ Cardinality(Before(e)) \in Nat
  BY FS_Subset, FS_CardinalityType DEF Ledger
<1>2. IsFiniteSet(events) /\ Cardinality(events) \in Nat
  BY FS_CardinalityType DEF Ledger
<1>3. \A e \in events : Position(events, e) = Cardinality(Before(e)) + 1
  BY DEF Position
<1> HIDE DEF Before
<1>4. ASSUME NEW e \in events PROVE Position(events, e) \in 1 .. Cardinality(events)
  <2>1. Before(e) \subseteq events \ {e}
    BY OrderIsTotal DEF Before
  <2>2. IsFiniteSet(events \ {e}) /\ Cardinality(events \ {e}) = Cardinality(events) - 1
    BY <1>2, FS_RemoveElement
  <2>3. Cardinality(Before(e)) <= Cardinality(events) - 1
    BY <2>1, <2>2, FS_Subset
  <2> QED
    BY <1>1, <1>2, <1>3, <2>3
<1>5. ASSUME NEW e \in events, NEW f \in events, Precedes(e, f)
      PROVE  Position(events, e) < Position(events, f)
  <2>1. Before(e) \cup {e} \subseteq Before(f) /\ e \notin Before(e)
    BY <1>5, OrderIsTotal DEF Before
  <2>2. Cardinality(Before(e) \cup {e}) = Cardinality(Before(e)) + 1
    BY <1>1, <2>1, FS_AddElement
  <2>3. Cardinality(Before(e) \cup {e}) <= Cardinality(Before(f))
    BY <1>1, <2>1, FS_Subset
  <2> QED
    BY <1>1, <1>3, <2>2, <2>3
<1> QED
  BY <1>4, <1>5

\* total_order lists every event of a ledger once, in the order of order_key
\* (ordering.py).
LEMMA TotalOrderSorts ==
  ASSUME NEW events, Ledger(events)
  PROVE  LET stream == total_order(events)
         IN  /\ stream \in Seq(events)
             /\ DOMAIN stream = 1 .. Len(stream)
             /\ \A i \in DOMAIN stream : stream[i] \in events /\ Position(events, stream[i]) = i
             /\ \A e \in events : \E i \in DOMAIN stream : stream[i] = e
             /\ \A i, j \in DOMAIN stream : i < j <=> Precedes(stream[i], stream[j])
<1> DEFINE n == Cardinality(events)
           pos == [e \in events |-> Position(events, e)]
           stream == total_order(events)
<1>1. IsFiniteSet(events) /\ n \in Nat
  BY FS_CardinalityType DEF Ledger
<1>2. \A e \in events : pos[e] \in 1 .. n
  BY PositionsFollowTheOrder
<1>3. \A e, f \in events : pos[e] = pos[f] => e = f
  <2>1. \A e, f \in events : e # f => Position(events, e) # Position(events, f)
    BY PositionsFollowTheOrder, OrderIsTotal
  <2> QED
    BY <2>1
<1>4. ASSUME NEW i \in 1 .. n PROVE \E e \in events : Position(events, e) = i
  <2> SUFFICES ASSUME \A e \in events : pos[e] # i PROVE FALSE
    OBVIOUS
  <2>1. IsFiniteSet(1 .. n) /\ Cardinality(1 .. n) = n
    BY <1>1, FS_Interval
  <2>2. IsFiniteSet((1 .. n) \ {i}) /\ Cardinality((1 .. n) \ {i}) = n - 1
    BY <2>1, FS_RemoveElement
  <2>3. pos \in [events -> (1 .. n) \ {i}]
    BY <1>2
  <2> HIDE DEF pos, n
  <2>4. Cardinality((1 .. n) \ {i}) < Cardinality(events)
    BY <1>1, <2>2 DEF n
  <2>5. \E x, y \in events : x # y /\ pos[x] = pos[y]
    BY <1>1, <2>2, <2>3, <2>4, FS_PigeonHole
  <2> QED
    BY <1>3, <2>5
<1>5. DOMAIN stream = 1 .. n /\ \A i \in 1 .. n : stream[i] \in events /\ Position(events, stream[i]) = i
  BY <1>4 DEF total_order
<1>6. stream \in Seq(events) /\ Len(stream) = n
  <2>1. stream = [i \in 1 .. n |-> stream[i]]
    BY DEF total_order
  <2> HIDE DEF stream
  <2> QED
    BY <1>1, <1>5, <2>1
<1>7. ASSUME NEW e \in events PROVE \E i \in DOMAIN stream : stream[i] = e
  <2>1. pos[e] \in 1 .. n /\ pos[stream[pos[e]]] = pos[e] /\ stream[pos[e]] \in events
    BY <1>2, <1>5
  <2> HIDE DEF pos, stream
  <2> QED
    BY <1>3, <1>5, <2>1
<1>8. ASSUME NEW i \in DOMAIN stream, NEW j \in DOMAIN stream
      PROVE  i < j <=> Precedes(stream[i], stream[j])
  <2>1. /\ stream[i] \in events /\ Position(events, stream[i]) = i /\ i \in 1 .. n
        /\ stream[j] \in events /\ Position(events, stream[j]) = j /\ j \in 1 .. n
    BY <1>5, <1>8
  <2> HIDE DEF stream, n
  <2>2. Precedes(stream[i], stream[j]) => i < j
    BY <2>1, PositionsFollowTheOrder
  <2>3. i < j => stream[i] # stream[j] /\ ~Precedes(stream[j], stream[i])
    BY <1>1, <2>1, PositionsFollowTheOrder
  <2> QED
    BY <2>1, <2>2, <2>3, OrderIsTotal
<1> HIDE DEF stream, n
<1> QED
  BY <1>5, <1>6, <1>7, <1>8 DEF stream

-----------------------------------------------------------------------------
(* Finite images.                                                          *)

LEMMA ImageFinite ==
  ASSUME NEW S, IsFiniteSet(S), NEW f, f \in [S -> {f[x] : x \in S}]
  PROVE  IsFiniteSet({f[x] : x \in S})
<1>1. f \in Surjection(S, {f[x] : x \in S})
  BY DEF Surjection
<1> QED
  BY <1>1, FS_Surjection

LEMMA ProjectedIdsFinite ==
  ASSUME NEW events, Ledger(events)
  PROVE  IsFiniteSet(ProjectedIds(events))
<1> DEFINE S == {f \in events : f.kind = CARVEOUT_RATIFIED}
           g == [e \in S |-> e.id]
<1>1. IsFiniteSet(S)
  BY FS_Subset DEF Ledger
<1>2. IsFiniteSet({g[e] : e \in S})
  <2>1. g \in [S -> {g[e] : e \in S}]
    OBVIOUS
  <2> HIDE DEF g, S
  <2> QED
    BY <1>1, <2>1, ImageFinite
<1>3. {g[e] : e \in S} = ProjectedIds(events)
  BY DEF ProjectedIds
<1> QED
  BY <1>2, <1>3

-----------------------------------------------------------------------------
(* Carve-outs.                                                             *)

\* Only an active or a moot carve-out lacks a terminal instant.
LEMMA CarveOutShape ==
  ASSUME NEW charter, NEW events, Ledger(events), NEW at \in Nat, \A e \in events : e.at <= at,
         NEW id \in ProjectedIds(events)
  PROVE  LET c == CarveOutState(charter, events, id, at)
         IN  /\ c.ratified_at \in Nat
             /\ c.terminal_at \in 0 .. at \cup {None}
             /\ c.status = ACTIVE => c.terminal_at = None
<1> DEFINE ratified == FirstOf(OfKind(events, CARVEOUT_RATIFIED, id))
           retirement == FirstOf(OfKind(events, CARVEOUT_RETIRED, id))
           expiration == FirstOf(OfKind(events, CARVEOUT_EXPIRED, id))
           life == lifecycle(ratified.expires_at, ratified.non_goal \in retired_non_goals(charter),
                             retirement, expiration, at)
<1>1. OfKind(events, CARVEOUT_RATIFIED, id) # {}
  BY DEF ProjectedIds, OfKind
<1>2. ratified \in events /\ ratified.kind = CARVEOUT_RATIFIED
  BY <1>1, FirstOfKind
<1>3. ratified.at \in Nat /\ ratified.expires_at \in Nat \cup {None}
  BY <1>2 DEF Ledger, ResolvedEvent, CarveOutRatified, CarveOutTerminal, ReviewOpened,
              ReviewClosed, Correction, CARVEOUT_RATIFIED, TERMINAL_KINDS, CARVEOUT_RETIRED,
              CARVEOUT_EXPIRED, REVIEW_OPENED, REVIEW_CLOSED, CORRECTION
<1>4. retirement = None \/ retirement.at \in 0 .. at
  BY FirstOfKind, EventFields DEF Ledger
<1>5. expiration = None \/ expiration.at \in 0 .. at
  BY FirstOfKind, EventFields DEF Ledger
<1>6. life.terminal_at \in 0 .. at \cup {None} /\ (life.status = ACTIVE => life.terminal_at = None)
  <2> HIDE DEF ratified, retirement, expiration
  <2>1. CASE ratified.non_goal \in retired_non_goals(charter)
    BY <2>1 DEF lifecycle, ACTIVE, MOOT
  <2>2. CASE ratified.non_goal \notin retired_non_goals(charter) /\ retirement # None
    BY <2>2, <1>4 DEF lifecycle, ACTIVE, RETIRED
  <2>3. CASE /\ ratified.non_goal \notin retired_non_goals(charter)
             /\ retirement = None /\ expiration # None
    BY <2>3, <1>5 DEF lifecycle, ACTIVE, EXPIRED
  <2>4. CASE /\ ratified.non_goal \notin retired_non_goals(charter)
             /\ retirement = None /\ expiration = None
    <3>1. EffectiveExpiry(ratified.expires_at, expiration) = ratified.expires_at
      BY <2>4 DEF EffectiveExpiry
    <3> QED
      BY <2>4, <3>1, <1>3, NoneAssumption DEF lifecycle, ACTIVE, EXPIRED, reached
  <2> QED
    BY <2>1, <2>2, <2>3, <2>4
<1>7. LET c == CarveOutState(charter, events, id, at)
      IN  c.ratified_at = ratified.at /\ c.terminal_at = life.terminal_at /\ c.status = life.status
  BY DEF CarveOutState
<1> QED
  BY <1>3, <1>6, <1>7

\* What the projection says of carve-outs, as far as counting them goes.
CarveOuts(carveouts, at) ==
  /\ IsFiniteSet(DOMAIN carveouts)
  /\ \A id \in DOMAIN carveouts :
       /\ carveouts[id].ratified_at \in Nat
       /\ carveouts[id].terminal_at \in 0 .. at \cup {None}
       /\ carveouts[id].status = ACTIVE => carveouts[id].terminal_at = None

LEMMA ProjectedCarveOuts ==
  ASSUME NEW charter, NEW events, Ledger(events), NEW at \in Nat, \A e \in events : e.at <= at
  PROVE  CarveOuts(project_carveouts(charter, events, at), at)
BY ProjectedIdsFinite, CarveOutShape DEF CarveOuts, project_carveouts

-----------------------------------------------------------------------------
(* Counting.                                                               *)

LEMMA IntervalsShape ==
  ASSUME NEW carveouts, NEW at \in Nat, CarveOuts(carveouts, at)
  PROVE  /\ IsFiniteSet(Intervals(carveouts))
         /\ \A i \in Intervals(carveouts) : i.start \in Nat /\ i.end \in 0 .. at \cup {None}
<1> DEFINE S == {id \in DOMAIN carveouts : carveouts[id].status # MOOT}
           g == [id \in S |-> [id |-> id, non_goal |-> carveouts[id].non_goal,
                               start |-> carveouts[id].ratified_at,
                               end |-> carveouts[id].terminal_at]]
<1>1. IsFiniteSet(S)
  BY FS_Subset DEF CarveOuts
<1>2. IsFiniteSet({g[id] : id \in S})
  <2>1. g \in [S -> {g[id] : id \in S}]
    OBVIOUS
  <2> HIDE DEF g, S
  <2> QED
    BY <1>1, <2>1, ImageFinite
<1>3. {g[id] : id \in S} = Intervals(carveouts)
  BY DEF Intervals
<1>4. \A i \in Intervals(carveouts) : i.start \in Nat /\ i.end \in 0 .. at \cup {None}
  BY DEF Intervals, CarveOuts
<1> QED
  BY <1>2, <1>3, <1>4

LEMMA CountIsNat ==
  ASSUME NEW intervals, IsFiniteSet(intervals), NEW ngs, NEW instant
  PROVE  count_at(intervals, ngs, instant) \in Nat
<1>1. IsFiniteSet({i \in intervals : CountedAt(i, ngs, instant)})
  BY FS_Subset
<1> QED
  BY <1>1, FS_CardinalityType DEF count_at

\* Active carve-outs that were all ratified by an instant were all counted
\* then: an active carve-out has been active ever since its ratification.
LEMMA ActiveWereCounted ==
  ASSUME NEW carveouts, NEW at \in Nat, CarveOuts(carveouts, at), NEW ngs, NEW instant \in Nat,
         NEW level \in SUBSET DOMAIN carveouts,
         \A id \in level : /\ carveouts[id].status = ACTIVE
                           /\ carveouts[id].non_goal \in ngs
                           /\ carveouts[id].ratified_at <= instant
  PROVE  Cardinality(level) <= count_at(Intervals(carveouts), ngs, instant)
<1> DEFINE counted == {i \in Intervals(carveouts) : CountedAt(i, ngs, instant)}
           g == [id \in level |-> [id |-> id, non_goal |-> carveouts[id].non_goal,
                                   start |-> carveouts[id].ratified_at,
                                   end |-> carveouts[id].terminal_at]]
<1>1. \A id \in level : g[id] \in counted
  <2> SUFFICES ASSUME NEW id \in level PROVE g[id] \in counted
    OBVIOUS
  <2>1. g[id] \in Intervals(carveouts)
    BY DEF Intervals, ACTIVE, MOOT
  <2>2. CountedAt(g[id], ngs, instant)
    BY DEF CountedAt, CarveOuts
  <2> QED
    BY <2>1, <2>2
<1>2. \A p, q \in level : g[p] = g[q] => p = q
  OBVIOUS
<1>3. IsFiniteSet(counted)
  BY IntervalsShape, FS_Subset
<1>4. g \in Injection(level, counted)
  <2>1. g \in [level -> counted]
    BY <1>1
  <2> HIDE DEF g, counted
  <2> QED
    BY <2>1, <1>2 DEF Injection, IsInjective
<1> QED
  <2> HIDE DEF g, counted
  <2>1. Cardinality(level) <= Cardinality(counted)
    BY <1>3, <1>4, FS_Injection
  <2> QED
    BY <2>1 DEF counted, count_at

\* The carve-outs an instant counts.
IntervalOf(carveouts, id) ==
  [id |-> id, non_goal |-> carveouts[id].non_goal,
   start |-> carveouts[id].ratified_at, end |-> carveouts[id].terminal_at]

CountedOf(carveouts, ngs, instant) ==
  {id \in DOMAIN carveouts :
     carveouts[id].status # MOOT /\ CountedAt(IntervalOf(carveouts, id), ngs, instant)}

\* The engine counts intervals; counting carve-outs is the same.
LEMMA CountIsOfCarveOuts ==
  ASSUME NEW carveouts, NEW at \in Nat, CarveOuts(carveouts, at), NEW ngs, NEW instant
  PROVE  /\ IsFiniteSet(CountedOf(carveouts, ngs, instant))
         /\ count_at(Intervals(carveouts), ngs, instant) = Cardinality(CountedOf(carveouts, ngs, instant))
<1> DEFINE ids == CountedOf(carveouts, ngs, instant)
           counted == {i \in Intervals(carveouts) : CountedAt(i, ngs, instant)}
           g == [id \in ids |-> IntervalOf(carveouts, id)]
<1>1. IsFiniteSet(ids)
  BY FS_Subset DEF CountedOf, CarveOuts
<1>2. \A id \in ids : g[id] \in counted
  BY DEF CountedOf, Intervals, IntervalOf
<1>3. \A i \in counted : i.id \in ids /\ g[i.id] = i
  BY DEF CountedOf, Intervals, IntervalOf
<1>4. \A p, q \in ids : g[p] = g[q] => p = q
  BY DEF IntervalOf
<1>5. g \in Bijection(ids, counted)
  <2>1. g \in [ids -> counted]
    BY <1>2
  <2> HIDE DEF g, ids, counted
  <2> QED
    BY <2>1, <1>3, <1>4 DEF Bijection, Injection, Surjection, IsInjective
<1>6. Cardinality(counted) = Cardinality(ids)
  <2> HIDE DEF g, ids, counted
  <2> QED
    BY <1>1, <1>5, FS_Bijection DEF ExistsBijection
<1> QED
  BY <1>1, <1>6 DEF count_at

\* What counts toward the level of some non-goals.
ActiveOf(carveouts, ngs) ==
  {id \in DOMAIN carveouts : carveouts[id].non_goal \in ngs /\ counts_toward_level(carveouts[id])}

LEMMA ActiveOfState ==
  ASSUME NEW state, NEW ngs
  PROVE  /\ \A ng : active_carveouts_for(state, ng) = ActiveOf(state.carveouts, {ng})
         /\ UNION {active_carveouts_for(state, ng) : ng \in ngs} = ActiveOf(state.carveouts, ngs)
BY DEF active_carveouts_for, ActiveOf

-----------------------------------------------------------------------------
(* Closures and floors.                                                    *)

\* What the projection says of reviews, as far as closing goes.
Reviews(reviews) ==
  /\ IsFiniteSet(DOMAIN reviews)
  /\ \A id \in DOMAIN reviews : reviews[id].status = CLOSED => reviews[id].closed_at \in Nat

LEMMA ProjectedReviews ==
  ASSUME NEW events, Ledger(events)
  PROVE  Reviews(project_reviews(events))
<1> DEFINE S == {f \in events : f.kind = REVIEW_OPENED}
           g == [e \in S |-> e.id]
<1>1. IsFiniteSet({g[e] : e \in S})
  <2>1. IsFiniteSet(S)
    BY FS_Subset DEF Ledger
  <2>2. g \in [S -> {g[e] : e \in S}]
    OBVIOUS
  <2> HIDE DEF g, S
  <2> QED
    BY <2>1, <2>2, ImageFinite
<1>2. {g[e] : e \in S} = DOMAIN project_reviews(events)
  BY DEF project_reviews
<1>3. ASSUME NEW id \in DOMAIN project_reviews(events),
             project_reviews(events)[id].status = CLOSED
      PROVE  project_reviews(events)[id].closed_at \in Nat
  <2> DEFINE closing == FirstOf(OfKind(events, REVIEW_CLOSED, id))
  <2>1. closing = None \/ closing.at \in Nat
    BY FirstOfKind, EventFields DEF Ledger
  <2>2. project_reviews(events)[id] = ReviewState(events, id)
    BY DEF project_reviews
  <2>3. closing # None /\ ReviewState(events, id).closed_at = closing.at
    BY <1>3, <2>2 DEF ReviewState, OPEN, CLOSED
  <2> QED
    BY <2>1, <2>2, <2>3
<1> QED
  BY <1>1, <1>2, <1>3 DEF Reviews

LEMMA ClosureInstants ==
  ASSUME NEW reviews, Reviews(reviews), NEW S \in SUBSET DOMAIN reviews,
         \A id \in S : reviews[id].status = CLOSED
  PROVE  {reviews[id].closed_at : id \in S} \subseteq Nat /\ IsFiniteSet({reviews[id].closed_at : id \in S})
<1> DEFINE g == [id \in S |-> reviews[id].closed_at]
<1>1. IsFiniteSet({g[id] : id \in S})
  <2>1. IsFiniteSet(S)
    BY FS_Subset DEF Reviews
  <2>2. g \in [S -> {g[id] : id \in S}]
    OBVIOUS
  <2> HIDE DEF g
  <2> QED
    BY <2>1, <2>2, ImageFinite
<1>2. {g[id] : id \in S} = {reviews[id].closed_at : id \in S}
  OBVIOUS
<1>3. {reviews[id].closed_at : id \in S} \subseteq Nat
  BY DEF Reviews
<1> QED
  BY <1>1, <1>2, <1>3

LEMMA CoveringClosuresShape ==
  ASSUME NEW reviews, Reviews(reviews), NEW ng, NEW at
  PROVE  CoveringClosures(reviews, ng, at) \subseteq Nat /\ IsFiniteSet(CoveringClosures(reviews, ng, at))
<1> DEFINE S == {r \in DOMAIN reviews : /\ reviews[r].status = CLOSED
                                       /\ reviews[r].closed_at <= at
                                       /\ covers(reviews[r], ng)}
<1>1. CoveringClosures(reviews, ng, at) = {reviews[id].closed_at : id \in S}
  BY DEF CoveringClosures, ClosuresOf
<1>2. S \in SUBSET DOMAIN reviews /\ \A id \in S : reviews[id].status = CLOSED
  OBVIOUS
<1> HIDE DEF S
<1> QED
  BY <1>1, <1>2, ClosureInstants

LEMMA GlobalClosuresShape ==
  ASSUME NEW reviews, Reviews(reviews), NEW at
  PROVE  GlobalClosures(reviews, at) \subseteq Nat /\ IsFiniteSet(GlobalClosures(reviews, at))
<1> DEFINE S == {r \in DOMAIN reviews : /\ reviews[r].status = CLOSED
                                       /\ reviews[r].closed_at <= at
                                       /\ reviews[r].scope.global_}
<1>1. GlobalClosures(reviews, at) = {reviews[id].closed_at : id \in S}
  BY DEF GlobalClosures, ClosuresOf
<1>2. S \in SUBSET DOMAIN reviews /\ \A id \in S : reviews[id].status = CLOSED
  OBVIOUS
<1> HIDE DEF S
<1> QED
  BY <1>1, <1>2, ClosureInstants

\* A floor is the count at one of its candidates, and no candidate has less.
LEMMA FloorAttained ==
  ASSUME NEW intervals, IsFiniteSet(intervals), NEW ngs,
         NEW candidates, IsFiniteSet(candidates), candidates # {}
  PROVE  /\ Floor(intervals, ngs, candidates) \in Nat
         /\ \E c \in candidates : Floor(intervals, ngs, candidates) = count_at(intervals, ngs, c)
         /\ \A c \in candidates : Floor(intervals, ngs, candidates) <= count_at(intervals, ngs, c)
<1> DEFINE g == [c \in candidates |-> count_at(intervals, ngs, c)]
           T == {count_at(intervals, ngs, c) : c \in candidates}
<1>1. T \subseteq Nat
  BY CountIsNat
<1>2. IsFiniteSet(T)
  <2>1. g \in [candidates -> {g[c] : c \in candidates}]
    OBVIOUS
  <2>2. {g[c] : c \in candidates} = T
    OBVIOUS
  <2> HIDE DEF g, T
  <2> QED
    BY <2>1, <2>2, ImageFinite
<1>3. T # {}
  <2>1. PICK c \in candidates : TRUE
    OBVIOUS
  <2>2. count_at(intervals, ngs, c) \in T
    OBVIOUS
  <2> QED
    BY <2>2
<1>4. Min(T) \in T /\ \A n \in T : Min(T) <= n
  <2>1. T \subseteq Int
    BY <1>1
  <2> HIDE DEF T
  <2> QED
    BY <2>1, <1>2, <1>3, MinProperties
<1>5. Floor(intervals, ngs, candidates) = Min(T)
  BY DEF Floor
<1> QED
  BY <1>1, <1>4, <1>5

LEMMA EndsAfterShape ==
  ASSUME NEW intervals, IsFiniteSet(intervals), NEW since,
         \A i \in intervals : i.end \in Nat \cup {None}
  PROVE  /\ IsFiniteSet(EndsAfter(intervals, since))
         /\ \A t \in EndsAfter(intervals, since) : t \in Nat /\ t > since
<1> DEFINE S == {j \in intervals : j.end # None /\ j.end > since}
           g == [i \in S |-> i.end]
<1>1. IsFiniteSet({g[i] : i \in S})
  <2>1. IsFiniteSet(S)
    BY FS_Subset
  <2>2. g \in [S -> {g[i] : i \in S}]
    OBVIOUS
  <2> HIDE DEF g, S
  <2> QED
    BY <2>1, <2>2, ImageFinite
<1>2. {g[i] : i \in S} = EndsAfter(intervals, since)
  BY DEF EndsAfter
<1>3. \A t \in EndsAfter(intervals, since) : t \in Nat /\ t > since
  BY DEF EndsAfter
<1> QED
  BY <1>1, <1>2, <1>3

\* Active carve-outs above a floor have one among them that was ratified
\* after the instant since which the floor is taken.
LEMMA AboveFloorEroded ==
  ASSUME NEW carveouts, NEW at \in Nat, CarveOuts(carveouts, at), NEW ngs, NEW since \in Nat,
         NEW candidates, IsFiniteSet(candidates), candidates # {},
         \A c \in candidates : c \in Nat /\ c >= since,
         NEW level \in SUBSET DOMAIN carveouts,
         \A id \in level : carveouts[id].status = ACTIVE /\ carveouts[id].non_goal \in ngs,
         Cardinality(level) > Floor(Intervals(carveouts), ngs, candidates)
  PROVE  \E id \in level : carveouts[id].ratified_at > since
<1> SUFFICES ASSUME \A id \in level : ~(carveouts[id].ratified_at > since) PROVE FALSE
  OBVIOUS
<1>1. IsFiniteSet(Intervals(carveouts))
  BY IntervalsShape
<1>2. PICK c \in candidates :
        Floor(Intervals(carveouts), ngs, candidates) = count_at(Intervals(carveouts), ngs, c)
  BY <1>1, FloorAttained
<1>3. \A id \in level : carveouts[id].ratified_at <= c
  BY DEF CarveOuts
<1>4. Cardinality(level) <= count_at(Intervals(carveouts), ngs, c)
  BY <1>3, ActiveWereCounted
<1>5. Cardinality(level) \in Nat /\ count_at(Intervals(carveouts), ngs, c) \in Nat
  <2>1. IsFiniteSet(level)
    BY FS_Subset DEF CarveOuts
  <2> QED
    BY <2>1, <1>1, CountIsNat, FS_CardinalityType
<1> QED
  BY <1>2, <1>4, <1>5

-----------------------------------------------------------------------------
(* The floor is the running minimum.                                       *)

\* A count can only fall at a terminal instant: if none lies in (c, t], then
\* whatever counted at c counts at t.
LEMMA CountHoldsBetweenEnds ==
  ASSUME NEW intervals, IsFiniteSet(intervals), NEW ngs, NEW c \in Nat, NEW t \in Nat, c <= t,
         \A i \in intervals : i.start \in Nat /\ i.end \in Nat \cup {None},
         \A i \in intervals : i.non_goal \in ngs /\ i.end # None => ~(c < i.end /\ i.end <= t)
  PROVE  count_at(intervals, ngs, c) <= count_at(intervals, ngs, t)
<1> DEFINE Counted(instant) == {i \in intervals : CountedAt(i, ngs, instant)}
<1>1. Counted(c) \subseteq Counted(t)
  <2> SUFFICES ASSUME NEW i \in intervals, CountedAt(i, ngs, c) PROVE CountedAt(i, ngs, t)
    OBVIOUS
  <2>1. i.start <= t
    BY DEF CountedAt
  <2>2. i.end = None \/ t < i.end
    BY DEF CountedAt
  <2> QED
    BY <2>1, <2>2 DEF CountedAt
<1>2. IsFiniteSet(Counted(t))
  BY FS_Subset
<1> QED
  <2> HIDE DEF Counted
  <2>1. Cardinality(Counted(c)) <= Cardinality(Counted(t))
    BY <1>1, <1>2, FS_Subset
  <2> QED
    BY <2>1 DEF count_at, Counted

\* Two sets of instants have the same floor when each instant of the larger
\* one has an instant of the smaller one at which no more is counted.
LEMMA SameFloor ==
  ASSUME NEW intervals, IsFiniteSet(intervals), NEW ngs,
         NEW few, IsFiniteSet(few), few # {}, NEW many, IsFiniteSet(many), few \subseteq many,
         \A t \in many : \E c \in few : count_at(intervals, ngs, c) <= count_at(intervals, ngs, t)
  PROVE  Floor(intervals, ngs, few) = Floor(intervals, ngs, many)
<1> DEFINE low == Floor(intervals, ngs, few)
           all == Floor(intervals, ngs, many)
<1>1. low \in Nat /\ \A c \in few : low <= count_at(intervals, ngs, c)
  BY FloorAttained
<1>2. PICK c \in few : low = count_at(intervals, ngs, c)
  BY FloorAttained
<1>3. many # {}
  OBVIOUS
<1>4. all \in Nat /\ \A t \in many : all <= count_at(intervals, ngs, t)
  BY <1>3, FloorAttained
<1>5. PICK t \in many : all = count_at(intervals, ngs, t)
  BY <1>3, FloorAttained
<1>6. all <= low
  BY <1>2, <1>4
<1>7. low <= all
  <2>1. PICK d \in few : count_at(intervals, ngs, d) <= count_at(intervals, ngs, t)
    OBVIOUS
  <2>2. count_at(intervals, ngs, d) \in Nat /\ count_at(intervals, ngs, t) \in Nat
    BY CountIsNat
  <2> QED
    BY <1>1, <1>4, <1>5, <2>1, <2>2
<1> QED
  BY <1>1, <1>4, <1>6, <1>7

\* The instants the engine looks at give the least count since the closure.
LEMMA FloorIsLeast ==
  ASSUME NEW intervals, IsFiniteSet(intervals), NEW ngs, NEW since \in Nat, NEW at \in Nat,
         since <= at,
         \A i \in intervals : i.start \in Nat /\ i.end \in 0 .. at \cup {None},
         NEW own \in SUBSET intervals, \A i \in intervals : i.non_goal \in ngs => i \in own
  PROVE  Floor(intervals, ngs, {since} \cup EndsAfter(own, since)) = Floor(intervals, ngs, since .. at)
<1> DEFINE few == {since} \cup EndsAfter(own, since)
<1>1. IsFiniteSet(own)
  BY FS_Subset
<1>2. IsFiniteSet(EndsAfter(own, since)) /\ \A t \in EndsAfter(own, since) : t \in Nat /\ t > since
  BY <1>1, EndsAfterShape
<1>3. IsFiniteSet(few) /\ few # {}
  BY <1>2, FS_Singleton, FS_Union
<1>4. few \subseteq since .. at
  BY <1>2 DEF EndsAfter
<1>5. ASSUME NEW t \in since .. at
      PROVE  \E c \in few : count_at(intervals, ngs, c) <= count_at(intervals, ngs, t)
  <2> DEFINE before == {c \in few : c <= t}
  <2>1. IsFiniteSet(before) /\ before # {} /\ before \subseteq Int
    <3>1. since \in before
      OBVIOUS
    <3> QED
      BY <3>1, <1>3, <1>4, FS_Subset
  <2>2. Max(before) \in before /\ \A c \in before : Max(before) >= c
    <3> HIDE DEF before
    <3> QED
      BY <2>1, MaxProperties
  <2> DEFINE c == Max(before)
  <2>3. c \in few /\ c \in Nat /\ c <= t /\ c >= since /\ t \in Nat
    BY <2>2, <1>4
  <2>4. ASSUME NEW i \in intervals, i.non_goal \in ngs, i.end # None, c < i.end, i.end <= t
        PROVE  FALSE
    <3>1. i \in own /\ i.end \in Nat /\ i.end > since
      BY <2>3, <2>4
    <3>2. i.end \in few
      BY <2>4, <3>1 DEF EndsAfter
    <3>3. i.end \in before
      BY <2>4, <3>2
    <3> QED
      BY <2>2, <2>3, <2>4, <3>1, <3>3
  <2>5. count_at(intervals, ngs, c) <= count_at(intervals, ngs, t)
    <3> HIDE DEF c
    <3> QED
      BY <2>3, <2>4, CountHoldsBetweenEnds
  <2> QED
    BY <2>3, <2>5
<1>6. IsFiniteSet(since .. at)
  BY FS_Interval
<1> QED
  <2> DEFINE many == since .. at
  <2>1. \A t \in many : \E c \in few : count_at(intervals, ngs, c) <= count_at(intervals, ngs, t)
    BY <1>5
  <2>2. IsFiniteSet(many) /\ few \subseteq many
    BY <1>4, <1>6
  <2> HIDE DEF few, many
  <2>3. Floor(intervals, ngs, few) = Floor(intervals, ngs, many)
    BY <1>3, <2>1, <2>2, SameFloor
  <2> QED
    BY <2>3 DEF few, many

\* The baseline of a non-goal is the least count since the last closure that
\* covers it (_floor_since over its own terminal instants).
LEMMA PerNonGoalBaseline ==
  ASSUME NEW charter, NEW at \in Nat, NEW carveouts, CarveOuts(carveouts, at),
         NEW reviews, Reviews(reviews), NEW ng \in active_non_goals(charter)
  PROVE  LET baseline == per_non_goal_baseline(charter, Intervals(carveouts), reviews, at)
             closures == CoveringClosures(reviews, ng, at)
         IN  /\ ng \in DOMAIN baseline <=> closures # {}
             /\ closures # {} =>
                  /\ Max(closures) \in 0 .. at
                  /\ baseline[ng] = Floor(Intervals(carveouts), {ng}, Max(closures) .. at)
<1> DEFINE intervals == Intervals(carveouts)
           closures == CoveringClosures(reviews, ng, at)
           since == Max(closures)
           own == {i \in intervals : i.non_goal = ng}
           baseline == per_non_goal_baseline(charter, intervals, reviews, at)
<1>1. ng \in DOMAIN baseline <=> closures # {}
  BY DEF per_non_goal_baseline
<1>2. ASSUME closures # {}
      PROVE  since \in 0 .. at /\ baseline[ng] = Floor(intervals, {ng}, since .. at)
  <2>1. since \in closures /\ since \in Nat
    <3>1. closures \subseteq Nat /\ IsFiniteSet(closures)
      BY CoveringClosuresShape
    <3>2. closures \subseteq Int
      BY <3>1
    <3> HIDE DEF closures
    <3> QED
      BY <1>2, <3>1, <3>2, MaxProperties
  <2>2. since <= at
    <3>1. \A t \in closures : t <= at
      BY DEF CoveringClosures, ClosuresOf
    <3> QED
      BY <2>1, <3>1
  <2>3. /\ IsFiniteSet(intervals)
        /\ \A i \in intervals : i.start \in Nat /\ i.end \in 0 .. at \cup {None}
    BY IntervalsShape
  <2>4. own \in SUBSET intervals /\ \A i \in intervals : i.non_goal \in {ng} => i \in own
    OBVIOUS
  <2>5. Floor(intervals, {ng}, {since} \cup EndsAfter(own, since)) = Floor(intervals, {ng}, since .. at)
    <3> HIDE DEF intervals, since, own
    <3> QED
      BY <2>1, <2>2, <2>3, <2>4, FloorIsLeast
  <2>6. baseline[ng] = floor_since(intervals, ng, since)
    BY <1>1, <1>2 DEF per_non_goal_baseline
  <2> QED
    BY <2>1, <2>2, <2>5, <2>6 DEF floor_since
<1> QED
  BY <1>1, <1>2

\* The cumulative baseline is the least count over all active non-goals since
\* the last global closure (_cumulative_baseline).
LEMMA CumulativeBaseline ==
  ASSUME NEW charter, NEW at \in Nat, NEW carveouts, CarveOuts(carveouts, at),
         NEW reviews, Reviews(reviews), active_non_goals(charter) # {}
  PROVE  LET baseline == cumulative_baseline(charter, Intervals(carveouts), reviews, at)
             closures == GlobalClosures(reviews, at)
         IN  /\ closures = {} => baseline = None
             /\ closures # {} =>
                  /\ Max(closures) \in 0 .. at
                  /\ baseline = Floor(Intervals(carveouts), active_non_goals(charter), Max(closures) .. at)
<1> DEFINE intervals == Intervals(carveouts)
           closures == GlobalClosures(reviews, at)
           since == Max(closures)
           ngs == active_non_goals(charter)
           baseline == cumulative_baseline(charter, intervals, reviews, at)
<1>1. closures = {} => baseline = None
  BY DEF cumulative_baseline
<1>2. ASSUME closures # {}
      PROVE  since \in 0 .. at /\ baseline = Floor(intervals, ngs, since .. at)
  <2>1. since \in closures /\ since \in Nat
    <3>1. closures \subseteq Nat /\ IsFiniteSet(closures)
      BY GlobalClosuresShape
    <3>2. closures \subseteq Int
      BY <3>1
    <3> HIDE DEF closures
    <3> QED
      BY <1>2, <3>1, <3>2, MaxProperties
  <2>2. since <= at
    <3>1. \A t \in closures : t <= at
      BY DEF GlobalClosures, ClosuresOf
    <3> QED
      BY <2>1, <3>1
  <2>3. /\ IsFiniteSet(intervals)
        /\ \A i \in intervals : i.start \in Nat /\ i.end \in 0 .. at \cup {None}
    BY IntervalsShape
  <2>4. Floor(intervals, ngs, {since} \cup EndsAfter(intervals, since)) = Floor(intervals, ngs, since .. at)
    <3>1. intervals \in SUBSET intervals /\ \A i \in intervals : i.non_goal \in ngs => i \in intervals
      OBVIOUS
    <3>2. since \in Nat
      BY <2>1
    <3> HIDE DEF intervals, since, ngs
    <3> QED
      BY <3>1, <3>2, <2>2, <2>3, FloorIsLeast
  <2>5. baseline = CumulativeFloor(intervals, ngs, since)
    BY <1>2 DEF cumulative_baseline
  <2> QED
    BY <2>1, <2>2, <2>4, <2>5 DEF CumulativeFloor
<1> QED
  BY <1>1, <1>2

-----------------------------------------------------------------------------
(* A whole projection.                                                     *)

\* What an evaluation derives from events none of which is in its future.
LEMMA ProjectionOf ==
  ASSUME NEW c, NEW events, Ledger(events), NEW t \in Nat, \A e \in events : e.at <= t
  PROVE  LET state == project(c, events, t)
         IN  /\ state.carveouts = project_carveouts(c, events, t)
             /\ state.reviews = project_reviews(events)
             /\ state.per_non_goal = per_non_goal_baseline(c, Intervals(state.carveouts), state.reviews, t)
             /\ state.cumulative = cumulative_baseline(c, Intervals(state.carveouts), state.reviews, t)
             /\ CarveOuts(state.carveouts, t) /\ Reviews(state.reviews)
<1>1. visible(events, t) = events
  BY DEF visible
<1> QED
  BY <1>1, ProjectedCarveOuts, ProjectedReviews DEF project

\* The projection reads which non-goals are in force or retired and the genesis
\* marker of a charter, nothing else.
LEMMA SameProjection ==
  ASSUME NEW c, NEW d, c.adopted_at = d.adopted_at,
         active_non_goals(c) = active_non_goals(d), retired_non_goals(c) = retired_non_goals(d),
         NEW events, NEW t
  PROVE  project(c, events, t) = project(d, events, t)
<1>1. \A at : historical(c, at) = historical(d, at)
  BY DEF historical
<1>2. \A seen, id : CarveOutState(c, seen, id, t) = CarveOutState(d, seen, id, t)
  BY <1>1 DEF CarveOutState
<1>3. \A seen : project_carveouts(c, seen, t) = project_carveouts(d, seen, t)
  BY <1>2 DEF project_carveouts
<1>4. \A intervals, reviews :
        /\ per_non_goal_baseline(c, intervals, reviews, t) = per_non_goal_baseline(d, intervals, reviews, t)
        /\ cumulative_baseline(c, intervals, reviews, t) = cumulative_baseline(d, intervals, reviews, t)
  BY DEF per_non_goal_baseline, cumulative_baseline
<1> QED
  BY <1>3, <1>4 DEF project

\* Two ledgers have the same first event of a kind and id, or both none.
SameFirst(events, more, kind, id) ==
  /\ OfKind(events, kind, id) = {} <=> OfKind(more, kind, id) = {}
  /\ FirstOf(OfKind(events, kind, id)) = FirstOf(OfKind(more, kind, id))

\* What comes later is never first.
LEMMA FirstStays ==
  ASSUME NEW events, NEW new, Ledger(events), Ledger(events \cup new),
         \A e \in events, f \in new : e.at < f.at,
         NEW kind, NEW id, OfKind(events, kind, id) # {}
  PROVE  SameFirst(events, events \cup new, kind, id)
<1> DEFINE old == OfKind(events, kind, id)
           all == OfKind(events \cup new, kind, id)
<1>1. old \subseteq all /\ (all \ old) \subseteq new /\ old \subseteq events /\ all # {}
  BY DEF OfKind
<1>2. Ledger(old) /\ Ledger(all)
  <2>1. all \subseteq events \cup new
    BY DEF OfKind
  <2> QED
    BY <1>1, <2>1, SubsetIsLedger
<1>3. FirstOf(old) \in old /\ \A f \in old \ {FirstOf(old)} : Precedes(FirstOf(old), f)
  BY <1>2, FirstOfProperties
<1>4. FirstOf(all) \in all /\ \A f \in all \ {FirstOf(all)} : Precedes(FirstOf(all), f)
  BY <1>1, <1>2, FirstOfProperties
<1>5. \A e \in all : e.at \in Nat /\ e.sha \in Nat /\ e.path \in Nat
  BY <1>2, EventFields DEF Ledger
<1> HIDE DEF old, all
<1>6. FirstOf(all) \in old
  <2> SUFFICES ASSUME FirstOf(all) \notin old PROVE FALSE
    OBVIOUS
  <2>1. FirstOf(all) \in new /\ FirstOf(old) \in events /\ FirstOf(old) \in all
    BY <1>1, <1>3, <1>4
  <2>2. Precedes(FirstOf(all), FirstOf(old))
    BY <1>3, <1>4, <2>1
  <2>3. FirstOf(old).at < FirstOf(all).at
    BY <2>1
  <2> QED
    BY <1>5, <2>1, <1>4, <2>2, <2>3 DEF Precedes
<1>7. FirstOf(all) = FirstOf(old)
  <2> SUFFICES ASSUME FirstOf(all) # FirstOf(old) PROVE FALSE
    OBVIOUS
  <2>1. Precedes(FirstOf(all), FirstOf(old)) /\ Precedes(FirstOf(old), FirstOf(all))
    BY <1>1, <1>3, <1>4, <1>6
  <2> QED
    BY <1>1, <1>3, <1>4, <1>5, <2>1 DEF Precedes
<1> QED
  BY <1>1, <1>7 DEF SameFirst, old, all

\* Of the events of a ledger, the projection reads the first of each id of
\* five kinds.
LEMMA SameCarveOuts ==
  ASSUME NEW c, NEW events, NEW more, NEW t,
         \A kind \in TERMINAL_KINDS \cup {CARVEOUT_RATIFIED} : \A id : SameFirst(events, more, kind, id)
  PROVE  project_carveouts(c, events, t) = project_carveouts(c, more, t)
<1>1. ProjectedIds(events) = ProjectedIds(more)
  <2>1. \A seen, id : id \in ProjectedIds(seen) <=> OfKind(seen, CARVEOUT_RATIFIED, id) # {}
    BY DEF ProjectedIds, OfKind
  <2>2. \A id : id \in ProjectedIds(events) <=> id \in ProjectedIds(more)
    BY <2>1 DEF SameFirst
  <2> QED
    BY <2>2
<1>2. \A id : CarveOutState(c, events, id, t) = CarveOutState(c, more, id, t)
  BY DEF CarveOutState, TERMINAL_KINDS, SameFirst
<1> QED
  BY <1>1, <1>2 DEF project_carveouts

LEMMA SameReviews ==
  ASSUME NEW events, NEW more,
         \A kind \in {REVIEW_OPENED, REVIEW_CLOSED} : \A id : SameFirst(events, more, kind, id)
  PROVE  project_reviews(events) = project_reviews(more)
<1> DEFINE Opened(seen) == {e.id : e \in {f \in seen : f.kind = REVIEW_OPENED}}
<1>1. Opened(events) = Opened(more)
  <2>1. \A seen, id : id \in Opened(seen) <=> OfKind(seen, REVIEW_OPENED, id) # {}
    BY DEF OfKind
  <2> HIDE DEF Opened
  <2>2. \A id : id \in Opened(events) <=> id \in Opened(more)
    BY <2>1 DEF SameFirst
  <2> QED
    BY <2>2 DEF Opened
<1>2. \A id : ReviewState(events, id) = ReviewState(more, id)
  BY DEF ReviewState, SameFirst
<1> QED
  BY <1>1, <1>2 DEF project_reviews
=============================================================================
