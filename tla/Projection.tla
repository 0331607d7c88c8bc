----------------------------- MODULE Projection -----------------------------
(***************************************************************************)
(* projection.py: carve-out and review state, and the ratchet baselines,   *)
(* derived from the charter and the events, as of one instant.             *)
(*                                                                         *)
(* A charter is a record with `non_goals`, a function from the declared    *)
(* non-goals to their [status, budget], and `adopted_at`, the genesis      *)
(* marker.  Nothing here is stored: project(...) is a function.            *)
(***************************************************************************)
EXTENDS LedgerEvents

\* CarveOutStatus and ReviewStatus (models/state.py).
ACTIVE  == "active"
RETIRED == "retired"
EXPIRED == "expired"
MOOT    == "moot"
OPEN    == "open"
CLOSED  == "closed"

\* Charter.active_non_goals, and the ones that make carve-outs moot.
active_non_goals(charter) ==
  {ng \in DOMAIN charter.non_goals : charter.non_goals[ng].status = "active"}
retired_non_goals(charter) ==
  {ng \in DOMAIN charter.non_goals : charter.non_goals[ng].status = "retired"}

-----------------------------------------------------------------------------
(* Carve-outs.                                                             *)

\* The earlier of the declared expiry and the attestation, if any (A8).
EffectiveExpiry(expires_at, expiration) ==
  CASE expiration = None                       -> expires_at
    [] expiration # None /\ expires_at = None  -> expiration.at
    [] expiration # None /\ expires_at # None  -> Min({expires_at, expiration.at})

\* Mutant: the instant of the expiry itself still counts.
past_the_expiry(expiry, at) == expiry # None /\ at > expiry
reached(expiry, at) == expiry # None /\ at >= expiry

lifecycle(expires_at, non_goal_retired, retirement, expiration, at) ==
  LET expiry == EffectiveExpiry(expires_at, expiration)
      State(status, terminal_at) ==
        [status |-> status, terminal_at |-> terminal_at, effective_expiry |-> expiry]
  IN  CASE non_goal_retired -> State(MOOT, None)
        [] ~non_goal_retired /\ retirement # None -> State(RETIRED, retirement.at)
        [] ~non_goal_retired /\ retirement = None /\ expiration # None
             -> State(EXPIRED, expiration.at)
        [] OTHER -> IF reached(expiry, at) THEN State(EXPIRED, expiry) ELSE State(ACTIVE, None)

ProjectedIds(events) == {e.id : e \in {f \in events : f.kind = CARVEOUT_RATIFIED}}

\* Mutant: what is introduced at the genesis marker is not historical.
before_adoption(charter, ratified_at) ==
  charter.adopted_at # None /\ ratified_at < charter.adopted_at
historical(charter, ratified_at) ==
  charter.adopted_at # None /\ ratified_at <= charter.adopted_at

\* One carve-out: its first ratification, and the first event of each
\* terminal kind that carries its id, wherever in the order that event is.
CarveOutState(charter, events, id, at) ==
  LET ratified == FirstOf(OfKind(events, CARVEOUT_RATIFIED, id))
      life == lifecycle(ratified.expires_at,
                        ratified.non_goal \in retired_non_goals(charter),
                        FirstOf(OfKind(events, CARVEOUT_RETIRED, id)),
                        FirstOf(OfKind(events, CARVEOUT_EXPIRED, id)),
                        at)
  IN  [non_goal        |-> ratified.non_goal,
       status          |-> life.status,
       ratified_at     |-> ratified.at,
       ratified_commit |-> ratified.sha,
       terminal_at     |-> life.terminal_at,
       expires_at      |-> life.effective_expiry,
       historical      |-> historical(charter, ratified.at)]

project_carveouts(charter, events, at) ==
  [id \in ProjectedIds(events) |-> CarveOutState(charter, events, id, at)]

\* Mutant: what has ended still counts.
counts_unless_moot(carveout) == carveout.status # MOOT
counts_toward_level(carveout) == carveout.status = ACTIVE
counts_toward_velocity(carveout) == ~carveout.historical /\ carveout.status # MOOT

\* The intervals during which carve-outs counted.  The engine keeps them in a
\* list; the id keeps apart the ones that are otherwise equal.
Intervals(carveouts) ==
  {[id |-> id, non_goal |-> carveouts[id].non_goal,
    start |-> carveouts[id].ratified_at, end |-> carveouts[id].terminal_at] :
      id \in {i \in DOMAIN carveouts : carveouts[i].status # MOOT}}

-----------------------------------------------------------------------------
(* Reviews.                                                                *)

ReviewState(events, id) ==
  LET opening == FirstOf(OfKind(events, REVIEW_OPENED, id))
      closing == FirstOf(OfKind(events, REVIEW_CLOSED, id))
  IN  [status    |-> IF closing # None THEN CLOSED ELSE OPEN,
       opened_at |-> opening.at,
       closed_at |-> IF closing # None THEN closing.at ELSE None,
       scope     |-> opening.scope]

project_reviews(events) ==
  [id \in {e.id : e \in {f \in events : f.kind = REVIEW_OPENED}} |-> ReviewState(events, id)]

covers(review, ng) == review.scope.global_ \/ ng \in review.scope.non_goals

open_reviews(reviews) == {id \in DOMAIN reviews : reviews[id].status = OPEN}

-----------------------------------------------------------------------------
(* The ratchet baselines (A2).                                             *)

\* Mutant: the terminal instant still counts.
CountedThrough(i, ngs, instant) ==
  i.non_goal \in ngs /\ i.start <= instant /\ (i.end = None \/ instant <= i.end)
CountedAt(i, ngs, instant) ==
  /\ i.non_goal \in ngs
  /\ i.start <= instant
  /\ i.end = None \/ instant < i.end

count_at(intervals, ngs, instant) == Cardinality({i \in intervals : CountedAt(i, ngs, instant)})

EndsAfter(intervals, since) == {i.end : i \in {j \in intervals : j.end # None /\ j.end > since}}

\* The least count at the closure and at every later terminal instant.
Floor(intervals, ngs, candidates) ==
  Min({count_at(intervals, ngs, instant) : instant \in candidates})

\* Mutant: the count at the closure, never lowered.
count_at_closure(intervals, ng, since) == Floor(intervals, {ng}, {since})

\* Only the intervals of the one non-goal give candidates.
floor_since(intervals, ng, since) ==
  Floor(intervals, {ng},
        {since} \cup EndsAfter({i \in intervals : i.non_goal = ng}, since))

\* Mutant: the count at the closure, never lowered.
CumulativeAtClosure(intervals, ngs, since) == Floor(intervals, ngs, {since})

\* The intervals of every non-goal give candidates.
CumulativeFloor(intervals, ngs, since) ==
  Floor(intervals, ngs, {since} \cup EndsAfter(intervals, since))

ClosuresOf(reviews, at, Covered(_)) ==
  {reviews[id].closed_at :
     id \in {r \in DOMAIN reviews : /\ reviews[r].status = CLOSED
                                    /\ reviews[r].closed_at <= at
                                    /\ Covered(reviews[r])}}

CoveringClosures(reviews, ng, at) == ClosuresOf(reviews, at, LAMBDA r : covers(r, ng))
GlobalClosures(reviews, at) == ClosuresOf(reviews, at, LAMBDA r : r.scope.global_)

per_non_goal_baseline(charter, intervals, reviews, at) ==
  [ng \in {n \in active_non_goals(charter) : CoveringClosures(reviews, n, at) # {}} |->
     floor_since(intervals, ng, Max(CoveringClosures(reviews, ng, at)))]

\* The numerator; the denominator is the number of active non-goals.
cumulative_baseline(charter, intervals, reviews, at) ==
  IF active_non_goals(charter) = {} \/ GlobalClosures(reviews, at) = {}
  THEN None
  ELSE CumulativeFloor(intervals, active_non_goals(charter), Max(GlobalClosures(reviews, at)))

-----------------------------------------------------------------------------
visible(events, at) == {e \in events : e.at <= at}

project(charter, events, at) ==
  LET seen      == visible(events, at)
      carveouts == project_carveouts(charter, seen, at)
      reviews   == project_reviews(seen)
      intervals == Intervals(carveouts)
  IN  [ordered      |-> seen,
       carveouts    |-> carveouts,
       reviews      |-> reviews,
       per_non_goal |-> per_non_goal_baseline(charter, intervals, reviews, at),
       cumulative   |-> cumulative_baseline(charter, intervals, reviews, at),
       evaluated_at |-> at]

for_non_goal_baseline(state, ng) ==
  IF ng \in DOMAIN state.per_non_goal THEN state.per_non_goal[ng] ELSE None

active_carveouts_for(state, ng) ==
  {id \in DOMAIN state.carveouts :
     state.carveouts[id].non_goal = ng /\ counts_toward_level(state.carveouts[id])}
=============================================================================
