----------------------------- MODULE RepoProofs -----------------------------
(***************************************************************************)
(* Theorems about the repository for every value of the constants: any     *)
(* number of ids, commits, charters and settings, every irregularity       *)
(* unless a theorem names the ones it excludes.  The ones about the        *)
(* ratchet rest on nothing but the type invariant, for the engine keeps    *)
(* no state.                                                               *)
(***************************************************************************)
EXTENDS RepoProperties, LedgerLemmas

-----------------------------------------------------------------------------
(* The files of events.                                                    *)

Kinds == TERMINAL_KINDS \cup {CARVEOUT_RATIFIED, REVIEW_OPENED, REVIEW_CLOSED, CORRECTION}

\* A path ranks file names by a natural.
LEMMA PathIsNat ==
  ASSUME NEW kind \in Kinds, NEW id \in Nat
  PROVE  NewPath(kind, id) \in Nat
<1>1. SuffixRank(kind) \in Nat
  BY DEF Kinds, TERMINAL_KINDS, SuffixRank, CARVEOUT_RATIFIED, CARVEOUT_RETIRED,
         CARVEOUT_EXPIRED, REVIEW_OPENED, REVIEW_CLOSED, CORRECTION
<1>2. LedgerPath(id, kind, 0) \in Nat /\ LedgerPath(id, kind, 1) \in Nat
  BY <1>1 DEF LedgerPath
<1> QED
  BY <1>2 DEF NewPath

\* What a commit may write: resolved events of this instant or earlier.
CommittableNow(events) ==
  /\ events \subseteq ResolvedEvent /\ IsFiniteSet(events)
  /\ \A e \in events : e.at <= clock

\* A committer time is not after the clock.
LEMMA StampShape ==
  ASSUME TypeOK, NEW at \in Stamps
  PROVE  at \in Nat /\ at <= clock
BY DEF Stamps, TypeOK

LEMMA RatificationCommittable ==
  ASSUME TypeOK, NEW id \in CarveOutIds, NEW ng \in RatifiableNonGoals,
         NEW x \in Nat \cup {None}, NEW at \in Stamps, NEW sha \in Shas
  PROVE  Ratification(id, ng, x, at, sha) \in ResolvedEvent /\ Ratification(id, ng, x, at, sha).at <= clock
<1>1. ng \in NonGoalIds
  BY DEF RatifiableNonGoals, TypeOK, IsCharter, CharterOver
<1>2. NewPath(CARVEOUT_RATIFIED, id) \in Nat
  BY PathIsNat, IdsAssumption DEF Kinds
<1>3. (IF x = None THEN None ELSE at + x) \in Nat \cup {None}
  BY NoneAssumption, StampShape
<1>4. sha \in Nat /\ at \in Nat /\ at <= clock
  BY RepoAssumption, StampShape
<1> QED
  BY <1>1, <1>2, <1>3, <1>4 DEF Ratification, ResolvedEvent, CarveOutRatified

LEMMA TerminalCommittable ==
  ASSUME TypeOK, NEW id \in CarveOutIds, NEW kind \in TERMINAL_KINDS, NEW at \in Stamps, NEW sha \in Shas
  PROVE  Terminal(kind, id, at, sha) \in ResolvedEvent /\ Terminal(kind, id, at, sha).at <= clock
<1>1. NewPath(kind, id) \in Nat
  BY PathIsNat, IdsAssumption DEF Kinds
<1>2. sha \in Nat /\ at \in Nat /\ at <= clock
  BY RepoAssumption, StampShape
<1> QED
  BY <1>1, <1>2 DEF Terminal, ResolvedEvent, CarveOutTerminal

LEMMA OpeningCommittable ==
  ASSUME TypeOK, NEW id \in ReviewIds, NEW scope \in Scopes, NEW at \in Stamps, NEW sha \in Shas
  PROVE  Opening(id, scope, at, sha) \in ResolvedEvent /\ Opening(id, scope, at, sha).at <= clock
<1>1. NewPath(REVIEW_OPENED, id) \in Nat
  BY PathIsNat, IdsAssumption DEF Kinds
<1>2. sha \in Nat /\ at \in Nat /\ at <= clock /\ scope \in ReviewScope
  BY RepoAssumption, StampShape
<1> QED
  BY <1>1, <1>2 DEF Opening, ResolvedEvent, ReviewOpened

LEMMA ClosingCommittable ==
  ASSUME TypeOK, NEW id \in ReviewIds, NEW at \in Stamps, NEW sha \in Shas
  PROVE  Closing(id, at, sha) \in ResolvedEvent /\ Closing(id, at, sha).at <= clock
<1>1. NewPath(REVIEW_CLOSED, id) \in Nat
  BY PathIsNat, IdsAssumption DEF Kinds
<1>2. sha \in Nat /\ at \in Nat /\ at <= clock
  BY RepoAssumption, StampShape
<1> QED
  BY <1>1, <1>2 DEF Closing, ResolvedEvent, ReviewClosed

LEMMA CorrectionCommittable ==
  ASSUME TypeOK, NEW id \in CorrectionIds, NEW target \in EventKeys, NEW at \in Stamps, NEW sha \in Shas
  PROVE  Correcting(id, target, at, sha) \in ResolvedEvent /\ Correcting(id, target, at, sha).at <= clock
<1>1. NewPath(CORRECTION, id) \in Nat
  BY PathIsNat, IdsAssumption DEF Kinds
<1>2. sha \in Nat /\ at \in Nat /\ at <= clock
  BY RepoAssumption, StampShape
<1> QED
  BY <1>1, <1>2 DEF Correcting, ResolvedEvent, Correction

-----------------------------------------------------------------------------
(* Type correctness.                                                       *)

\* A commit of such events keeps the type invariant.
LEMMA CommitPreservesType ==
  ASSUME TypeOK, NEW events, CommittableNow(events), Commit(events)
  PROVE  TypeOK'
<1>1. ledger' = ledger \cup events /\ charter' = charter /\ clock' = clock
  BY DEF Commit
<1>2. IsFiniteSet(ledger')
  BY <1>1, FS_Union DEF CommittableNow, TypeOK
<1>3. UniquePaths(ledger')
  BY <1>1 DEF UniquePaths, TypeOK, Commit
<1>4. \A e \in ledger' : e.at <= clock'
  BY <1>1 DEF TypeOK, CommittableNow
<1> QED
  BY <1>1, <1>2, <1>3, <1>4 DEF TypeOK, CommittableNow

LEMMA SingleCommittable ==
  ASSUME NEW e \in ResolvedEvent, e.at <= clock
  PROVE  CommittableNow({e})
BY FS_Singleton DEF CommittableNow

LEMMA PairCommittable ==
  ASSUME NEW e \in ResolvedEvent, e.at <= clock, NEW f \in ResolvedEvent, f.at <= clock
  PROVE  CommittableNow({e, f})
<1>1. IsFiniteSet({e} \cup {f})
  BY FS_Singleton, FS_Union
<1>2. {e} \cup {f} = {e, f}
  OBVIOUS
<1> QED
  BY <1>1, <1>2 DEF CommittableNow

LEMMA TypeInit == Init => TypeOK
<1> SUFFICES ASSUME Init PROVE TypeOK
  OBVIOUS
<1> QED
  BY RepoAssumption, FS_EmptySet DEF Init, TypeOK, UniquePaths

LEMMA TypeStep == TypeOK /\ [Next]_vars => TypeOK'
<1> SUFFICES ASSUME TypeOK, [Next]_vars PROVE TypeOK'
  OBVIOUS
<1>1. ASSUME NEW id \in CarveOutIds, Ratify(id) PROVE TypeOK'
  <2>1. PICK ng \in RatifiableNonGoals, x \in Expiries, at \in Stamps, sha \in Shas :
          Commit({Ratification(id, ng, x, at, sha)})
    BY <1>1 DEF Ratify
  <2>2. CommittableNow({Ratification(id, ng, x, at, sha)})
    BY RatificationCommittable, SingleCommittable, RepoAssumption
  <2> QED
    BY <2>1, <2>2, CommitPreservesType
<1>2. ASSUME RatifyTogether PROVE TypeOK'
  <2>1. PICK first, second \in CarveOutIds, ng1, ng2 \in RatifiableNonGoals, at \in Stamps, sha \in Shas :
          Commit({Ratification(first, ng1, None, at, sha), Ratification(second, ng2, None, at, sha)})
    BY <1>2 DEF RatifyTogether, Unused
  <2>2. CommittableNow({Ratification(first, ng1, None, at, sha), Ratification(second, ng2, None, at, sha)})
    BY RatificationCommittable, PairCommittable
  <2> QED
    BY <2>1, <2>2, CommitPreservesType
<1>3. ASSUME NEW id \in CarveOutIds, Retire(id) PROVE TypeOK'
  <2>1. PICK at \in Stamps, sha \in Shas : Commit({Terminal(CARVEOUT_RETIRED, id, at, sha)})
    BY <1>3 DEF Retire
  <2>2. CommittableNow({Terminal(CARVEOUT_RETIRED, id, at, sha)})
    BY TerminalCommittable, SingleCommittable DEF TERMINAL_KINDS
  <2> QED
    BY <2>1, <2>2, CommitPreservesType
<1>4. ASSUME NEW id \in CarveOutIds, Expire(id) PROVE TypeOK'
  <2>1. PICK at \in Stamps, sha \in Shas : Commit({Terminal(CARVEOUT_EXPIRED, id, at, sha)})
    BY <1>4 DEF Expire
  <2>2. CommittableNow({Terminal(CARVEOUT_EXPIRED, id, at, sha)})
    BY TerminalCommittable, SingleCommittable DEF TERMINAL_KINDS
  <2> QED
    BY <2>1, <2>2, CommitPreservesType
<1>5. ASSUME NEW id \in ReviewIds, OpenReview(id) PROVE TypeOK'
  <2>1. PICK scope \in Scopes, at \in Stamps, sha \in Shas : Commit({Opening(id, scope, at, sha)})
    BY <1>5 DEF OpenReview
  <2>2. CommittableNow({Opening(id, scope, at, sha)})
    BY OpeningCommittable, SingleCommittable
  <2> QED
    BY <2>1, <2>2, CommitPreservesType
<1>6. ASSUME NEW id \in ReviewIds, CloseReview(id) PROVE TypeOK'
  <2>1. PICK at \in Stamps, sha \in Shas : Commit({Closing(id, at, sha)})
    BY <1>6 DEF CloseReview
  <2>2. CommittableNow({Closing(id, at, sha)})
    BY ClosingCommittable, SingleCommittable
  <2> QED
    BY <2>1, <2>2, CommitPreservesType
<1>7. ASSUME NEW id \in ReviewIds, OpenAndCloseReview(id) PROVE TypeOK'
  <2>1. PICK scope \in Scopes, at \in Stamps, sha \in Shas : Commit({Opening(id, scope, at, sha), Closing(id, at, sha)})
    BY <1>7 DEF OpenAndCloseReview
  <2>2. CommittableNow({Opening(id, scope, at, sha), Closing(id, at, sha)})
    BY OpeningCommittable, ClosingCommittable, PairCommittable
  <2> QED
    BY <2>1, <2>2, CommitPreservesType
<1>8. ASSUME NEW id \in CorrectionIds, Correct(id) PROVE TypeOK'
  <2>1. PICK target \in EventKeys, at \in Stamps, sha \in Shas : Commit({Correcting(id, target, at, sha)})
    BY <1>8 DEF Correct
  <2>2. CommittableNow({Correcting(id, target, at, sha)})
    BY CorrectionCommittable, SingleCommittable
  <2> QED
    BY <2>1, <2>2, CommitPreservesType
<1>9. ASSUME NEW ng \in NonGoalIds, RetireNonGoal(ng) PROVE TypeOK'
  <2>1. PICK declared \in SUBSET NonGoalIds : IsFiniteSet(declared) /\ charter \in CharterOver(declared)
    BY DEF TypeOK, IsCharter
  <2>2. charter' \in CharterOver(declared)
    BY <1>9, <2>1 DEF RetireNonGoal, CharterOver, NonGoal, active_non_goals
  <2> QED
    BY <1>9, <2>1, <2>2 DEF RetireNonGoal, TypeOK, IsCharter
<1>10. ASSUME NEW ng \in NonGoalIds, SetBudget(ng) PROVE TypeOK'
  <2>1. PICK declared \in SUBSET NonGoalIds : IsFiniteSet(declared) /\ charter \in CharterOver(declared)
    BY DEF TypeOK, IsCharter
  <2>2. charter' \in CharterOver(declared)
    BY <1>10, <2>1, RepoAssumption DEF SetBudget, CharterOver, NonGoal, active_non_goals
  <2> QED
    BY <1>10, <2>1, <2>2 DEF SetBudget, TypeOK, IsCharter
<1>11. ASSUME RatifyCharter PROVE TypeOK'
  <2>1. PICK declared \in SUBSET NonGoalIds : IsFiniteSet(declared) /\ charter \in CharterOver(declared)
    BY DEF TypeOK, IsCharter
  <2>2. charter' \in CharterOver(declared)
    BY <1>11, <2>1 DEF RatifyCharter, CharterOver
  <2> QED
    BY <1>11, <2>1, <2>2 DEF RatifyCharter, TypeOK, IsCharter
<1>12. ASSUME SetConfig PROVE TypeOK'
  <2>1. PICK config \in Configs : charter' = [charter EXCEPT !.config = config]
    BY <1>12 DEF SetConfig
  <2>2. PICK declared \in SUBSET NonGoalIds : IsFiniteSet(declared) /\ charter \in CharterOver(declared)
    BY DEF TypeOK, IsCharter
  <2>3. charter' \in CharterOver(declared)
    BY <2>1, <2>2, RepoAssumption DEF CharterOver
  <2> QED
    BY <1>12, <2>2, <2>3 DEF SetConfig, TypeOK, IsCharter
<1>13. ASSUME SwitchProfile PROVE TypeOK'
  <2>1. PICK profile \in Profiles : charter' = [charter EXCEPT !.profile = profile]
    BY <1>13 DEF SwitchProfile
  <2>2. PICK declared \in SUBSET NonGoalIds : IsFiniteSet(declared) /\ charter \in CharterOver(declared)
    BY DEF TypeOK, IsCharter
  <2>3. charter' \in CharterOver(declared)
    BY <2>1, <2>2, RepoAssumption DEF CharterOver
  <2> QED
    BY <1>13, <2>2, <2>3 DEF SwitchProfile, TypeOK, IsCharter
<1>14. ASSUME Tick PROVE TypeOK'
  <2>1. \A e \in ledger : e.at <= clock + 1
    <3> SUFFICES ASSUME NEW e \in ledger PROVE e.at <= clock + 1
      OBVIOUS
    <3>1. e.at \in Nat
      BY DEF TypeOK, ResolvedEvent, CarveOutRatified, CarveOutTerminal, ReviewOpened,
             ReviewClosed, Correction
    <3> QED
      BY <3>1 DEF TypeOK
  <2> QED
    BY <1>14, <2>1 DEF Tick, TypeOK, IsCharter
<1>15. CASE UNCHANGED vars
  BY <1>15 DEF vars, TypeOK, IsCharter
<1> QED
  BY <1>1, <1>2, <1>3, <1>4, <1>5, <1>6, <1>7, <1>8, <1>9, <1>10, <1>11, <1>12, <1>13,
     <1>14, <1>15
     DEF Next, Tightening, Relaxing, EditCharter

\* Whatever is committed, the charter stays well formed and the ledger is a
\* finite set of events of the model (models/events.py), in distinct files,
\* none dated after the clock.
THEOREM TypeCorrect == Spec => []TypeOK
BY TypeInit, TypeStep, PTL DEF Spec

-----------------------------------------------------------------------------
(* What an evaluation now derives.                                         *)

LEMMA ProjectionShape ==
  ASSUME TypeOK
  PROVE  /\ CarveOuts(StateAt(clock).carveouts, clock)
         /\ Reviews(StateAt(clock).reviews)
         /\ StateAt(clock).per_non_goal
              = per_non_goal_baseline(charter, Intervals(StateAt(clock).carveouts),
                                      StateAt(clock).reviews, clock)
         /\ StateAt(clock).cumulative
              = cumulative_baseline(charter, Intervals(StateAt(clock).carveouts),
                                    StateAt(clock).reviews, clock)
<1>1. Ledger(visible(ledger, clock))
  <2>1. Ledger(ledger)
    BY DEF TypeOK, Ledger
  <2> QED
    BY <2>1, SubsetIsLedger DEF visible
<1>2. clock \in Nat /\ \A e \in visible(ledger, clock) : e.at <= clock
  BY DEF TypeOK, visible
<1> QED
  BY <1>1, <1>2, ProjectedCarveOuts, ProjectedReviews DEF StateAt, project

\* The instants floor_since and _cumulative_baseline look at.
LEMMA CandidatesShape ==
  ASSUME NEW intervals, IsFiniteSet(intervals), NEW since \in Nat,
         \A i \in intervals : i.end \in Nat \cup {None}
  PROVE  LET candidates == {since} \cup EndsAfter(intervals, since)
         IN  /\ IsFiniteSet(candidates) /\ candidates # {}
             /\ \A c \in candidates : c \in Nat /\ c >= since
<1>1. IsFiniteSet(EndsAfter(intervals, since))
      /\ \A t \in EndsAfter(intervals, since) : t \in Nat /\ t > since
  BY EndsAfterShape
<1>2. IsFiniteSet({since} \cup EndsAfter(intervals, since))
  BY <1>1, FS_Singleton, FS_Union
<1> QED
  BY <1>1, <1>2

-----------------------------------------------------------------------------
(* A2: standing still after a review does not re-fire.                     *)

\* The per-id trigger of a non-goal under review.
LEMMA PerIdNeedsErosion ==
  ASSUME TypeOK, NEW ng \in active_non_goals(charter), CoveringNow(ng) # {},
         per_id(charter, StateAt(clock), SettingsOf(charter), ng).fired
  PROVE  \E id \in active_carveouts_for(StateAt(clock), ng) :
            StateAt(clock).carveouts[id].ratified_at > Max(CoveringNow(ng))
<1> DEFINE state == StateAt(clock)
           intervals == Intervals(state.carveouts)
           since == Max(CoveringNow(ng))
           own == {i \in intervals : i.non_goal = ng}
           candidates == {since} \cup EndsAfter(own, since)
           level == active_carveouts_for(state, ng)
<1>1. clock \in Nat /\ CarveOuts(state.carveouts, clock) /\ Reviews(state.reviews)
  BY ProjectionShape DEF TypeOK
<1>2. since \in Nat
  <2>1. CoveringNow(ng) \subseteq Nat /\ IsFiniteSet(CoveringNow(ng))
    BY <1>1, CoveringClosuresShape DEF CoveringNow
  <2>2. CoveringNow(ng) \subseteq Int
    BY <2>1
  <2> QED
    BY <2>1, <2>2, MaxProperties
<1>3. IsFiniteSet(intervals) /\ \A i \in intervals : i.end \in Nat \cup {None}
  BY <1>1, IntervalsShape
<1>4. IsFiniteSet(own) /\ \A i \in own : i.end \in Nat \cup {None}
  BY <1>3, FS_Subset
<1>5. /\ IsFiniteSet(candidates) /\ candidates # {}
      /\ \A c \in candidates : c \in Nat /\ c >= since
  <2> HIDE DEF own, since
  <2> QED
    BY <1>2, <1>4, CandidatesShape
<1>6. for_non_goal_baseline(state, ng) = Floor(intervals, {ng}, candidates)
  BY ProjectionShape
     DEF for_non_goal_baseline, per_non_goal_baseline, floor_since, CoveringNow
<1>7. Floor(intervals, {ng}, candidates) \in Nat
  <2> HIDE DEF intervals, candidates
  <2> QED
    BY <1>3, <1>5, FloorAttained
<1>8. Cardinality(level) > Floor(intervals, {ng}, candidates)
  BY <1>6, <1>7, NoneAssumption DEF per_id, above_baseline
<1>9. /\ level \in SUBSET DOMAIN state.carveouts
      /\ \A id \in level : state.carveouts[id].status = ACTIVE /\ state.carveouts[id].non_goal \in {ng}
  BY DEF active_carveouts_for, counts_toward_level
<1> QED
  <2> HIDE DEF state, candidates, level, since
  <2>1. \E id \in level : state.carveouts[id].ratified_at > since
    BY <1>1, <1>2, <1>5, <1>8, <1>9, AboveFloorEroded DEF intervals
  <2> QED
    BY <2>1 DEF state, level, since

\* The cumulative trigger under a repo-wide review.
LEMMA CumulativeNeedsErosion ==
  ASSUME TypeOK, GlobalNow # {}, cumulative(charter, StateAt(clock), SettingsOf(charter)).fired
  PROVE  \E id \in UNION {active_carveouts_for(StateAt(clock), ng) : ng \in active_non_goals(charter)} :
            StateAt(clock).carveouts[id].ratified_at > Max(GlobalNow)
<1> DEFINE state == StateAt(clock)
           ngs == active_non_goals(charter)
           intervals == Intervals(state.carveouts)
           since == Max(GlobalNow)
           candidates == {since} \cup EndsAfter(intervals, since)
           level == UNION {active_carveouts_for(state, ng) : ng \in ngs}
<1>1. clock \in Nat /\ CarveOuts(state.carveouts, clock) /\ Reviews(state.reviews)
  BY ProjectionShape DEF TypeOK
<1>2. since \in Nat
  <2>1. GlobalNow \subseteq Nat /\ IsFiniteSet(GlobalNow)
    BY <1>1, GlobalClosuresShape DEF GlobalNow
  <2>2. GlobalNow \subseteq Int
    BY <2>1
  <2> QED
    BY <2>1, <2>2, MaxProperties
<1>3. IsFiniteSet(intervals) /\ \A i \in intervals : i.end \in Nat \cup {None}
  BY <1>1, IntervalsShape
<1>4. /\ IsFiniteSet(candidates) /\ candidates # {}
      /\ \A c \in candidates : c \in Nat /\ c >= since
  <2> HIDE DEF intervals, since
  <2> QED
    BY <1>2, <1>3, CandidatesShape
<1>5. ngs # {}
  BY DEF cumulative
<1>6. state.cumulative = Floor(intervals, ngs, candidates)
  BY <1>5, ProjectionShape DEF cumulative_baseline, CumulativeFloor, GlobalNow
<1>7. Floor(intervals, ngs, candidates) \in Nat
  <2> HIDE DEF intervals, candidates
  <2> QED
    BY <1>3, <1>4, FloorAttained
<1>8. Cardinality(level) > Floor(intervals, ngs, candidates)
  BY <1>6, <1>7, NoneAssumption DEF cumulative, above_baseline
<1>9. /\ level \in SUBSET DOMAIN state.carveouts
      /\ \A id \in level : state.carveouts[id].status = ACTIVE /\ state.carveouts[id].non_goal \in ngs
  BY DEF active_carveouts_for, counts_toward_level
<1> QED
  <2> HIDE DEF state, candidates, level, since, ngs
  <2>1. \E id \in level : state.carveouts[id].ratified_at > since
    BY <1>1, <1>2, <1>4, <1>8, <1>9, AboveFloorEroded DEF intervals
  <2> QED
    BY <2>1 DEF state, level, since, ngs

LEMMA ErosionLemma == TypeOK => RefireNeedsErosion
<1> SUFFICES ASSUME TypeOK,
                    NEW r \in fired_of(evaluate_all(charter, StateAt(clock), SettingsOf(charter), clock))
             PROVE  /\ r.trigger_id = PER_ID /\ CoveringNow(r.scope) # {} =>
                         \E id \in UNION {active_carveouts_for(StateAt(clock), ng) : ng \in {r.scope}} :
                           StateAt(clock).carveouts[id].ratified_at > Max(CoveringNow(r.scope))
                    /\ r.trigger_id = CUMULATIVE /\ GlobalNow # {} =>
                         \E id \in UNION {active_carveouts_for(StateAt(clock), ng) :
                                           ng \in active_non_goals(charter)} :
                           StateAt(clock).carveouts[id].ratified_at > Max(GlobalNow)
  BY DEF RefireNeedsErosion
<1>1. ASSUME r.trigger_id = PER_ID, CoveringNow(r.scope) # {}
      PROVE  \E id \in active_carveouts_for(StateAt(clock), r.scope) :
               StateAt(clock).carveouts[id].ratified_at > Max(CoveringNow(r.scope))
  <2>1. PICK ng \in active_non_goals(charter) : r = per_id(charter, StateAt(clock), SettingsOf(charter), ng)
    BY <1>1 DEF fired_of, evaluate_all, density, cumulative, PER_ID, DENSITY, CUMULATIVE
  <2>2. r.scope = ng /\ r.fired
    BY <2>1 DEF per_id, fired_of
  <2> QED
    BY <1>1, <2>1, <2>2, PerIdNeedsErosion
<1>2. ASSUME r.trigger_id = CUMULATIVE, GlobalNow # {}
      PROVE  \E id \in UNION {active_carveouts_for(StateAt(clock), ng) : ng \in active_non_goals(charter)} :
               StateAt(clock).carveouts[id].ratified_at > Max(GlobalNow)
  <2>1. r = cumulative(charter, StateAt(clock), SettingsOf(charter)) /\ r.fired
    BY <1>2 DEF fired_of, evaluate_all, density, per_id, PER_ID, DENSITY, CUMULATIVE
  <2> QED
    BY <1>2, <2>1, CumulativeNeedsErosion
<1> QED
  BY <1>1, <1>2

\* Whatever was committed, a level trigger that fires although a review of its
\* scope has closed counts a carve-out ratified after the last such closure.
THEOREM StandingStillDoesNotRefire == Spec => []RefireNeedsErosion
BY TypeCorrect, ErosionLemma, PTL

-----------------------------------------------------------------------------
(* The baselines are the least counts since the closures.                  *)

LEMMA PerNonGoalFloor ==
  ASSUME TypeOK, NEW ng \in DOMAIN StateAt(clock).per_non_goal
  PROVE  StateAt(clock).per_non_goal[ng]
           = Floor(Intervals(StateAt(clock).carveouts), {ng}, Max(CoveringNow(ng)) .. clock)
<1>1. ng \in active_non_goals(charter)
  BY ProjectionShape DEF per_non_goal_baseline
<1> QED
  BY <1>1, ProjectionShape, PerNonGoalBaseline DEF TypeOK, CoveringNow

LEMMA CumulativeIsFloor ==
  ASSUME TypeOK, StateAt(clock).cumulative # None
  PROVE  StateAt(clock).cumulative
           = Floor(Intervals(StateAt(clock).carveouts), active_non_goals(charter), Max(GlobalNow) .. clock)
<1>1. active_non_goals(charter) # {}
  BY ProjectionShape DEF cumulative_baseline
<1> QED
  BY <1>1, ProjectionShape, CumulativeBaseline DEF TypeOK, GlobalNow

LEMMA FloorLemma == TypeOK => FloorIsRunningMinimum
BY PerNonGoalFloor, CumulativeIsFloor DEF FloorIsRunningMinimum, Floor

\* Whatever was committed, each baseline is the least number of carve-outs
\* that counted at any instant from the last covering closure to now: the few
\* instants the engine looks at lose nothing.
THEOREM BaselineIsRunningMinimum == Spec => []FloorIsRunningMinimum
BY TypeCorrect, FloorLemma, PTL

-----------------------------------------------------------------------------
(* History replays where endings are in order.                             *)

\* A set's first event of a kind, as seen earlier.
SeenBy(e, t) == IF e # None /\ e.at <= t THEN e ELSE None

LEMMA FirstSeen ==
  ASSUME NEW events, Ledger(events), NEW kind, NEW id, NEW t \in Nat
  PROVE  FirstOf(OfKind(visible(events, t), kind, id)) = SeenBy(FirstOf(OfKind(events, kind, id)), t)
<1> DEFINE all == OfKind(events, kind, id)
           seen == OfKind(visible(events, t), kind, id)
           f == FirstOf(all)
           g == FirstOf(seen)
<1>1. Ledger(all) /\ Ledger(seen) /\ seen \subseteq all /\ \A e \in all : e.at <= t => e \in seen
  BY SubsetIsLedger DEF OfKind, visible
<1>2. \A e \in all : e.at \in Nat /\ e.sha \in Nat /\ e.path \in Nat /\ e # None
  BY <1>1, EventFields, NoneAssumption DEF Ledger
<1>3. \A e \in seen : e.at <= t
  BY DEF OfKind, visible
<1> SUFFICES g = SeenBy(f, t)
  OBVIOUS
<1> HIDE DEF all, seen
<1>4. CASE all = {}
  BY <1>1, <1>4 DEF FirstOf, SeenBy
<1>5. CASE all # {}
  <2>1. f \in all /\ \A e \in all \ {f} : Precedes(f, e)
    BY <1>1, <1>5, FirstOfProperties
  <2>2. CASE f.at <= t
    <3>1. f \in seen
      BY <1>1, <2>1, <2>2
    <3>2. g \in seen /\ \A e \in seen \ {g} : Precedes(g, e)
      BY <1>1, <3>1, FirstOfProperties
    <3> HIDE DEF f, g
    <3>3. f = g
      <4> SUFFICES ASSUME f # g PROVE FALSE
        OBVIOUS
      <4>1. Precedes(f, g) /\ Precedes(g, f)
        BY <1>1, <2>1, <3>1, <3>2
      <4> QED
        BY <1>1, <1>2, <2>1, <3>2, <4>1 DEF Precedes
    <3> QED
      BY <1>2, <2>1, <2>2, <3>3 DEF SeenBy, f
  <2>3. CASE ~(f.at <= t)
    <3>1. seen = {}
      <4> SUFFICES ASSUME NEW e \in seen PROVE FALSE
        OBVIOUS
      <4> HIDE DEF f
      <4>1. e \in all /\ e.at <= t
        BY <1>1, <1>3
      <4> QED
        BY <1>2, <2>1, <2>3, <4>1 DEF Precedes
    <3> QED
      BY <2>3, <3>1 DEF FirstOf, SeenBy
  <2> QED
    BY <2>2, <2>3
<1> QED
  BY <1>4, <1>5

\* A carve-out that ended once, no later than it had declared, was active at an
\* earlier instant exactly if that instant lies before its end.
LEMMA ActiveUntilItsEnd ==
  ASSUME NEW now \in Nat, NEW t \in 0 .. now, NEW x \in Nat \cup {None}, NEW retired, NEW expired,
         \A e \in {retired, expired} : e # None => e.at \in 0 .. now,
         retired = None \/ expired = None,
         \A e \in {retired, expired} : e # None => x = None \/ e.at <= x
  PROVE  LET life == lifecycle(x, FALSE, retired, expired, now)
             then == lifecycle(x, FALSE, SeenBy(retired, t), SeenBy(expired, t), t)
         IN  /\ life.status # MOOT
             /\ then.status = ACTIVE <=> (life.terminal_at = None \/ t < life.terminal_at)
<1> DEFINE life == lifecycle(x, FALSE, retired, expired, now)
           then == lifecycle(x, FALSE, SeenBy(retired, t), SeenBy(expired, t), t)
<1> SUFFICES life.status # MOOT /\ (then.status = ACTIVE <=> (life.terminal_at = None \/ t < life.terminal_at))
  OBVIOUS
<1> HIDE DEF life, then
<1>0. t \in Nat
  OBVIOUS
<1>1. CASE retired # None
  <2>1. life.status = RETIRED /\ life.terminal_at = retired.at /\ retired.at \in Nat /\ expired = None
    BY <1>1 DEF lifecycle, life
  <2>2. SeenBy(expired, t) = None
    BY <2>1 DEF SeenBy
  <2>3. CASE retired.at <= t
    <3>1. then.status = RETIRED
      BY <1>1, <2>3 DEF lifecycle, SeenBy, then
    <3> QED
      BY <1>0, <2>1, <2>3, <3>1, NoneAssumption DEF ACTIVE, MOOT, RETIRED
  <2>4. CASE ~(retired.at <= t)
    <3>1. SeenBy(retired, t) = None
      BY <2>4 DEF SeenBy
    <3>2. ~reached(x, t)
      BY <1>0, <1>1, <2>1, <2>4 DEF reached
    <3>3. then.status = ACTIVE
      BY <2>2, <3>1, <3>2 DEF lifecycle, EffectiveExpiry, then
    <3> QED
      BY <1>0, <2>1, <2>4, <3>3 DEF ACTIVE, MOOT, RETIRED
  <2> QED
    BY <2>3, <2>4
<1>2. CASE retired = None /\ expired # None
  <2>1. life.status = EXPIRED /\ life.terminal_at = expired.at /\ expired.at \in Nat
    BY <1>2 DEF lifecycle, life
  <2>2. SeenBy(retired, t) = None
    BY <1>2 DEF SeenBy
  <2>3. CASE expired.at <= t
    <3>1. then.status = EXPIRED
      BY <1>2, <2>2, <2>3 DEF lifecycle, SeenBy, then
    <3> QED
      BY <1>0, <2>1, <2>3, <3>1, NoneAssumption DEF ACTIVE, MOOT, EXPIRED
  <2>4. CASE ~(expired.at <= t)
    <3>1. SeenBy(expired, t) = None
      BY <2>4 DEF SeenBy
    <3>2. ~reached(x, t)
      BY <1>0, <1>2, <2>1, <2>4 DEF reached
    <3>3. then.status = ACTIVE
      BY <2>2, <3>1, <3>2 DEF lifecycle, EffectiveExpiry, then
    <3> QED
      BY <1>0, <2>1, <2>4, <3>3 DEF ACTIVE, MOOT, EXPIRED
  <2> QED
    BY <2>3, <2>4
<1>3. CASE retired = None /\ expired = None
  <2>1. SeenBy(retired, t) = None /\ SeenBy(expired, t) = None
    BY <1>3 DEF SeenBy
  <2>2. then.status = ACTIVE <=> ~reached(x, t)
    BY <2>1 DEF lifecycle, EffectiveExpiry, ACTIVE, EXPIRED, then
  <2>3. CASE reached(x, now)
    <3>1. life.status = EXPIRED /\ life.terminal_at = x /\ x \in Nat
      BY <1>3, <2>3 DEF lifecycle, EffectiveExpiry, reached, life
    <3>2. reached(x, t) <=> ~(t < x)
      BY <3>1, NoneAssumption DEF reached
    <3> QED
      BY <2>2, <3>1, <3>2, NoneAssumption DEF MOOT, EXPIRED
  <2>4. CASE ~reached(x, now)
    <3>1. life.status = ACTIVE /\ life.terminal_at = None
      BY <1>3, <2>4 DEF lifecycle, EffectiveExpiry, life
    <3>2. ~reached(x, t)
      BY <2>4 DEF reached
    <3> QED
      BY <2>2, <3>1, <3>2 DEF MOOT, ACTIVE
  <2> QED
    BY <2>3, <2>4
<1> QED
  BY <1>1, <1>2, <1>3

\* Every carve-out is ratified once and ends once, and while its non-goal is in
\* force no terminal event comes after the expiry it declared.
EndsInOrder ==
  /\ \A e, f \in ledger : e.kind = CARVEOUT_RATIFIED /\ f.kind = CARVEOUT_RATIFIED /\ e.id = f.id => e = f
  /\ \A e, f \in ledger : e.kind \in TERMINAL_KINDS /\ f.kind \in TERMINAL_KINDS /\ e.id = f.id => e = f
  /\ \A r, e \in ledger :
       /\ r.kind = CARVEOUT_RATIFIED /\ e.kind \in TERMINAL_KINDS /\ r.id = e.id
       /\ r.non_goal \notin retired_non_goals(charter)
       => r.expires_at = None \/ e.at <= r.expires_at

LEMMA RatifiedFields ==
  ASSUME NEW events, events \subseteq ResolvedEvent, NEW r \in events, r.kind = CARVEOUT_RATIFIED
  PROVE  r.expires_at \in Nat \cup {None}
BY DEF ResolvedEvent, CarveOutRatified, CarveOutTerminal, ReviewOpened, ReviewClosed, Correction,
       CARVEOUT_RATIFIED, TERMINAL_KINDS, CARVEOUT_RETIRED, CARVEOUT_EXPIRED, REVIEW_OPENED,
       REVIEW_CLOSED, CORRECTION

\* What an orderly commit adds.
LEMMA AdditionsInOrder ==
  ASSUME TypeOK, TypeOK', EndsInOrder, NEW events, Commit(events),
         \A e, f \in events : e.id = f.id => e = f,
         \A e \in events :
           /\ e.kind = CARVEOUT_RATIFIED =>
                /\ ~Has(CARVEOUT_RATIFIED, e.id)
                /\ e.expires_at = None \/ e.expires_at >= clock
           /\ e.kind \in TERMINAL_KINDS =>
                e.at = clock /\ ~Ended(e.id) /\ ~AlreadyExpired(e.id)
  PROVE  EndsInOrder'
<1>1. ledger' = ledger \cup events /\ charter' = charter
  BY DEF Commit
<1>2. \A e \in ledger : /\ e.at \in Nat /\ e.at <= clock
                        /\ e.kind = CARVEOUT_RATIFIED => Has(CARVEOUT_RATIFIED, e.id)
                        /\ e.kind \in TERMINAL_KINDS => Ended(e.id)
  BY EventFields DEF TypeOK, Has, OfKind, Ended, TERMINAL_KINDS
<1>3. \A e, f \in ledger' : e.kind = CARVEOUT_RATIFIED /\ f.kind = CARVEOUT_RATIFIED /\ e.id = f.id => e = f
  BY <1>1, <1>2 DEF EndsInOrder
<1>4. \A e, f \in ledger' : e.kind \in TERMINAL_KINDS /\ f.kind \in TERMINAL_KINDS /\ e.id = f.id => e = f
  BY <1>1, <1>2 DEF EndsInOrder
<1>5. ASSUME NEW r \in ledger', NEW e \in ledger',
             r.kind = CARVEOUT_RATIFIED, e.kind \in TERMINAL_KINDS, r.id = e.id,
             r.non_goal \notin retired_non_goals(charter)
      PROVE  r.expires_at = None \/ e.at <= r.expires_at
  <2>1. CARVEOUT_RATIFIED \notin TERMINAL_KINDS
    BY DEF CARVEOUT_RATIFIED, TERMINAL_KINDS, CARVEOUT_RETIRED, CARVEOUT_EXPIRED
  <2>2. CASE r \in ledger /\ e \in ledger
    BY <1>5, <2>2 DEF EndsInOrder
  <2>3. CASE r \in events /\ e \in ledger
    <3>1. /\ e.at \in Nat /\ e.at <= clock /\ clock \in Nat
          /\ r.expires_at = None \/ r.expires_at >= clock
      BY <1>2, <1>5, <2>3 DEF TypeOK
    <3>2. r.expires_at = None \/ r.expires_at \in Nat
      <4>1. ledger' \subseteq ResolvedEvent
        BY DEF TypeOK
      <4> QED
        BY <1>5, <4>1, RatifiedFields
    <3> QED
      BY <3>1, <3>2
  <2>4. CASE r \in ledger /\ e \in events
    <3> DEFINE x == r.expires_at
               state == CarveOutState(charter, ledger, r.id, clock)
    <3>1. e.at = clock /\ ~Ended(r.id) /\ ~AlreadyExpired(r.id)
      BY <1>5, <2>4
    <3>2. OfKind(ledger, CARVEOUT_RATIFIED, r.id) = {r}
      BY <1>5, <2>4 DEF OfKind, EndsInOrder
    <3>3. FirstOf({r}) = r
      BY DEF FirstOf
    <3>4. FirstOf(OfKind(ledger, CARVEOUT_RETIRED, r.id)) = None /\ FirstOf(OfKind(ledger, CARVEOUT_EXPIRED, r.id)) = None
      BY <3>1 DEF Ended, Has, FirstOf
    <3>5. state.status # EXPIRED
      BY <1>2, <1>5, <2>4, <3>1 DEF AlreadyExpired
    <3>6. ~reached(x, clock)
      BY <1>5, <3>2, <3>3, <3>4, <3>5 DEF CarveOutState, lifecycle, EffectiveExpiry, EXPIRED
    <3>7. x = None \/ x \in Nat
      BY <1>5, <2>4, RatifiedFields DEF TypeOK
    <3> QED
      BY <3>1, <3>6, <3>7 DEF reached, TypeOK
  <2>5. CASE r \in events /\ e \in events
    BY <1>5, <2>1, <2>5
  <2> QED
    BY <1>1, <1>5, <2>2, <2>3, <2>4, <2>5
<1> QED
  BY <1>1, <1>3, <1>4, <1>5 DEF EndsInOrder

\* Ledgers without copies, without endings after the declared expiry, and with
\* committer times that do not run backwards.
InOrder == Irregular \cap {"duplicate", "late", "backdated"} = {}

LEMMA EndsInOrderInit == Init => EndsInOrder
BY DEF Init, EndsInOrder

LEMMA EndsInOrderStep == InOrder /\ TypeOK /\ TypeOK' /\ EndsInOrder /\ [Next]_vars => EndsInOrder'
<1> SUFFICES ASSUME InOrder, TypeOK, TypeOK', EndsInOrder, [Next]_vars PROVE EndsInOrder'
  OBVIOUS
<1>0. /\ Stamps = {clock} /\ clock \in Nat
      /\ "duplicate" \notin Irregular /\ "late" \notin Irregular
      /\ CARVEOUT_RATIFIED \notin TERMINAL_KINDS /\ CARVEOUT_RETIRED \in TERMINAL_KINDS
      /\ CARVEOUT_EXPIRED \in TERMINAL_KINDS
      /\ {REVIEW_OPENED, REVIEW_CLOSED, CORRECTION} \cap (TERMINAL_KINDS \cup {CARVEOUT_RATIFIED}) = {}
  BY DEF InOrder, Stamps, TypeOK, CARVEOUT_RATIFIED, TERMINAL_KINDS, CARVEOUT_RETIRED, CARVEOUT_EXPIRED,
         REVIEW_OPENED, REVIEW_CLOSED, CORRECTION
<1>1. ASSUME NEW id \in CarveOutIds, Ratify(id) PROVE EndsInOrder'
  <2>1. PICK ng \in RatifiableNonGoals, x \in Expiries, at \in Stamps, sha \in Shas :
          /\ id \in NewIds(CARVEOUT_RATIFIED, CarveOutIds)
          /\ Commit({Ratification(id, ng, x, at, sha)})
    BY <1>1 DEF Ratify
  <2> DEFINE e == Ratification(id, ng, x, at, sha)
  <2>2. ~Has(CARVEOUT_RATIFIED, id)
    BY <1>0, <2>1 DEF NewIds, Unused
  <2>3. e.kind = CARVEOUT_RATIFIED /\ e.id = id /\ (e.expires_at = None \/ e.expires_at >= clock)
    <3>1. x \in Nat \cup {None} /\ at = clock
      BY <1>0, <2>1, RepoAssumption
    <3> QED
      BY <1>0, <3>1 DEF Ratification
  <2> HIDE DEF e
  <2> QED
    BY <1>0, <2>1, <2>2, <2>3, AdditionsInOrder DEF e
<1>2. ASSUME RatifyTogether PROVE EndsInOrder'
  <2>1. PICK first, second \in Unused(CARVEOUT_RATIFIED, CarveOutIds), ng1, ng2 \in RatifiableNonGoals,
             at \in Stamps, sha \in Shas :
          /\ first < second
          /\ Commit({Ratification(first, ng1, None, at, sha), Ratification(second, ng2, None, at, sha)})
    BY <1>2 DEF RatifyTogether
  <2> DEFINE e == Ratification(first, ng1, None, at, sha)
             f == Ratification(second, ng2, None, at, sha)
  <2>2. ~Has(CARVEOUT_RATIFIED, first) /\ ~Has(CARVEOUT_RATIFIED, second) /\ first # second
    <3>1. first \in Nat /\ second \in Nat
      BY IdsAssumption DEF Unused
    <3> QED
      BY <2>1, <3>1 DEF Unused
  <2>3. /\ e.kind = CARVEOUT_RATIFIED /\ e.id = first /\ e.expires_at = None
        /\ f.kind = CARVEOUT_RATIFIED /\ f.id = second /\ f.expires_at = None
    BY DEF Ratification
  <2>4. Commit({e, f})
    BY <2>1
  <2> HIDE DEF e, f
  <2> QED
    BY <1>0, <2>2, <2>3, <2>4, AdditionsInOrder
<1>3. ASSUME NEW id \in CarveOutIds, Retire(id) \/ Expire(id) PROVE EndsInOrder'
  <2>1. PICK kind \in TERMINAL_KINDS, at \in Stamps, sha \in Shas :
          MayEnd(id) /\ Commit({Terminal(kind, id, at, sha)})
    BY <1>0, <1>3 DEF Retire, Expire
  <2> DEFINE e == Terminal(kind, id, at, sha)
  <2>2. ~Ended(id) /\ ~AlreadyExpired(id)
    BY <1>0, <2>1 DEF MayEnd
  <2>3. e.kind \in TERMINAL_KINDS /\ e.id = id /\ e.at = clock
    BY <1>0, <2>1 DEF Terminal
  <2>4. Commit({e})
    BY <2>1
  <2> HIDE DEF e
  <2> QED
    BY <1>0, <2>2, <2>3, <2>4, AdditionsInOrder
<1>4. ASSUME NEW id, OpenReview(id) \/ CloseReview(id) \/ OpenAndCloseReview(id) \/ Correct(id)
      PROVE  EndsInOrder'
  <2>1. PICK events : Commit(events) /\ \A e \in events : e.kind \in {REVIEW_OPENED, REVIEW_CLOSED, CORRECTION}
    <3> DEFINE Harmless(events) ==
                 Commit(events) /\ \A e \in events : e.kind \in {REVIEW_OPENED, REVIEW_CLOSED, CORRECTION}
    <3>1. CASE OpenReview(id)
      <4>1. PICK scope \in Scopes, at \in Stamps, sha \in Shas : Commit({Opening(id, scope, at, sha)})
        BY <3>1 DEF OpenReview
      <4>2. Opening(id, scope, at, sha).kind = REVIEW_OPENED
        BY DEF Opening
      <4>3. Harmless({Opening(id, scope, at, sha)})
        BY <4>1, <4>2
      <4> QED
        BY <4>3
    <3>2. CASE CloseReview(id)
      <4>1. PICK at \in Stamps, sha \in Shas : Commit({Closing(id, at, sha)})
        BY <3>2 DEF CloseReview
      <4>2. Closing(id, at, sha).kind = REVIEW_CLOSED
        BY DEF Closing
      <4>3. Harmless({Closing(id, at, sha)})
        BY <4>1, <4>2
      <4> QED
        BY <4>3
    <3>3. CASE OpenAndCloseReview(id)
      <4>1. PICK scope \in Scopes, at \in Stamps, sha \in Shas : Commit({Opening(id, scope, at, sha), Closing(id, at, sha)})
        BY <3>3 DEF OpenAndCloseReview
      <4>2. Opening(id, scope, at, sha).kind = REVIEW_OPENED /\ Closing(id, at, sha).kind = REVIEW_CLOSED
        BY DEF Opening, Closing
      <4>3. Harmless({Opening(id, scope, at, sha), Closing(id, at, sha)})
        BY <4>1, <4>2
      <4> QED
        BY <4>3
    <3>4. CASE Correct(id)
      <4>1. PICK target \in EventKeys, at \in Stamps, sha \in Shas : Commit({Correcting(id, target, at, sha)})
        BY <3>4 DEF Correct
      <4>2. Correcting(id, target, at, sha).kind = CORRECTION
        BY DEF Correcting
      <4>3. Harmless({Correcting(id, target, at, sha)})
        BY <4>1, <4>2
      <4> QED
        BY <4>3
    <3> QED
      BY <1>4, <3>1, <3>2, <3>3, <3>4
  <2>2. ledger' = ledger \cup events /\ charter' = charter
    BY <2>1 DEF Commit
  <2>3. \A e \in events : e.kind # CARVEOUT_RATIFIED /\ e.kind \notin TERMINAL_KINDS
    BY <1>0, <2>1
  <2> QED
    BY <2>2, <2>3 DEF EndsInOrder
<1>5. ASSUME UNCHANGED ledger, retired_non_goals(charter) \subseteq retired_non_goals(charter') PROVE EndsInOrder'
  BY <1>5 DEF EndsInOrder
<1>6. ASSUME EditCharter PROVE EndsInOrder'
  <2>1. PICK declared \in SUBSET NonGoalIds : IsFiniteSet(declared) /\ charter \in CharterOver(declared)
    BY DEF TypeOK, IsCharter
  <2>2. UNCHANGED ledger
    BY <1>6 DEF EditCharter, RetireNonGoal, SetBudget, SetConfig, SwitchProfile, RatifyCharter
  <2>3. retired_non_goals(charter) \subseteq retired_non_goals(charter')
    <3>1. ASSUME NEW ng, RetireNonGoal(ng) PROVE retired_non_goals(charter) \subseteq retired_non_goals(charter')
      BY <2>1, <3>1 DEF RetireNonGoal, CharterOver, NonGoal, retired_non_goals
    <3>2. ASSUME NEW ng, SetBudget(ng) PROVE retired_non_goals(charter) \subseteq retired_non_goals(charter')
      BY <2>1, <3>2 DEF SetBudget, CharterOver, NonGoal, retired_non_goals
    <3>3. ASSUME SetConfig \/ SwitchProfile \/ RatifyCharter
          PROVE  retired_non_goals(charter) \subseteq retired_non_goals(charter')
      BY <2>1, <3>3 DEF SetConfig, SwitchProfile, RatifyCharter, CharterOver, retired_non_goals
    <3> QED
      BY <1>6, <3>1, <3>2, <3>3 DEF EditCharter
  <2> QED
    BY <1>5, <2>2, <2>3
<1>7. ASSUME Tick \/ UNCHANGED vars PROVE EndsInOrder'
  BY <1>7 DEF Tick, vars, EndsInOrder
<1> QED
  BY <1>1, <1>2, <1>3, <1>4, <1>6, <1>7 DEF Next, Tightening, Relaxing

\* The carve-outs counted at an earlier instant are those an evaluation at
\* that instant finds active.
LEMMA CountedWereActive ==
  ASSUME TypeOK, EndsInOrder, NEW t \in 0 .. clock, NEW ng \in active_non_goals(charter)
  PROVE  CountedOf(StateAt(clock).carveouts, {ng}, t) = active_carveouts_for(StateAt(t), ng)
<1>1. clock \in Nat /\ t \in Nat /\ t <= clock /\ Ledger(ledger) /\ visible(ledger, clock) = ledger
  BY DEF TypeOK, Ledger, visible
<1>2. /\ StateAt(clock).carveouts = project_carveouts(charter, ledger, clock)
      /\ StateAt(t).carveouts = project_carveouts(charter, visible(ledger, t), t)
  BY <1>1 DEF StateAt, project
<1>3. ng \notin retired_non_goals(charter)
  BY DEF active_non_goals, retired_non_goals
<1>4. \A events, id : id \in ProjectedIds(events) <=> OfKind(events, CARVEOUT_RATIFIED, id) # {}
  BY DEF ProjectedIds, OfKind
<1>5. ASSUME NEW id
      PROVE  id \in CountedOf(StateAt(clock).carveouts, {ng}, t) <=> id \in active_carveouts_for(StateAt(t), ng)
  <2> DEFINE r == FirstOf(OfKind(ledger, CARVEOUT_RATIFIED, id))
             retired == FirstOf(OfKind(ledger, CARVEOUT_RETIRED, id))
             expired == FirstOf(OfKind(ledger, CARVEOUT_EXPIRED, id))
             life == lifecycle(r.expires_at, FALSE, retired, expired, clock)
             then == lifecycle(r.expires_at, FALSE, SeenBy(retired, t), SeenBy(expired, t), t)
             now == CarveOutState(charter, ledger, id, clock)
             earlier == CarveOutState(charter, visible(ledger, t), id, t)
  <2>1. /\ r # None <=> id \in ProjectedIds(ledger)
        /\ r # None => r \in ledger /\ r.kind = CARVEOUT_RATIFIED /\ r.id = id /\ r.at \in Nat
        /\ retired # None => retired \in ledger /\ retired.kind = CARVEOUT_RETIRED /\ retired.id = id
        /\ expired # None => expired \in ledger /\ expired.kind = CARVEOUT_EXPIRED /\ expired.id = id
    BY <1>1, <1>4, FirstIsPresent
  <2>2. /\ FirstOf(OfKind(visible(ledger, t), CARVEOUT_RATIFIED, id)) = SeenBy(r, t)
        /\ FirstOf(OfKind(visible(ledger, t), CARVEOUT_RETIRED, id)) = SeenBy(retired, t)
        /\ FirstOf(OfKind(visible(ledger, t), CARVEOUT_EXPIRED, id)) = SeenBy(expired, t)
    BY <1>1, FirstSeen
  <2>3. id \in ProjectedIds(visible(ledger, t)) <=> r # None /\ r.at <= t
    <3>1. Ledger(visible(ledger, t))
      BY <1>1, SubsetIsLedger DEF visible
    <3>2. SeenBy(r, t) # None <=> id \in ProjectedIds(visible(ledger, t))
      BY <1>4, <2>2, <3>1, FirstIsPresent
    <3> HIDE DEF r
    <3> QED
      BY <3>2 DEF SeenBy
  <2>4. now.non_goal = r.non_goal /\ now.ratified_at = r.at
    BY DEF CarveOutState
  <2>5. r.at <= t /\ r # None => earlier.non_goal = r.non_goal
    BY <2>2 DEF CarveOutState, SeenBy
  <2>6. CASE r # None /\ r.at <= t /\ r.non_goal = ng
    <3>1. now.status = life.status /\ now.terminal_at = life.terminal_at /\ earlier.status = then.status
      <4>1. (r.non_goal \in retired_non_goals(charter)) = FALSE
        BY <1>3, <2>6
      <4>2. SeenBy(r, t) = r
        BY <2>6 DEF SeenBy
      <4> QED
        BY <2>2, <4>1, <4>2 DEF CarveOutState
    <3>2. r.expires_at \in Nat \cup {None}
      BY <1>1, <2>1, <2>6, RatifiedFields DEF Ledger
    <3>3. \A e \in {retired, expired} : e # None => e.at \in 0 .. clock
      BY <1>1, <2>1, EventFields DEF TypeOK
    <3>4. retired = None \/ expired = None
      <4>1. CARVEOUT_RETIRED # CARVEOUT_EXPIRED /\ {CARVEOUT_RETIRED, CARVEOUT_EXPIRED} \subseteq TERMINAL_KINDS
        BY DEF CARVEOUT_RETIRED, CARVEOUT_EXPIRED, TERMINAL_KINDS
      <4> HIDE DEF retired, expired
      <4> QED
        BY <2>1, <4>1 DEF EndsInOrder
    <3>5. \A e \in {retired, expired} : e # None => r.expires_at = None \/ e.at <= r.expires_at
      <4>1. {CARVEOUT_RETIRED, CARVEOUT_EXPIRED} \subseteq TERMINAL_KINDS
        BY DEF TERMINAL_KINDS
      <4> HIDE DEF r, retired, expired
      <4> QED
        BY <1>3, <2>1, <2>6, <4>1 DEF EndsInOrder
    <3>6. life.status # MOOT /\ (then.status = ACTIVE <=> (life.terminal_at = None \/ t < life.terminal_at))
      <4> HIDE DEF r, retired, expired
      <4> QED
        BY <1>1, <3>2, <3>3, <3>4, <3>5, ActiveUntilItsEnd
    <3>7. id \in CountedOf(StateAt(clock).carveouts, {ng}, t) <=> (life.terminal_at = None \/ t < life.terminal_at)
      <4>1. id \in ProjectedIds(ledger) /\ StateAt(clock).carveouts[id] = now
              /\ id \in DOMAIN StateAt(clock).carveouts
        BY <1>2, <2>1, <2>6 DEF project_carveouts
      <4> HIDE DEF now, life, r
      <4> QED
        BY <2>4, <2>6, <3>1, <3>6, <4>1 DEF CountedOf, CountedAt, IntervalOf
    <3>8. id \in active_carveouts_for(StateAt(t), ng) <=> then.status = ACTIVE
      <4>1. StateAt(t).carveouts[id] = earlier /\ id \in DOMAIN StateAt(t).carveouts
        BY <1>2, <2>3, <2>6 DEF project_carveouts
      <4> HIDE DEF earlier, then, r
      <4> QED
        BY <2>5, <2>6, <3>1, <4>1 DEF active_carveouts_for, counts_toward_level
    <3> QED
      BY <3>6, <3>7, <3>8
  <2>7. CASE ~(r # None /\ r.at <= t /\ r.non_goal = ng)
    <3>1. id \notin CountedOf(StateAt(clock).carveouts, {ng}, t)
      <4> SUFFICES ASSUME id \in CountedOf(StateAt(clock).carveouts, {ng}, t) PROVE FALSE
        OBVIOUS
      <4>1. id \in ProjectedIds(ledger) /\ StateAt(clock).carveouts[id] = now
        BY <1>2 DEF project_carveouts, CountedOf
      <4> HIDE DEF now, r
      <4> QED
        BY <2>1, <2>4, <2>7, <4>1 DEF CountedOf, CountedAt, IntervalOf
    <3>2. id \notin active_carveouts_for(StateAt(t), ng)
      <4> SUFFICES ASSUME id \in active_carveouts_for(StateAt(t), ng) PROVE FALSE
        OBVIOUS
      <4>1. id \in ProjectedIds(visible(ledger, t)) /\ StateAt(t).carveouts[id] = earlier
        BY <1>2 DEF project_carveouts, active_carveouts_for
      <4> HIDE DEF earlier, r
      <4> QED
        BY <2>3, <2>5, <2>7, <4>1 DEF active_carveouts_for
    <3> QED
      BY <3>1, <3>2
  <2> QED
    BY <2>6, <2>7
<1>6. /\ \A id \in CountedOf(StateAt(clock).carveouts, {ng}, t) : id \in active_carveouts_for(StateAt(t), ng)
      /\ \A id \in active_carveouts_for(StateAt(t), ng) : id \in CountedOf(StateAt(clock).carveouts, {ng}, t)
  BY <1>5
<1> QED
  BY <1>6

\* The history the baselines are computed from is what was true then, in every
\* ledger without copies, late endings and backdated commits; LateTerminal.cfg
\* shows what a late ending does to it (projection._count_at).
THEOREM HistoryIsReplayed ==
  ASSUME InOrder
  PROVE  Spec => []ReplayAgreesWithHistory
<1>1. Init => EndsInOrder
  BY EndsInOrderInit
<1>2. TypeOK /\ TypeOK' /\ EndsInOrder /\ [Next]_vars => EndsInOrder'
  BY EndsInOrderStep
<1>3. TypeOK /\ EndsInOrder => ReplayAgreesWithHistory
  <2> SUFFICES ASSUME TypeOK, EndsInOrder, NEW t \in 0 .. clock, NEW ng \in active_non_goals(charter)
               PROVE  count_at(Intervals(StateAt(clock).carveouts), {ng}, t)
                        = Cardinality(active_carveouts_for(StateAt(t), ng))
    BY DEF ReplayAgreesWithHistory
  <2>1. CarveOuts(StateAt(clock).carveouts, clock) /\ clock \in Nat
    BY ProjectionShape DEF TypeOK
  <2> QED
    BY <2>1, CountIsOfCarveOuts, CountedWereActive
<1> QED
  BY <1>1, <1>2, <1>3, TypeCorrect, PTL DEF Spec
=============================================================================
