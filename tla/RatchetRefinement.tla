------------------------- MODULE RatchetRefinement --------------------------
(***************************************************************************)
(* CharterRepo implements Ratchet.  The abstract level, baseline and       *)
(* reviews of a scope are what an evaluation now derives; three variables  *)
(* follow them so that every step of the repository shows the abstract     *)
(* step it takes.                                                          *)
(***************************************************************************)
EXTENDS RepoProperties

VARIABLES level, baseline, reviewed
observedVars == <<charter, ledger, clock, level, baseline, reviewed>>

\* Every non-goal, and the charter as a whole.
Watched == NonGoalIds \cup {GLOBAL}

LevelOf(c, state) ==
  [s \in Watched |->
     IF s = GLOBAL
     THEN Cardinality(UNION {active_carveouts_for(state, ng) : ng \in active_non_goals(c)})
     ELSE Cardinality(active_carveouts_for(state, s))]

BaselineOf(state) ==
  [s \in Watched |-> IF s = GLOBAL THEN state.cumulative ELSE for_non_goal_baseline(state, s)]

\* The closures that set a baseline; what is not in force has none.
ReviewedOf(c, state) ==
  [s \in Watched |->
     CASE s = GLOBAL /\ active_non_goals(c) # {}   -> GlobalClosures(state.reviews, state.evaluated_at)
       [] s # GLOBAL /\ s \in active_non_goals(c) -> CoveringClosures(state.reviews, s, state.evaluated_at)
       [] OTHER                                   -> {}]

ObservedInit ==
  /\ Init
  /\ level = LevelOf(charter, project(charter, ledger, clock))
  /\ baseline = BaselineOf(project(charter, ledger, clock))
  /\ reviewed = ReviewedOf(charter, project(charter, ledger, clock))

ObservedNext ==
  /\ Next
  /\ level' = LevelOf(charter', project(charter', ledger', clock'))
  /\ baseline' = BaselineOf(project(charter', ledger', clock'))
  /\ reviewed' = ReviewedOf(charter', project(charter', ledger', clock'))

ObservedSpec == ObservedInit /\ [][ObservedNext]_observedVars

R == INSTANCE Ratchet WITH level <- level, baseline <- baseline, reviewed <- reviewed,
                           Watched <- Watched, None <- None

\* The counts the level triggers watch and their baselines, as projected from
\* the ledger, behave as the ratchet of A2 promises: a baseline falls with its
\* count and rises only when a covering review closes.
ImplementsRatchet == R!Spec
=============================================================================
