------------------------------ MODULE Triggers ------------------------------
(***************************************************************************)
(* The three triggers (triggers/*.py, window.py), the amendment-path state *)
(* (paths.py) and the guardian verdict (verdict.py).                       *)
(*                                                                         *)
(* `settings` is a record of resolved settings (settings.py); the ratio    *)
(* setting is a fraction <<num, den>>, and a ratio over the active         *)
(* non-goals is compared with it by cross-multiplication.                  *)
(***************************************************************************)
EXTENDS Projection

PER_ID     == "per_id"
CUMULATIVE == "cumulative"
DENSITY    == "density"
GLOBAL     == "global"

\* Charter.budget_for, whose fallback is the resolved default.
budget_for(charter, ng, fallback) ==
  IF charter.non_goals[ng].budget = None THEN fallback ELSE charter.non_goals[ng].budget

\* Mutant: the comparison with the start of the window reversed.
before_window(ts, at, days, boundary) == ts <= at /\ at - days >= ts
in_window(ts, at, days, boundary) ==
  /\ ts <= at
  /\ IF boundary = "inclusive" THEN at - days <= ts ELSE at - days < ts

-----------------------------------------------------------------------------
(* Triggers.  Each operator gives the TriggerResult of one evaluation.     *)

\* Mutants: standing still at the baseline fires; the baseline is ignored.
at_baseline(observed, baseline) == baseline = None \/ observed >= baseline
any_baseline(observed, baseline) == TRUE
above_baseline(observed, baseline) == baseline = None \/ observed > baseline

\* The ratifications a result counts, named by their event keys.
Ratifications(ids) == {<<id, CARVEOUT_RATIFIED>> : id \in ids}

per_id(charter, state, settings, ng) ==
  LET counted   == active_carveouts_for(state, ng)
      observed  == Cardinality(counted)
      threshold == budget_for(charter, ng, settings.default_carveout_budget)
      baseline  == for_non_goal_baseline(state, ng)
  IN  [trigger_id   |-> PER_ID, scope |-> ng, observed |-> observed,
       threshold    |-> threshold,
       baseline     |-> baseline,
       margin       |-> observed - threshold,
       contributing |-> Ratifications(counted),
       fired        |-> observed > threshold /\ above_baseline(observed, baseline)]

\* observed and baseline are numerators over the number of active non-goals;
\* margin is the numerator over that times the threshold's denominator.
\* Without an active non-goal the ratio is 0 and the trigger cannot fire (A5).
cumulative(charter, state, settings) ==
  LET ngs       == active_non_goals(charter)
      counted   == UNION {active_carveouts_for(state, ng) : ng \in ngs}
      observed  == Cardinality(counted)
      baseline  == state.cumulative
      threshold == settings.cumulative_ratio
      margin    == observed * threshold[2] - threshold[1] * (IF ngs = {} THEN 1 ELSE Cardinality(ngs))
  IN  [trigger_id   |-> CUMULATIVE, scope |-> GLOBAL, observed |-> observed,
       threshold    |-> threshold,
       baseline     |-> baseline,
       margin       |-> margin,
       contributing |-> Ratifications(counted),
       fired        |-> ngs # {} /\ margin > 0 /\ above_baseline(observed, baseline)]

\* Mutant: the lifetime count instead of the trailing window.
velocity_ever(state, settings, at) ==
  {id \in DOMAIN state.carveouts : counts_toward_velocity(state.carveouts[id])}
in_range(state, settings, at) ==
  {id \in DOMAIN state.carveouts :
     /\ counts_toward_velocity(state.carveouts[id])
     /\ in_window(state.carveouts[id].ratified_at, at,
                  settings.density_window_days, settings.window_boundary)}

density(state, settings, at) ==
  LET counted  == in_range(state, settings, at)
      observed == Cardinality(counted)
  IN  [trigger_id   |-> DENSITY, scope |-> GLOBAL, observed |-> observed,
       threshold    |-> settings.density_threshold,
       baseline     |-> None,
       margin       |-> observed - settings.density_threshold,
       contributing |-> Ratifications(counted),
       fired        |-> observed >= settings.density_threshold]

evaluate_all(charter, state, settings, at) ==
  {per_id(charter, state, settings, ng) : ng \in active_non_goals(charter)}
    \cup {density(state, settings, at), cumulative(charter, state, settings)}

fired_of(results) == {r \in results : r.fired}

-----------------------------------------------------------------------------
(* The amendment path and the verdict.                                     *)

REVIEW_REQUIRED == "review_required"
PASS      == "PASS"
VIOLATION == "VIOLATION"

\* A cause names a trigger or an open review.
TriggerCause(r) == <<"trigger", r.trigger_id>>
ReviewCause(id) == <<"review", id>>

compute_path_state(reviews, results) ==
  LET scoped      == {r \in fired_of(results) : r.scope # GLOBAL}
      global      == {TriggerCause(r) : r \in {f \in fired_of(results) : f.scope = GLOBAL}}
      reviewing   == {ReviewCause(id) : id \in open_reviews(reviews)}
      globalState == CASE reviewing # {}                 -> REVIEW_REQUIRED
                       [] reviewing = {} /\ global # {}  -> CLOSED
                       [] OTHER                          -> OPEN
      scopes      == {r.scope : r \in scoped}
  IN  [global_state |-> globalState,
       closed       |-> scopes,
       causes       |-> [s \in scopes \cup (IF globalState = OPEN THEN {} ELSE {GLOBAL}) |->
                           CASE s \in scopes -> {TriggerCause(r) : r \in {f \in scoped : f.scope = s}}
                             [] s = GLOBAL   -> IF reviewing # {} THEN reviewing ELSE global]]

\* causes.get(scope, ())
causes_of(path, scope) == IF scope \in DOMAIN path.causes THEN path.causes[scope] ELSE {}

for_non_goal(path, ng) ==
  CASE path.global_state # OPEN                       -> path.global_state
    [] path.global_state = OPEN /\ ng \in path.closed -> CLOSED
    [] OTHER                                          -> OPEN

\* Mutant: one open non-goal among the touched ones opens them all.
violated_only_together(path, touched) ==
  {ng \in touched : \A other \in touched : for_non_goal(path, other) = CLOSED}
violated_of(path, touched) == {ng \in touched : for_non_goal(path, ng) = CLOSED}

\* Mutant: the global causes forgotten.
no_reasons(path) == {}
global_reasons(path) == IF path.global_state = CLOSED THEN causes_of(path, GLOBAL) ELSE {}

compute_verdict(path, touched) ==
  LET violated == violated_of(path, touched)
      own      == UNION {causes_of(path, ng) : ng \in violated}
      Verdict(kind, non_goals, reasons) ==
        [kind |-> kind, non_goals |-> non_goals, reasons |-> reasons]
  IN  CASE path.global_state = REVIEW_REQUIRED
             -> Verdict(REVIEW_REQUIRED, {}, causes_of(path, GLOBAL))
        [] path.global_state # REVIEW_REQUIRED /\ violated = {} -> Verdict(PASS, {}, {})
        [] OTHER -> Verdict(VIOLATION, violated,
                            own \cup global_reasons(path))
=============================================================================
