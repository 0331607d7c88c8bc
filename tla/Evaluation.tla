----------------------------- MODULE Evaluation -----------------------------
(***************************************************************************)
(* evaluate.py: one report from a charter, a ledger and an instant; the    *)
(* per-event part of models/state.py; and explain.py.                      *)
(*                                                                         *)
(* An invocation carries what the caller chooses: the instant `at`, the    *)
(* touched non-goals and the fail_on_warning switch.  `spec` is the spec   *)
(* version the charter declares.                                           *)
(***************************************************************************)
EXTENDS Triggers, Settings, Integrity, ExitCodes

-----------------------------------------------------------------------------
(* The lifecycle of one event (LedgerState).                               *)

\* LedgerState.find: of the files that share a key, the first in the order.
find(state, key) == FirstOf({e \in state.ordered : event_key(e) = key})

\* Mutant: the carve-out of a terminal event is looked up by its own kind.
status_unless_terminal(state, e) ==
  IF e.kind \in TERMINAL_KINDS THEN RETIRED
  ELSE IF e.id \in DOMAIN state.carveouts THEN state.carveouts[e.id].status
  ELSE IF e.id \in DOMAIN state.reviews THEN state.reviews[e.id].status ELSE None
status_of(state, e) ==
  CASE e.kind \in TERMINAL_KINDS \cup {CARVEOUT_RATIFIED}
         -> IF e.id \in DOMAIN state.carveouts THEN state.carveouts[e.id].status ELSE None
    [] e.kind \in {REVIEW_OPENED, REVIEW_CLOSED}
         -> IF e.id \in DOMAIN state.reviews THEN state.reviews[e.id].status ELSE None
    [] e.kind = CORRECTION -> None

\* Mutant: a later file of the same ratification is not historical.
historical_file_only(state, e) ==
  /\ e.kind = CARVEOUT_RATIFIED /\ e.id \in DOMAIN state.carveouts
  /\ state.carveouts[e.id].historical /\ e.at = state.carveouts[e.id].ratified_at
historical_of(state, e) ==
  e.kind = CARVEOUT_RATIFIED /\ e.id \in DOMAIN state.carveouts /\ state.carveouts[e.id].historical

-----------------------------------------------------------------------------
(* The facts of a report.                                                  *)

\* EventFact; its order_index is the position in the sequence.
EventFact(state, e) ==
  [event_key |-> event_key(e), path |-> e.path, commit_sha |-> e.sha, committed_at |-> e.at,
   status |-> status_of(state, e), historical |-> historical_of(state, e)]

event_facts(state) ==
  LET stream == total_order(state.ordered)
  IN  [index \in DOMAIN stream |-> EventFact(state, stream[index])]

\* CountFacts: the density fact counts the lifetime, not the window.
count_facts(charter, state) ==
  [per_non_goal |-> [ng \in active_non_goals(charter) |->
                       Cardinality(active_carveouts_for(state, ng))],
   density      |-> Cardinality({id \in DOMAIN state.carveouts :
                                   counts_toward_velocity(state.carveouts[id])}),
   cumulative_numerator   |->
     Cardinality(UNION {active_carveouts_for(state, ng) : ng \in active_non_goals(charter)}),
   cumulative_denominator |-> Cardinality(active_non_goals(charter))]

\* Mutant: an open review is not an error.
violations_only(status, verdict) ==
  CASE status = "ratified" /\ verdict.kind = VIOLATION -> {"E0701"}
    [] status = "draft" /\ verdict.kind # PASS         -> {"W1004"}
    [] OTHER                                           -> {}

\* What the verdict adds to the diagnostics: a draft charter never blocks.
verdict_diagnostics(status, verdict) ==
  CASE status = "ratified" /\ verdict.kind = VIOLATION       -> {"E0701"}
    [] status = "ratified" /\ verdict.kind = REVIEW_REQUIRED -> {"E0702"}
    [] status = "draft" /\ verdict.kind # PASS               -> {"W1004"}
    [] verdict.kind = PASS                                   -> {}

\* _build_facts, with the baselines as the projection has them.
build_facts(charter, state) ==
  [events    |-> event_facts(state),
   counts    |-> count_facts(charter, state),
   baselines |-> [per_non_goal |-> state.per_non_goal, cumulative |-> state.cumulative]]

\* A draft caps the conformance claim at CL-2.
conformance_ceiling(charter) ==
  IF charter.status = "draft" THEN 2 ELSE PROFILES[charter.profile].max_conformance_level

Report(charter, bag, fail_on_warning, settings, facts, triggers, path, verdict) ==
  [profile     |-> charter.profile,
   status      |-> charter.status,
   conformance_ceiling |-> conformance_ceiling(charter),
   settings    |-> settings,
   facts       |-> facts,
   triggers    |-> triggers,
   diagnostics |-> bag,
   result      |-> IF has_errors(bag) THEN "fail" ELSE "pass",
   exit_code   |-> worst_exit_code(bag, fail_on_warning),
   path        |-> path,
   verdict     |-> verdict]

\* What a report says when the spec version keeps it from an evaluation.
NoFacts ==
  [events |-> <<>>,
   counts |-> [per_non_goal |-> [ng \in {} |-> 0], density |-> 0,
               cumulative_numerator |-> 0, cumulative_denominator |-> 0],
   baselines |-> [per_non_goal |-> [ng \in {} |-> 0], cumulative |-> None]]
NoVerdict == [kind |-> PASS, non_goals |-> {}, reasons |-> {}]
OpenPath == [global_state |-> OPEN, closed |-> {}, causes |-> [s \in {} |-> {}]]

\* The integrity check sees every event handed in, the projection only those
\* committed at or before `at`.
evaluate(charter, spec, events, settings, at, touched, fail_on_warning) ==
  LET negotiation == negotiate(spec)
      negotiated  == {negotiation} \ {"ok"}
      integrity   == Codes(Findings(DOMAIN charter.non_goals, total_order(events)))
      state       == project(charter, events, at)
      results     == evaluate_all(charter, state, settings, at)
      triggered   == IF active_non_goals(charter) = {} THEN {"W1003"} ELSE {}
      path        == compute_path_state(state.reviews, results)
      verdict     == compute_verdict(path, touched)
  IN  IF ~can_evaluate(negotiation)
      THEN Report(charter, negotiated, fail_on_warning, NoKeys, NoFacts, {}, OpenPath, NoVerdict)
      ELSE Report(charter,
                  negotiated \cup integrity \cup triggered
                    \cup verdict_diagnostics(charter.status, verdict),
                  fail_on_warning, settings.provenance, build_facts(charter, state), results,
                  path, verdict)

-----------------------------------------------------------------------------
(* Explanations.                                                           *)

\* explain_trigger: the result at one trigger and scope, if there is one.
explain_trigger(results, trigger_id, scope) ==
  LET matching == {r \in results : r.trigger_id = trigger_id /\ r.scope = scope}
  IN  IF matching = {}
      THEN [found |-> FALSE, fired |-> FALSE, margin |-> None, contributing |-> {}]
      ELSE LET r == CHOOSE r \in matching : TRUE
           IN  [found |-> TRUE, fired |-> r.fired, margin |-> r.margin,
                contributing |-> r.contributing]

\* explain_path: the closure and the causes named for one scope.
explain_path(path, scope) ==
  LET closure == IF scope = GLOBAL THEN path.global_state ELSE for_non_goal(path, scope)
      own     == causes_of(path, scope)
  IN  [closure |-> closure,
       causes  |-> IF own = {} /\ scope # GLOBAL /\ closure # OPEN
                   THEN causes_of(path, GLOBAL) ELSE own]

\* explain_event: what the engine derived for the first event with a key.
explain_event(state, key) ==
  LET e == find(state, key)
  IN  IF e = None
      THEN [found |-> FALSE, committed_at |-> None, status |-> None, historical |-> FALSE]
      ELSE [found |-> TRUE, committed_at |-> e.at, status |-> status_of(state, e),
            historical |-> historical_of(state, e)]
=============================================================================
