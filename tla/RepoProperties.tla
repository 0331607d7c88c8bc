--------------------------- MODULE RepoProperties ---------------------------
(***************************************************************************)
(* What the ratchet, the triggers and the amendment path promise over the  *)
(* life of a repository, stated over CharterRepo.                          *)
(***************************************************************************)
EXTENDS CharterRepo

\* What an evaluation at `t` derives.
StateAt(t) == project(charter, ledger, t)

CoveringNow(ng) == CoveringClosures(StateAt(clock).reviews, ng, clock)
GlobalNow == GlobalClosures(StateAt(clock).reviews, clock)

-----------------------------------------------------------------------------
\* A review that closed stays closed unless the boundary erodes further: a
\* level trigger that fires although a review covering its scope has closed
\* counts a carve-out ratified after the last such closure (A2: "standing
\* still after a review does not re-fire").
RefireNeedsErosion ==
  LET state == StateAt(clock)
      ErodedSince(ngs, closures) ==
        \E id \in UNION {active_carveouts_for(state, ng) : ng \in ngs} :
          state.carveouts[id].ratified_at > Max(closures)
  IN  \A r \in fired_of(evaluate_all(charter, state, SettingsOf(charter), clock)) :
        /\ r.trigger_id = PER_ID /\ CoveringNow(r.scope) # {}
             => ErodedSince({r.scope}, CoveringNow(r.scope))
        /\ r.trigger_id = CUMULATIVE /\ GlobalNow # {}
             => ErodedSince(active_non_goals(charter), GlobalNow)

\* The few instants floor_since and _cumulative_baseline look at are enough:
\* the baseline is the least count at any instant from the last covering
\* closure to now (the argument in the docstring of _floor_since).
FloorIsRunningMinimum ==
  LET state     == StateAt(clock)
      intervals == Intervals(state.carveouts)
      Least(ngs, since) == Min({count_at(intervals, ngs, t) : t \in since .. clock})
  IN  /\ \A ng \in DOMAIN state.per_non_goal :
           state.per_non_goal[ng] = Least({ng}, Max(CoveringNow(ng)))
      /\ state.cumulative # None
           => state.cumulative = Least(active_non_goals(charter), Max(GlobalNow))

\* The history the baselines are computed from is what was true then: at
\* every earlier instant the intervals count exactly the carve-outs that an
\* evaluation at that instant finds active.
ReplayAgreesWithHistory ==
  LET intervals == Intervals(StateAt(clock).carveouts)
  IN  \A t \in 0 .. clock, ng \in active_non_goals(charter) :
        count_at(intervals, {ng}, t) = Cardinality(active_carveouts_for(StateAt(t), ng))

-----------------------------------------------------------------------------
\* The scopes a trigger fires for, over a given charter, ledger and instant.
Fired(c, events, t) ==
  {<<r.trigger_id, r.scope>> :
     r \in fired_of(evaluate_all(c, project(c, events, t), SettingsOf(c), t))}

\* How closed the amendment path is for a non-goal.
Closedness(path, ng) ==
  CASE for_non_goal(path, ng) = OPEN            -> 0
    [] for_non_goal(path, ng) = CLOSED          -> 1
    [] for_non_goal(path, ng) = REVIEW_REQUIRED -> 2

Path(c, events, t) ==
  LET state == project(c, events, t)
  IN  compute_path_state(state.reviews, evaluate_all(c, state, SettingsOf(c), t))

TimeRelaxes ==
  Tick => LET before == Path(charter, ledger, clock)
              after  == Path(charter', ledger', clock')
          IN  /\ Fired(charter', ledger', clock') \subseteq Fired(charter, ledger, clock)
              /\ \A ng \in DOMAIN charter.non_goals : Closedness(after, ng) <= Closedness(before, ng)

\* Time only relaxes: while nothing is committed, advancing the instant never
\* makes a trigger fire that did not, nor closes a path that was open.
TimeOnlyRelaxes == [][TimeRelaxes]_vars

\* What a commit ends is still open, or it is dated now, and no review is
\* opened twice: neither the end nor the scope of what has ended moves.
EndsWhatIsOpen ==
  \A e \in ledger' \ ledger :
    /\ e.kind = REVIEW_OPENED => ~Has(REVIEW_OPENED, e.id)
    /\ e.at # clock =>
         /\ e.kind = REVIEW_CLOSED => ~Has(REVIEW_CLOSED, e.id)
         /\ e.kind \in TERMINAL_KINDS => ~Ended(e.id) /\ ~AlreadyExpired(e.id)

RelaxesUnlessRatified ==
  LET new == ledger' \ ledger
  IN  new # {} /\ (\A e \in new : e.kind # CARVEOUT_RATIFIED) /\ EndsWhatIsOpen
        => Fired(charter', ledger', clock') \subseteq Fired(charter, ledger, clock)

\* Only ratifications tighten: no retirement, attestation, opening, closure or
\* correction makes a trigger fire that did not, a commit with an earlier
\* committer time included.
OnlyRatificationTightens == [][RelaxesUnlessRatified]_vars

-----------------------------------------------------------------------------
DensityNow(c, events, t) == density(project(c, events, t), SettingsOf(c), t)

\* Density fires on amendment activity only: enough distinct carve-outs were
\* ratified after the genesis marker (A11), inside the trailing window, against
\* non-goals still in force or at least not retired (A12).
DensityNeedsActivity ==
  DensityNow(charter, ledger, clock).fired =>
    LET settings == SettingsOf(charter)
        recent ==
          {e \in ledger :
             /\ e.kind = CARVEOUT_RATIFIED
             /\ charter.adopted_at = None \/ e.at > charter.adopted_at
             /\ e.at + settings.density_window_days >= clock
             /\ settings.window_boundary = "exclusive" =>
                  e.at + settings.density_window_days # clock
             /\ e.non_goal \notin retired_non_goals(charter)}
    IN  Cardinality({e.id : e \in recent}) >= settings.density_threshold

\* Density is self-relaxing (A1): once ratifications stop, it stops firing for
\* good without a review, however the burst was spread.
DensityEventuallyRelaxes == <>[](~DensityNow(charter, ledger, clock).fired)

-----------------------------------------------------------------------------
(* Statements of the repository that the code does not keep.               *)

BaselineIn(c, events, t) == project(c, events, t).per_non_goal

\* "the baseline then only ever moves down": without a new closure no step
\* raises the baseline of a non-goal.
BaselineOnlyMovesDown ==
  [][LET before == BaselineIn(charter, ledger, clock)
         after  == BaselineIn(charter', ledger', clock')
     IN  (\A e \in ledger' \ ledger : e.kind # REVIEW_CLOSED) =>
           \A ng \in DOMAIN before \cap DOMAIN after : after[ng] <= before[ng]]_vars
=============================================================================
