-------------------------- MODULE ReportProperties --------------------------
(***************************************************************************)
(* What a report promises its reader, over every repository CharterRepo    *)
(* can reach, every instant up to now and every set of touched non-goals.  *)
(***************************************************************************)
EXTENDS CharterRepo, Evaluation

\* The spec versions charters declare.
CONSTANT SpecVersions

DeclaredNow == DOMAIN charter.non_goals

EvaluateAt(spec, t, touched, fail_on_warning) ==
  evaluate(charter, spec, ledger, SettingsOf(charter), t, touched, fail_on_warning)

SupportedSpec == <<0, SPEC_MINOR>>
ReportAt(t) == EvaluateAt(SupportedSpec, t, {}, FALSE)

IntegrityCodes == Codes(Findings(DeclaredNow, total_order(ledger)))

-----------------------------------------------------------------------------
\* What an exit code of 0 stands for: a supported charter over a sound ledger,
\* nothing touched closed to amendment, or only for a draft; warnings count
\* when asked to.
Admits(path, sound, spec, touched, strict) ==
  LET closed == path.global_state = REVIEW_REQUIRED \/ \E ng \in touched : for_non_goal(path, ng) # OPEN
      warned == \/ spec[2] > SPEC_MINOR
                \/ active_non_goals(charter) = {}
                \/ charter.status = "draft" /\ closed
  IN  /\ sound
      /\ closed => charter.status = "draft"
      /\ strict => ~warned

ExitCodeIsTheDecision(report, sound, spec, touched, strict) ==
  IF spec = MALFORMED \/ spec[1] # 0
  THEN report.exit_code = 5
  ELSE report.exit_code = 0 <=> Admits(report.path, sound, spec, touched, strict)

\* The gate's decision now: a supported charter exits 0 exactly when the ledger
\* is sound and nothing touched is closed to amendment, or would be but for the
\* charter being a draft.  An unsupported one always exits 5, whatever the
\* ledger holds.
ExitZeroMeansAdmitted ==
  \A sound \in {IntegrityCodes = {}}, touched \in SUBSET DeclaredNow, strict \in BOOLEAN, spec \in SpecVersions :
    ExitCodeIsTheDecision(EvaluateAt(spec, clock, touched, strict), sound, spec, touched, strict)

NeverBetterThan(bag, strict) ==
  LET alone == worst_exit_code(bag, strict)
      Inconclusive(d) == exit_code_of(d) \notin CONCLUSIVE
      unread == \E d \in bag : Inconclusive(d)
  IN  \A more \in Diagnostics :
        LET joint == worst_exit_code(bag \cup {more}, strict)
        IN  /\ alone # OK => joint # OK
            /\ joint \notin CONCLUSIVE <=> unread \/ Inconclusive(more)

\* What a command adds to a report never makes the outcome look better: a
\* failure stays a failure, and a run that could not read its input or its
\* repository never ends with an exit code that means a conclusion.
MoreDiagnosticsNeverLookBetter ==
  \A bag \in {EvaluateAt(SupportedSpec, clock, DeclaredNow, FALSE).diagnostics}, strict \in BOOLEAN :
    NeverBetterThan(bag, strict)

\* A verdict names what it rests on: an open review is always named and
\* nothing else then is; otherwise every reason is a trigger that fired for
\* everyone or for a touched non-goal, and every violated non-goal has one.
ReasonsAreGrounded ==
  \A t \in 0 .. clock, touched \in SUBSET DeclaredNow :
    LET state   == project(charter, ledger, t)
        fired   == fired_of(evaluate_all(charter, state, SettingsOf(charter), t))
        verdict == compute_verdict(compute_path_state(state.reviews, fired), touched)
        Blames(r, ng) == r.scope \in {GLOBAL, ng} /\ TriggerCause(r) \in verdict.reasons
    IN  IF open_reviews(state.reviews) # {}
        THEN /\ verdict.kind = REVIEW_REQUIRED
             /\ verdict.reasons = {ReviewCause(id) : id \in open_reviews(state.reviews)}
        ELSE /\ verdict.kind = VIOLATION <=>
                  \E r \in fired : r.scope \in touched \/ (r.scope = GLOBAL /\ touched # {})
             /\ verdict.non_goals \subseteq touched
             /\ \A ng \in verdict.non_goals : \E r \in fired : Blames(r, ng)
             /\ \A reason \in verdict.reasons :
                  \E r \in fired, ng \in verdict.non_goals :
                    Blames(r, ng) /\ reason = TriggerCause(r)

\* On one path, a part of a change gets no worse a verdict than the whole.
SplittingNeverHelps(path) ==
  \A more \in SUBSET DeclaredNow : \A part \in SUBSET more :
    LET whole   == compute_verdict(path, more)
        verdict == compute_verdict(path, part)
    IN  /\ verdict.kind # PASS => whole.kind # PASS
        /\ verdict.non_goals \subseteq whole.non_goals
        /\ verdict.reasons \subseteq whole.reasons

\* Splitting a change cannot get it through: touching more non-goals never
\* turns a blocked change into an admitted one, nor drops a violated non-goal.
TouchingMoreNeverHelps == \A t \in 0 .. clock : SplittingNeverHelps(ReportAt(t).path)

-----------------------------------------------------------------------------
(* A reader checks a report by its own facts.                              *)

FactsOf(report) == Range(report.facts.events)

\* The file that counts for an id, of the ones an evaluation at `t` sees.
Ratified(id, t) == FirstOf(OfKind(visible(ledger, t), CARVEOUT_RATIFIED, id))

\* The ratifications a reader of the facts would count for a trigger.
Recounted(ratifications, settings, t, trigger_id, scope) ==
  LET Active(f, ngs) == f.status = ACTIVE /\ Ratified(f.event_key[1], t).non_goal \in ngs
      Recent(f)      == /\ f.status # MOOT /\ ~f.historical
                        /\ LET left == Ratified(f.event_key[1], t).at + settings.density_window_days - t
                           IN  left > 0 \/ (left = 0 /\ settings.window_boundary = "inclusive")
  IN  {f.event_key : f \in {g \in ratifications :
                              CASE trigger_id = PER_ID     -> Active(g, {scope})
                                [] trigger_id = CUMULATIVE -> Active(g, active_non_goals(charter))
                                [] trigger_id = DENSITY    -> Recent(g)}}

SupportedByFacts(report, settings, t) ==
  LET ratifications == {f \in FactsOf(report) : f.event_key[2] = CARVEOUT_RATIFIED}
  IN  \A r \in report.triggers :
        /\ r.contributing = Recounted(ratifications, settings, t, r.trigger_id, r.scope)
        /\ r.observed = Cardinality(r.contributing)
        /\ r.fired => r.margin > 0 \/ (r.trigger_id = DENSITY /\ r.margin = 0)

\* The engine's numbers can be recounted from the statuses it shows: a level
\* trigger counts the carve-outs shown active against its non-goals, density
\* those in the window that are shown neither moot nor historical, each id
\* once, whatever files repeat it; and what fires is over its threshold.
FactsSupportTheTriggers ==
  \A t \in 0 .. clock : SupportedByFacts(ReportAt(t), SettingsOf(charter), t)

\* No recorded ending is lost: what a report shows active or open has neither
\* ended nor expired by any file the evaluation sees, wherever in the order
\* that file is, and everything else with an origin is shown ended.
ShownInForceExactlyWhileInForce ==
  \A t \in 0 .. clock : \A f \in FactsOf(ReportAt(t)) :
    LET id == f.event_key[1]
        Seen(kind) == OfKind(visible(ledger, t), kind, id) # {}
    IN  CASE id \in CarveOutIds /\ Seen(CARVEOUT_RATIFIED) ->
               f.status = ACTIVE <=>
                 /\ ~Seen(CARVEOUT_RETIRED) /\ ~Seen(CARVEOUT_EXPIRED)
                 /\ Ratified(id, t).expires_at # None => t < Ratified(id, t).expires_at
                 /\ Ratified(id, t).non_goal \notin retired_non_goals(charter)
          [] id \in ReviewIds /\ Seen(REVIEW_OPENED) ->
               f.status = (IF Seen(REVIEW_CLOSED) THEN CLOSED ELSE OPEN)
          [] OTHER -> f.status = None

\* explain_event "can never disagree with what a report says": every fact
\* with the key tells the same lifecycle, also when several files claim it.
EventExplanationAgreesWithFacts ==
  \A t \in 0 .. clock :
    LET state == project(charter, ledger, t)
        facts == FactsOf(ReportAt(t))
    IN  \A key \in EventKeys :
          LET told  == explain_event(state, key)
          IN  /\ told.found <=> \E f \in facts : f.event_key = key
              /\ \A f \in facts :
                   f.event_key = key =>
                     /\ f.status = told.status /\ f.historical = told.historical
                     /\ told.committed_at <= f.committed_at

-----------------------------------------------------------------------------
(* Statements of the repository that the code does not keep.               *)

\* "an explanation can never disagree with the report it explains".
ExplanationAgreesWithVerdict ==
  \A ng \in DeclaredNow :
    LET state == project(charter, ledger, clock)
        path  == compute_path_state(state.reviews, evaluate_all(charter, state, SettingsOf(charter), clock))
    IN  explain_path(path, ng).causes \subseteq compute_verdict(path, {ng}).reasons

\* "The raw counts every trigger decision was made from."
DensityFactIsTheCountDecidedOn ==
  LET state == project(charter, ledger, clock)
  IN  count_facts(charter, state).density = density(state, SettingsOf(charter), clock).observed

\* An evaluation "as of instant X" must not see what has not happened yet.
PastReportIgnoresTheFuture ==
  \A t \in 0 .. clock, spec \in SpecVersions :
    evaluate(charter, spec, ledger, SettingsOf(charter), t, DeclaredNow, FALSE).exit_code
      = evaluate(charter, spec, visible(ledger, t), SettingsOf(charter), t, DeclaredNow, FALSE).exit_code

\* "every lifecycle event (retire, expire, close) refers to something that
\* actually exists": only an event whose origin is in no file is an orphan.
OrphansHaveNoOrigin ==
  LET stream == total_order(ledger)
  IN  \A i \in DOMAIN stream :
        Orphan(stream, i) =>
          \A e \in ledger : e.id = stream[i].id /\ e.kind = OriginOf(stream[i].kind)
                              => e.at > stream[i].at
=============================================================================
