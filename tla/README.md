# A verification development for charter-kit

charter-kit lets a repository declare *non-goals* in `charter.yaml` and record every
exception to them, a *carve-out*, as a file of an append-only `ledger/`. A pure engine
(`packages/core`, the package `charter_core`) reads the charter and the ledger and decides
whether the amendment path is open: whether more carve-outs may be ratified, or a charter
review has to be held first. The engine stores nothing. Everything it says at an instant
is recomputed from the charter, from the events and from the committer timestamps of the
commits that introduced them.

That is what makes it hard to test. A unit test fixes one ledger and one instant. What the
design promises ("a review that closed does not re-fire while the boundary stands still", "a
baseline only ever moves down", "profiles are presets, not code paths") is about *sequences*
of commits, edits and evaluations, or about *every* document and its path from text to
setting. The modules here state those promises over every sequence: TLC checks them on small
instances, TLAPS proves the safety properties that the passing runs check for all instances,
two of them (`ReplayAgreesWithHistory` and the refinement of the ratchet) for ledgers in good
order only.

## 1. The system

| part | source (`packages/core/src/charter_core/`) | state it keeps | operations |
|---|---|---|---|
| event model and order | `models/events.py`, `models/state.py`, `ordering.py`, `ids.py` | none (immutable values) | `event_key`, `order_key`, `total_order` |
| projection | `projection.py` | none | `project`: carve-outs, reviews, intervals, baselines |
| triggers | `triggers/*`, `window.py` | none | `per_id`, `density`, `cumulative`, `evaluate_all` |
| path and verdict | `paths.py`, `verdict.py` | none | `compute_path_state`, `compute_verdict` |
| integrity | `integrity.py` | the sets of one pass | `check_integrity` |
| evaluation | `evaluate.py`, `models/report.py` | none | `evaluate`, `_build_facts` |
| diagnostics | `diagnostics.py`, `errors.py` | a bag per evaluation | `worst_exit_code` |
| versions | `version.py` | none | `negotiate` |
| explanations | `explain.py` | none | `explain_path`, `explain_trigger`, `explain_event`, `explain_setting` |
| settings | `settings.py`, `profiles.py`, `models/charter.py` | none | `resolve_settings`: config, profile preset, schema default, with provenance |
| document decoding | `codec.py` | the position and document count of one parse | `decode`: guards, an inspecting parse, a loading parse, a root check |
| field types | `models/common.py`, `models/charter.py` | none | strict and cross-type rules, bounds, nullable and required fields |
| schema export | `schema_export.py` | none | `_normalise`, `_stamp_effective_defaults`, generation |
| repository (outside) | seen through `models/charter.py`, `models/events.py`, `ports.py` | charter, ledger, clock | commits, charter edits, time |
| command line | `packages/cli` | none | exit codes only, so far |

**How they interact.** A document goes through `decode` and the field types to become a
`Charter` or an event; `resolve_settings` layers the charter's config over its profile and
the schema's defaults. `evaluate` negotiates the spec version (an unsupported major ends
it), runs `check_integrity` over the *whole* event stream in the total order, calls
`project` for the events up to the instant, hands the state and the settings to every
trigger, turns the results into a path state and that, with the touched non-goals, into a
verdict. Findings and verdict fill a diagnostic bag, from which the result and the exit
code follow. There are no threads, callbacks, messages, retries or stored state in the
source at this commit; the git adapters, the gate, the command line's commands and the MCP
server are announced by the documents and are not there yet.

**What is hard.** The concurrency of the system is between *committers*, who append events
in any order, at the same instant, late, twice, with a clock that runs backwards or in one
squash commit, *editors* of the policy, and *evaluations*, which take any instant, also a
past one. The hazards listed in `PROJECT.json` come down to:

* replaying history: intervals, closures and minima recomputed from today's ledger and
  compared with today's thresholds;
* boundaries: an expiry at its instant, a window exactly full, a tie of instants, an
  explicit zero beside an absent value;
* several readings of one thing: the integrity pass in order and the projection by id; the
  facts and the triggers; the inspecting parse and the loading parse; the engine's types
  and the schema it publishes;
* many causes at once: open reviews, global and scoped triggers, drafts, warnings.

**What makes each part correct.** Order: total and independent of reading order.
Projection: the replayed past is the past that was seen. Triggers: level triggers fire
only on new erosion, density only on recent activity and not for ever. Path and verdict:
what blocks is what is named. Integrity: exactly the violations. Evaluation: the exit code
says what the gate may do, and the report's facts support its triggers. Settings: a value
has a source that leads to it. Decoding: exactly the safe dialect. Schema: it accepts what
the engine accepts.

## 2. The modules

| module | models | remarks |
|---|---|---|
| `LedgerEvents` | the event union, keys, paths, `total_order` | ids, instants and shas are naturals, used for their order only |
| `Projection` | `projection.py` | EXTENDS `LedgerEvents`; pure operators with the source's names |
| `Triggers` | `triggers/*`, `window.py`, `paths.py`, `verdict.py` | EXTENDS `Projection` |
| `Absent`, `Settings` | `settings.py`, `profiles.py`, the config models | every key, the nested approval policy included, with provenance |
| `CharterRepo` | the repository: `charter`, `ledger`, `clock` | one action per kind of commit, per charter edit, and `Tick` |
| `RepoProperties`, `PolicyProperties` | properties over `CharterRepo` | the second while the policy is edited |
| `Ratchet` | the abstract promise of decision A2 | three variables, four kinds of step |
| `RatchetRefinement` | `CharterRepo` with the observed levels, baselines and closures | instantiates `Ratchet` |
| `Integrity` | the integrity rules, as a set of findings of a stream | the abstract side |
| `IntegrityLoop` | `check_integrity` step by step | one action per branch of the loop |
| `CleanLedger` | integrity pass and projection together | EXTENDS `IntegrityLoop`, `Projection` |
| `ExitCodes` | the diagnostic registry, exit code precedence, negotiation | |
| `Evaluation` | `evaluate`, `_build_facts`, `explain_*` | EXTENDS `Triggers`, `Integrity`, `ExitCodes`, `Settings` |
| `ReportProperties` | properties of reports over `CharterRepo` | |
| `Documents` | documents as the YAML parser's events; the JSON data model | the library's side is marked external |
| `Codec` | `decode` step by step: guards, one event of the first parse at a time, the second parse, the root check | |
| `SafeDialect` | what decoding promises, in one step | the abstract side of `Codec` |
| `CodecProperties` | properties of decoding | instantiates `SafeDialect` |
| `FieldTypes` | which decoded documents the engine accepts, and the config read from them | tables of fields |
| `SchemaExport` | the published schema, and what a validator of it accepts | |
| `IntakeProperties` | decoding, types, schema and settings together | |
| `LedgerLemmas`, `RepoProofs`, `RatchetProofs`, `IntegrityProofs`, `VerdictProofs`, `PolicyProofs`, `RelaxProofs`, `IntakeProofs` | theorems | section 5 |
| `MC*` | values for TLC | |

**State and code.** `charter` is a `Charter`: its status, profile, genesis marker, config
block and non-goals with status and budget. `ledger` is a set of resolved events: payload
fields the rules read, joined with provenance (`at`, `sha`) and `path`. `clock` is committer
time. The engine is operators over these: `resolve_settings(config, profile)`,
`project(charter, ledger, t)`, `evaluate_all(...)`, `evaluate(...)`, so a property may
evaluate at any instant, past ones included. For decoding the state is that of one call:
the document, a program counter, the position in the first parse, the number of documents
met and the outcome.

**Actions.** `Ratify`, `RatifyTogether` (several back-filled by the adoption commit),
`Retire`, `Expire`, `OpenReview`, `CloseReview`, `OpenAndCloseReview` (one squash commit),
`Correct`, `RetireNonGoal`, `SetBudget`, `SetConfig`, `SwitchProfile`, `RatifyCharter`,
`Tick`. The engine does not *refuse* bad ledgers, it reports them and evaluates all the
same; the constant `Irregular` says which departures from good order a run includes:
undeclared non-goals, orphans, duplicates, endings after an expiry, several events in a
commit, ties of instants, and committer times earlier than commits already made
(`"backdated"`). `"dangling"` corrections are allowed by the module and covered by the
theorems; no configuration of the repository includes them, `Integrity` does in its own
universe of events. In an expiry, `expires_at` is not earlier than the ratification's commit.

**Abstractions worth knowing.**

* `dict.setdefault` over the sorted events is `FirstOf`: the first event of a kind and id.
* Ratios are fractions over a common denominator and compared by cross-multiplication,
  as `Fraction` does. A decimal number is its digits and its number of places, which is
  what `Fraction(str(value))` keeps. The cumulative baseline keeps the numerator; both sides
  of the comparison divide by today's number of active non-goals.
* A window of `density_window_days` is that many clock units.
* Corrections change nothing in the projection, whatever their kind, and replacement values
  are never applied: so it is in the code.
* Diagnostics are a set of codes: no rule depends on their number or order.
* With `fail_on_warning` the code may exit 1 with `result = "pass"`, and an unsupported
  version gets a report whose verdict says PASS and whose exit code is 5; both are modelled
  as they are.
* `MALFORMED` versions are an outcome of `negotiate`; the field type `SemVerStr` keeps them
  out of a `Charter`, so the runs do not declare one.
* Counts go by instants, so a ratification at the very instant of a closure enters the
  baseline of that closure even when the total order puts it after: `AnyLedger` includes such
  ties.
* A document is the sequence of events the YAML parser raises for it, what the parser cannot
  read being an event too; a node carries the path of keys and list positions it is at. Two
  nodes at one path are a duplicate key.
* The models of a charter nest two deep, an approval policy in a config block in a charter, and
  so do the schemas published for them. Validation, `_normalise` and the JSON Schema validator
  are therefore written without recursion: one operator says what happens at one level, takes
  what happens below as a parameter (`fields_valid`, `normalised`, `meets`, `follows`, `accepts`),
  and is applied once per level; `PROJECT.json` maps the levels.

## 3. What is checked

All runs finish; the bounds are constants of the configurations (`MaxEvents`, `LastCommit`,
`MaxTime`, the id sets, the corpus).

| run | question | size |
|---|---|---|
| `Ratchet` | on ledgers in good order: does the repository implement the abstract ratchet, and is the replayed history the one that was seen? | 93 017 states, 5 events |
| `AnyLedger` | do the ratchet's promises survive copies, late endings, ties and clocks that run backwards? | 35 751 states, 4 events |
| `Policy` | what may an edit of the policy change, and does density let go, while the policy is edited? (fairness) | 47 196 states, 4 events |
| `Integrity` | the pass against its rules and against the projection, on every ledger of up to four files (fairness) | 36 250 states |
| `Report` | exit code, reasons, splitting of changes, facts and explanations, for every touched set, switch and instant | 25 764 states, 3 events |
| `Intake` | documents from their text to the settings resolved from them: 669 documents (fairness) | 5 723 states |

**The properties.**

*Ratchet* (`RepoProperties`, `RatchetRefinement`)

* `RefireNeedsErosion`: a level trigger that fires although a covering review has closed
  counts a carve-out ratified after the last such closure.
* `FloorIsRunningMinimum`: the baseline, which the code computes from a few candidate
  instants, is the least count at *any* instant from the closure to now.
* `ReplayAgreesWithHistory`: the interval count at each earlier instant is the active count
  an evaluation at that instant gave. It needs good order: a late or duplicate ending
  rewrites the replayed past, which is the `LateTerminal` disagreement.
* `TimeOnlyRelaxes`, `OnlyRatificationTightens`: no trigger fires because of time,
  endings, closures or corrections, and no path closes by the clock. The second assumes that
  no review is opened a second time and that what has ended is not ended again in the past: a
  second opening that sorts first, with another scope, takes a closure away from a non-goal, and a
  second ending that sorts first lowers the count at a closure gone by. `check_integrity`
  reports both kinds of copy.
* `ImplementsRatchet`: refinement; levels and baselines move only as A2 allows, and a baseline
  is set anew exactly when a review that covers its scope closes.
* `DensityNeedsActivity`, `DensityEventuallyRelaxes`: density fires only on recent,
  unhistorical ratifications and lets go once they stop.

*Policy* (`PolicyProperties`)

* `ProvenanceLeadsToTheValue`: the pointer recorded for an explicit setting leads to it in
  the document, an explicit zero or false included; only what charter.yaml leaves out has
  another source; the explained value is the one in force.
* `EditsStayLocal`: an edit moves neither value nor source of what it does not write.
* `ProfileLeavesTriggersAlone`: a profile is a preset, not a code path.
* `LooserPolicyOnlyRelaxes`: a policy that is looser in every threshold fires no trigger
  that did not fire, whatever reviews closed at levels measured under the old one.

*Integrity* (`IntegrityLoop`, `CleanLedger`)

* `ReportsExactlyTheFindings`, `Finishes`: the pass is exact and total.
* `CleanLedgerProjectsFaithfully`: if the pass finds no orphan and no duplicate,
  each ending in the ledger is the one the projection uses, and ends what began no later.
* `CorrectionsOnlyAnnotate`: with the corrections taken out, the ledger projects at every
  instant to the same carve-outs, reviews and baselines, and the pass says the same of the rest.

*Reports* (`ReportProperties`)

* `ExitZeroMeansAdmitted`: the exit code against an independent statement of the decision.
* `MoreDiagnosticsNeverLookBetter`: a further diagnostic never turns a failure into a
  success, nor an unfinished run into a conclusion.
* `ReasonsAreGrounded`, `TouchingMoreNeverHelps`: what a verdict names blocks, and splitting
  a change does not get it through.
* `FactsSupportTheTriggers`: a reader recounts every trigger from the statuses shown, density
  with the window and the window boundary of the settings shown.
* `ShownInForceExactlyWhileInForce`: the shown status follows from which files the evaluation
  sees, wherever in the order they are.
* `EventExplanationAgreesWithFacts`: `explain_event` and the facts tell the same lifecycle.

*Intake* (`CodecProperties`, `IntakeProperties`)

* `ImplementsSafeDialect`: refinement; the two parses, the guards and the overlapping
  handlers together decode exactly what has no hazard, and refuse with a hazard that is there.
* `LoadsOnlyWhatWasInspected`: the second parse, which has fewer guards, only meets what it is
  safe for.
* `EngineWithinPublishedSchema`: no coercion lets the engine accept what the schema refuses.
* `NormaliseKeepsTheMeaning`: normalising the schema changes what it says of no document.
* `WhatIsWrittenIsResolved`: from text to resolved setting, the value is the one spelled.

**Why the bounds are enough.** A re-fire takes a ratification, an opening, a closing and
another ratification (four events, budget 0); a floor below the level of the closure takes an
ending after it, and to re-fire above that floor one ratification more, the fifth event of
`Ratchet`. Every carve-out of `AnyLedger` has a declared expiry, one instant after its
ratification, so that late and early endings, copies of either and scopes fit its two instants;
`Ratchet` mixes carve-outs with and without one. Two or three carve-outs and one or two
reviews at four events reach both, with instants left for expiries to take effect and, in
`Policy`, for the longest window to pass over the last commit. Retiring one of two
non-goals changes a denominator. The policies edited in `Policy` are a strict one, a
looser one and one that leaves thresholds to the defaults, with explicit zeros and falses, a
partial and an empty approval policy among them; each sets a window, as the default of 90
days outlasts every run.
`Report` bounds the ledger at three events, enough for an origin, its ending and a copy of
either, and includes a draft charter that is ratified. The integrity universe holds two
files for the keys that may be shared, corrections of a ratification, an ending and a
correction, ratifications with and without an expiry, and two instants, so that
origins come before, after and together with what refers to them. The corpus has every
setting with every text, pairs of entries under equal, different, nested and unknown keys, and
every hazard
before, inside and after an ordinary block. Every property has a mutant, a plausible bug in a
mapped definition, under which TLC finds it violated within the same bounds. Symmetry is
declared only where no value of the set is singled out and no liveness is checked.

**Fairness.** `FairSpec` adds `WF_vars(Tick)`: time passes. Nobody is obliged to commit,
and commits stop at `LastCommit`, so `DensityEventuallyRelaxes` says what happens when
ratifications stop. `IntegrityLoop` and `Codec` have `WF_vars(Next)`: a loop over a finite
tuple, and a call over a finite text, run on. `CHECK_DEADLOCK FALSE` is set because
behaviours end at the bounds (repository) or when the call is done (integrity, codec).

## 4. Where the code and its documents disagree

Each is a run that TLC ends with a counterexample; quotes are in `PROJECT.json`.

| run | in short |
|---|---|
| `LateTerminal` | retiring a carve-out whose declared expiry has passed moves the end of its interval later: a baseline rises without a review |
| `ExplainPath` | with a review open, `explain_path` of a non-goal with a fired trigger names the trigger, the verdict names the review |
| `DensityFact` | the density count of a report is a lifetime count, the trigger decided on a window |
| `PastReport` | integrity is checked over future events too in an evaluation as of the past |
| `OneCommit` | a review opened and closed by one commit is an orphan: `.closed` sorts before `.opened` |
| `PublishedSchema` | the published schema spells numeric bounds `ge`, `gt`, `le`, which JSON Schema ignores: it accepts `density_window_days: 0`, the engine does not |

Smaller ones, read but not run: self-ratification is said to be "permitted only under the
lite profile" while a config block may allow it under any; the schema stamps one set of
effective defaults while the lite preset has other values; `ReviewScope`'s and `Charter`'s
validators (one scope, distinct ids) have no counterpart in the schema; retiring a non-goal
without carve-outs shrinks the ratio's denominator and may by itself make the cumulative
trigger fire.

## 5. What is proved

TLAPS checks these for every value of the constants that satisfies the named assumptions, so
for irregular ledgers, any number of carve-outs, reviews, non-goals, policies and instants,
any stream and any corpus. The assumptions: `IdsAssumption`, `NoneAssumption` and
`RepoAssumption` of the repository; `MalformedAssumption`, that the outcome `MALFORMED` is not
a pair of numbers; `StreamsAssumption` and `DeclaredAssumption` of the pass, with
`StreamsAreLedgers` (a stream is the total order of files of distinct paths) where the pass
meets the projection; `CodecAssumption` of decoding, which says what a parser's events are:
only values have a path, and what holds a value is a block or a list (`WellNested`);
`NoneIsNoValue` and `NoneIsNoBlock`, that None is no model, number, flag, name or config
block. `LedgerLemmas` holds what several proofs need: first events, minima and maxima of
finite sets, the total order (`OrderIsTotal`, `TotalOrderSorts`), counts over intervals, and
what determines a projection (`SameCarveOuts`, `SameReviews`, `SameProjection`).

*The repository* (`RepoProofs`)

* `TypeCorrect`: `Spec => []TypeOK`. One step per action. Besides types it says that the
  ledger is finite, that paths are distinct and that no event is later than the clock; the
  other theorems rest on these.
* `StandingStillDoesNotRefire`: `Spec => []RefireNeedsErosion`. If nothing active was ratified
  after the closure, every carve-out active now was already counted at the closure and at
  every candidate instant since (`ActiveWereCounted`), so the floor is at least the present
  count, and the strict comparison with the baseline fails.
* `BaselineIsRunningMinimum`: `Spec => []FloorIsRunningMinimum`. Between two candidate
  instants the count cannot fall (`CountHoldsBetweenEnds`), so from any instant one can go
  back to the last candidate without a larger count there (`SameFloor`, `FloorIsLeast`).
* `HistoryIsReplayed`: with no `"duplicate"`, `"late"` or `"backdated"` in `Irregular`,
  `Spec => []ReplayAgreesWithHistory`. The invariant it needs is `EndsInOrder`: a carve-out
  has one ratification and at most one ending, and while its non-goal is in force the ending
  comes no later than the declared expiry. Then an interval's end, known only now, is also the
  instant at which evaluations stopped calling the carve-out active (`ActiveUntilItsEnd`).
  `LateTerminal` shows that the assumption cannot be dropped.

*The ratchet* (`RatchetProofs`)

* `RepositoryIsARatchet`: `ObservedSpec => ImplementsRatchet`, the whole refinement, if
  `Irregular` holds at most `"undeclared"`, `"batch"`, `"dangling"` and `"duplicate"` (`Orderly`)
  and no non-goal is retired. The invariant adds to `TypeOK` that a closed review was opened
  (`ClosingsHaveOpenings`) and that the three observed variables are what an evaluation now
  derives. Every step is then one of four things for the carve-outs and closures it leaves
  behind. Endings, declared expiries and time let carve-outs *lapse*: the floor over the longer
  history is the smaller of the old floor and the new count (`LapseLowers`), which is `Hold` or
  `Shrink`. Ratifications let them *grow*: counts before this instant stay, so the floor does
  (`GrowthHolds`), which is `Hold` or `Grow`. A closing adds this instant to the closures of the
  scopes it covers, and the floor since this instant is the present count (`ClosureRebases`):
  `Rebase`. Corrections, openings and edits of the policy change none of it, and a copy of a
  kind and id committed later is never the first of them, the one the projection reads
  (`FirstStays`, `CopiesDoNotAct`). The hypotheses are those of the run `Ratchet`, with batches,
  undeclared non-goals, corrections and copies besides. They are needed: in instances of four
  or five events TLC breaks the refinement with each of `"orphan"`, `"tie"`, `"backdated"` and
  `"late"`, and by retiring a non-goal, whose baseline the engine forgets.

*What a step can do to the triggers* (`RelaxProofs`)

* `TimeCanOnlyRelax` and `OnlyRatificationCanTighten`: `Spec => TimeOnlyRelaxes`,
  `Spec => OnlyRatificationTightens`, for irregular ledgers too. A level may fall and its
  baseline with it, so comparing either alone says nothing; the argument is that a baseline
  falls by no more than the level does. `LifeGoesOn` and `CarveOutLivesOn` say what a step that
  ratifies nothing does to a carve-out: its start stays, what has ended stays ended, and its end
  moves at most to a later instant. So counts at earlier instants do not fall, closures stay
  (`ReviewsStayClosed`), and a level above the new baseline stood above the old one
  (`StillAbove`).
* `DensityFiresOnActivity`: `Spec => []DensityNeedsActivity`. The carve-outs the trigger counts
  are each the first ratification of their id, so the events in the window are at least as many.

*Settings and policy* (`PolicyProofs`)

* `LooseningOnlyRelaxes`: `Spec => LooserPolicyOnlyRelaxes`. A config edit leaves the
  projection as it is (`SameView`), so the two evaluations differ in thresholds only. A level
  trigger compares one count with the threshold and with the same baseline; a looser threshold
  only removes firings, for the ratio because the inequalities of fractions compose
  (`RatiosCompose`). Density's window shrinks, so its set of recent ratifications does. That
  resolved thresholds are numbers at all is `ThresholdsTyped`, from the typed layers.
* `EditsReachWhatTheyWrite` and `ProfilesAreOnlyPresets`: `Spec => EditsStayLocal`,
  `Spec => ProfileLeavesTriggersAlone`. The explanation of a key is a function of what is
  written for it and of the profile; no threshold has a preset.
* `ProvenanceIsCheckable`: `Spec => []ProvenanceLeadsToTheValue`. A layer supplies a key exactly
  when charter.yaml writes a value for it (`SuppliedIsWritten`), whether the block around it is
  there, empty, null or absent, and the recorded pointer walks to that layer
  (`PointerLeadsToTheLayer`). Pointers are two or three segments long, so following one is
  unfolded, not proved by induction.

*Verdicts and reports* (`VerdictProofs`)

* `SplittingDoesNotHelp` and `ReasonsAreCauses`: `Spec => []TouchingMoreNeverHelps`, `Spec =>
  []ReasonsAreGrounded`. Facts about `compute_path_state` and `compute_verdict` for any fired
  set: violated non-goals and reasons grow with what is touched, and every cause was put there
  by a trigger or a review.
* `DiagnosticsAddUp`: `Spec => []MoreDiagnosticsNeverLookBetter`. `WorstExit` characterises the
  fold over the bag: 0, a conclusion or an operational failure, each by what the bag holds.
* `ExitZeroIsAdmission`: `Spec => []ExitZeroMeansAdmitted`. The codes `evaluate` can put into the
  bag are split into errors and warnings; the bag of a supported charter has no error exactly
  when the ledger is sound and nothing touched is closed, drafts excepted.
* `FactsAreEvidence`: `Spec => []FactsSupportTheTriggers`. A fact exists for every file, but
  several files may claim one id; status, instants and non-goal of a fact come from the
  projected carve-out of that id, so counting distinct ids among the facts is counting
  carve-outs.
* `ExplanationsAreFacts`, `ReportsShowWhatIsInForce`: `Spec => []EventExplanationAgreesWithFacts`,
  `Spec => []ShownInForceExactlyWhileInForce`. Both are about looking events up by key in
  whatever order they stand; the second unfolds a lifecycle into the presence of an ending.

*The integrity pass* (`IntegrityProofs`)

* `PassTypeCorrect`, `PassIsExact`: `Spec => []TypeOK`, `Spec => []ReportsExactlyTheFindings`. The
  inductive invariant says what each set of the loop means at position `i`: `ratified_ids` and
  `review_opened_ids` are the origins met so far; the two `seen` sets hold the ids whose
  ending *with an origin before it* was met; the key sets are those of the visited
  positions; the bag is the findings of the visited positions. The property alone is not
  inductive: it says nothing before the end of the pass.
* `CleanLedgersAreReadFaithfully`: `Spec => []CleanLedgerProjectsFaithfully`, by `PassIsExact` and
  the lemmas of the projection. No orphan means an origin earlier in the stream, hence in the
  total order; no duplicate means that the first ending is the only one. Shared keys
  (`E0504`) play no part in it.
* `CorrectionsDoNotAct`: `Spec => []CorrectionsOnlyAnnotate`. Neither the projection nor the
  rules of the other codes read an event of kind correction, and the order of the rest does not
  depend on the corrections among it.

*From text to settings* (`IntakeProofs`)

* `LoadsOnlyInspected`: `Spec => []LoadsOnlyWhatWasInspected`. The invariant (`CodecInv`): every
  event before the position is harmless, at most one of them starts a document, and the counter
  says whether one did. The property alone is not inductive: it is about the end of the first
  parse.
* `DecodingIsSafe`: `Spec => Dialect!Safety`, the safety half of `ImplementsSafeDialect`. Every
  step of the decoder is a stutter of the dialect until the outcome; a rejection names a hazard
  the document has (`StructuralHazardIsReal`, `LoadErrorIsReal`), and what is decoded has none
  (`NoErrorNoHazard`) and the same content (`SameContent`). That decoding ends is fairness and
  stays with TLC.
* `PublishingKeepsTheMeaning`: `Spec => []NormaliseKeepsTheMeaning`, for every mapping, valid or
  not. Two schemas are alike when they say the same, titles and defaults aside, of the same
  properties; alike schemas are met by the same mappings (`SameBlocks`), which goes up the levels
  one by one, because no lemma can quantify over the validator of the level below
  (`DepthsAgree` brings the levels to one form). Normalising and stamping give an alike schema:
  a field's schema loses its title and nothing else (`NormalisedField`), a block keeps every
  field's name (`NormalisedBlock`).
* `EngineIsWithinSchema`: `Spec => []EngineWithinPublishedSchema`. A scalar that a field takes has
  what the field's schema asserts (`TakenIsAsserted`, which is where a coercion across JSON's
  types would break it); a block that validates meets its definition (`ValidMeets`), its policy
  first, then the config block, then the charter; and the published schema accepts what the
  emitted one does.
* `WrittenIsResolved`: `Spec => []WhatIsWrittenIsResolved`. It needs `DecodedInv` besides: what was
  decoded is the mapping that the events spell, with no two of them at one path. So an event with
  a path is the value there (`ValueAtPath`), and the blocks around a setting that has a text are
  there and validate (`SettingAt`). Text by text and kind by kind, what is read says what is
  written (`SettingRead`), and the chain of settings takes it exactly when it was given
  (`ConfigReads`).
* `AcceptedConfigIsTyped`: what the engine reads of an accepted charter is a `ConfigBlock` or
  nothing, which is what `CharterRepo` and the theorems of `PolicyProofs` assume of a config. The
  assumption they make is thus one that decoding and the field types establish.

Most invariants of the repository follow from `TypeOK` alone because the engine is a
function of the repository: they are facts about `project`, `evaluate` and `resolve_settings`
on any well-typed input. Minima, maxima and first events are CHOOSE expressions; the lemmas
first show, for finite sets, that what is chosen exists. The two that are about the past,
`ReplayAgreesWithHistory` and the refinement, need the invariants named above.

**What proving changed.** The recount of density in `FactsSupportTheTriggers` had taken every
window boundary for inclusive; the proof would not close, and the property now honours
`window_boundary`. `CorrectionsOnlyAnnotate` had compared projections at the last instant
only. `CleanLedgerProjectsFaithfully` had assumed that no keys are shared.
The abstract `Ratchet` had let a baseline jump to the level in any step; it now asks for a new
closure, and with that TLC sees the late ending that the weaker promise let through.
`FieldTypes` and `SchemaExport` had recursed over documents and schemas; unrolled to the depth
the models have, they can be reasoned about, and TLC found the same states. The corpus had been
free to place a value under a scalar; `CodecAssumption` now says what no parser does.

**Only model-checked.** Liveness under fairness: `DensityEventuallyRelaxes`, `Finishes`, and that
decoding ends (the liveness half of `ImplementsSafeDialect`). The six disagreements of section 4 are
counterexamples, found by TLC.

## 6. What is not modelled

* Rendering: digests and run ids, titles and remediations, positions of messages, the
  formatting of instants and fractions, key order, `$id` and the text form of the schema.
* Grammars: the semantic version pattern and the other string patterns of `models/common.py`
  (two stand for them); the normalisation of instants to UTC. Where the rules read such a
  value they only compare it.
* `normalize_newlines`, which no function of the repository calls yet.
* The YAML library beyond what `codec.py` relies on: merge keys written in line, explicit tags
  that convert a scalar, and events of the keys themselves.
* The command line, the git adapters, shallow clones, merges and rebases, the gate and the
  MCP server: not in the source. Their effect on provenance, committer times that run
  backwards, is in `CharterRepo`.

## 7. Plan

*Done*: events, projection, triggers, path, verdict, repository; ratchet; integrity;
settings and policy edits; evaluation with facts and explanations; decoding, field types,
schema; the theorems of section 5.

*Left*: when the git adapters and commands arrive, their composition with the engine: an
evaluation that reads the charter of one revision and the ledger of another.
