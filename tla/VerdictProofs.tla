--------------------------- MODULE VerdictProofs ----------------------------
(***************************************************************************)
(* Theorems about the amendment path and the verdict, for every value of   *)
(* the constants: whatever fired, whatever is open, whatever is touched.   *)
(***************************************************************************)
EXTENDS ReportProperties, PolicyProofs

-----------------------------------------------------------------------------
(* The verdict over parts of a change.                                     *)

\* The three verdicts, by how the path is closed.
LEMMA Verdicts ==
  ASSUME NEW path, NEW touched
  PROVE  LET verdict  == compute_verdict(path, touched)
             violated == violated_of(path, touched)
         IN  /\ path.global_state = REVIEW_REQUIRED =>
                  verdict = [kind |-> REVIEW_REQUIRED, non_goals |-> {}, reasons |-> causes_of(path, GLOBAL)]
             /\ path.global_state # REVIEW_REQUIRED /\ violated = {} =>
                  verdict = [kind |-> PASS, non_goals |-> {}, reasons |-> {}]
             /\ path.global_state # REVIEW_REQUIRED /\ violated # {} =>
                  verdict = [kind |-> VIOLATION, non_goals |-> violated,
                             reasons |-> (UNION {causes_of(path, ng) : ng \in violated})
                                           \cup global_reasons(path)]
BY DEF compute_verdict

\* On one path, a part of a change gets no worse a verdict than the whole.
LEMMA PartIsNoWorse ==
  ASSUME NEW path, NEW more, NEW part \in SUBSET more
  PROVE  LET whole   == compute_verdict(path, more)
             verdict == compute_verdict(path, part)
         IN  /\ verdict.kind # PASS => whole.kind # PASS
             /\ verdict.non_goals \subseteq whole.non_goals
             /\ verdict.reasons \subseteq whole.reasons
<1> DEFINE V(touched) == violated_of(path, touched)
           Own(touched) == UNION {causes_of(path, ng) : ng \in V(touched)}
<1>1. V(part) \subseteq V(more)
  BY DEF violated_of
<1>2. Own(part) \subseteq Own(more)
  BY <1>1
<1>3. REVIEW_REQUIRED # PASS /\ VIOLATION # PASS
  BY DEF REVIEW_REQUIRED, VIOLATION, PASS
<1>4. CASE path.global_state = REVIEW_REQUIRED
  BY <1>3, <1>4, Verdicts
<1>5. CASE path.global_state # REVIEW_REQUIRED /\ V(part) = {}
  <2>1. compute_verdict(path, part) = [kind |-> PASS, non_goals |-> {}, reasons |-> {}]
    BY <1>5, Verdicts
  <2> QED
    BY <2>1
<1>6. CASE path.global_state # REVIEW_REQUIRED /\ V(part) # {}
  <2>1. V(more) # {}
    BY <1>1, <1>6
  <2>2. compute_verdict(path, part)
          = [kind |-> VIOLATION, non_goals |-> V(part), reasons |-> Own(part) \cup global_reasons(path)]
    BY <1>6, Verdicts
  <2>3. compute_verdict(path, more)
          = [kind |-> VIOLATION, non_goals |-> V(more), reasons |-> Own(more) \cup global_reasons(path)]
    BY <1>6, <2>1, Verdicts
  <2> QED
    BY <1>1, <1>2, <1>3, <2>2, <2>3
<1> QED
  BY <1>4, <1>5, <1>6

\* Splitting a change never gets it through: in every reachable repository, at
\* every instant, touching more non-goals leaves a blocked change blocked and
\* drops neither a violated non-goal nor a reason (verdict.compute_verdict).
THEOREM SplittingDoesNotHelp == Spec => []TouchingMoreNeverHelps
<1>1. TouchingMoreNeverHelps
  BY PartIsNoWorse DEF TouchingMoreNeverHelps, SplittingNeverHelps
<1> QED
  BY <1>1, PTL

-----------------------------------------------------------------------------
(* What a verdict rests on.                                                *)

\* The path of what fired and what is open, field by field.
LEMMA PathShape ==
  ASSUME NEW reviews, NEW fired, fired_of(fired) = fired
  PROVE  LET path      == compute_path_state(reviews, fired)
             reviewing == {ReviewCause(id) : id \in open_reviews(reviews)}
             everyone  == {f \in fired : f.scope = GLOBAL}
             scopes    == {r.scope : r \in {f \in fired : f.scope # GLOBAL}}
         IN  /\ open_reviews(reviews) # {} => path.global_state = REVIEW_REQUIRED
             /\ open_reviews(reviews) = {} /\ everyone # {} => path.global_state = CLOSED
             /\ open_reviews(reviews) = {} /\ everyone = {} => path.global_state = OPEN
             /\ path.closed = scopes
             /\ open_reviews(reviews) # {} => causes_of(path, GLOBAL) = reviewing
             /\ open_reviews(reviews) = {} =>
                  causes_of(path, GLOBAL) = {TriggerCause(r) : r \in everyone}
             /\ \A ng : ng # GLOBAL =>
                  causes_of(path, ng) = {TriggerCause(r) : r \in {f \in fired : f.scope = ng}}
<1> DEFINE path      == compute_path_state(reviews, fired)
           reviewing == {ReviewCause(id) : id \in open_reviews(reviews)}
           everyone  == {f \in fired : f.scope = GLOBAL}
           scoped    == {f \in fired : f.scope # GLOBAL}
           scopes    == {r.scope : r \in scoped}
           global    == {TriggerCause(r) : r \in everyone}
<1>1. /\ reviewing # {} <=> open_reviews(reviews) # {}
      /\ global # {} <=> everyone # {}
  OBVIOUS
<1>2. /\ reviewing # {} => path.global_state = REVIEW_REQUIRED
      /\ reviewing = {} /\ global # {} => path.global_state = CLOSED
      /\ reviewing = {} /\ global = {} => path.global_state = OPEN
      /\ path.closed = scopes
  BY DEF compute_path_state
<1>3. path.causes = [s \in scopes \cup (IF path.global_state = OPEN THEN {} ELSE {GLOBAL}) |->
                       CASE s \in scopes -> {TriggerCause(r) : r \in {f \in scoped : f.scope = s}}
                         [] s = GLOBAL   -> IF reviewing # {} THEN reviewing ELSE global]
  BY DEF compute_path_state
<1>4. GLOBAL \notin scopes /\ OPEN # REVIEW_REQUIRED /\ OPEN # CLOSED
  BY DEF OPEN, CLOSED, REVIEW_REQUIRED
<1> HIDE DEF path
<1>5. reviewing # {} => causes_of(path, GLOBAL) = reviewing
  BY <1>2, <1>3, <1>4 DEF causes_of
<1>6. reviewing = {} => causes_of(path, GLOBAL) = global
  <2>1. CASE reviewing = {} /\ global # {}
    BY <1>2, <1>3, <1>4, <2>1 DEF causes_of
  <2>2. CASE reviewing = {} /\ global = {}
    BY <1>2, <1>3, <1>4, <2>2 DEF causes_of
  <2> QED
    BY <2>1, <2>2
<1>7. ASSUME NEW ng, ng # GLOBAL
      PROVE  causes_of(path, ng) = {TriggerCause(r) : r \in {f \in fired : f.scope = ng}}
  <2>1. CASE ng \in scopes
    <3>1. causes_of(path, ng) = {TriggerCause(r) : r \in {f \in scoped : f.scope = ng}}
      BY <1>3, <2>1 DEF causes_of
    <3>2. {f \in scoped : f.scope = ng} = {f \in fired : f.scope = ng}
      BY <1>7
    <3> QED
      BY <3>1, <3>2
  <2>2. CASE ng \notin scopes
    <3>1. causes_of(path, ng) = {}
      BY <1>3, <1>7, <2>2 DEF causes_of
    <3>2. {f \in fired : f.scope = ng} = {}
      BY <1>7, <2>2
    <3> QED
      BY <3>1, <3>2
  <2> QED
    BY <2>1, <2>2
<1> QED
  BY <1>1, <1>2, <1>5, <1>6, <1>7 DEF path

\* An open review is named and nothing else is; otherwise the reasons are
\* triggers that fired for everyone or for a touched non-goal.
LEMMA VerdictIsGrounded ==
  ASSUME NEW reviews, NEW fired, fired_of(fired) = fired, NEW touched
  PROVE  LET verdict == compute_verdict(compute_path_state(reviews, fired), touched)
             Blames(r, ng) == r.scope \in {GLOBAL, ng} /\ TriggerCause(r) \in verdict.reasons
         IN  IF open_reviews(reviews) # {}
             THEN /\ verdict.kind = REVIEW_REQUIRED
                  /\ verdict.reasons = {ReviewCause(id) : id \in open_reviews(reviews)}
             ELSE /\ verdict.kind = VIOLATION <=>
                       \E r \in fired : r.scope \in touched \/ (r.scope = GLOBAL /\ touched # {})
                  /\ verdict.non_goals \subseteq touched
                  /\ \A ng \in verdict.non_goals : \E r \in fired : Blames(r, ng)
                  /\ \A reason \in verdict.reasons :
                       \E r \in fired, ng \in verdict.non_goals :
                         Blames(r, ng) /\ reason = TriggerCause(r)
<1> DEFINE path    == compute_path_state(reviews, fired)
           verdict == compute_verdict(path, touched)
           everyone == {f \in fired : f.scope = GLOBAL}
           For(ng)  == {f \in fired : f.scope = ng}
           violated == violated_of(path, touched)
<1>1. REVIEW_REQUIRED # VIOLATION /\ PASS # VIOLATION /\ REVIEW_REQUIRED # CLOSED /\ REVIEW_REQUIRED # OPEN /\ OPEN # CLOSED
  BY DEF REVIEW_REQUIRED, VIOLATION, PASS, CLOSED, OPEN
<1>2. CASE open_reviews(reviews) # {}
  <2>1. path.global_state = REVIEW_REQUIRED /\ causes_of(path, GLOBAL) = {ReviewCause(id) : id \in open_reviews(reviews)}
    BY <1>2, PathShape
  <2> HIDE DEF path
  <2>2. verdict = [kind |-> REVIEW_REQUIRED, non_goals |-> {}, reasons |-> causes_of(path, GLOBAL)]
    BY <2>1, Verdicts
  <2> QED
    BY <1>2, <2>1, <2>2 DEF path
<1>3. CASE open_reviews(reviews) = {}
  <2>1. /\ everyone # {} => path.global_state = CLOSED
        /\ everyone = {} => path.global_state = OPEN
        /\ path.closed = {r.scope : r \in {f \in fired : f.scope # GLOBAL}}
        /\ causes_of(path, GLOBAL) = {TriggerCause(r) : r \in everyone}
        /\ \A ng : ng # GLOBAL => causes_of(path, ng) = {TriggerCause(r) : r \in For(ng)}
    BY <1>3, PathShape
  <2> HIDE DEF path
  <2>2. path.global_state # REVIEW_REQUIRED
    BY <1>1, <2>1
  <2>3. \A ng : causes_of(path, ng) = {TriggerCause(r) : r \in For(ng)}
    BY <2>1
  <2>4. violated = {ng \in touched : everyone # {} \/ For(ng) # {}}
    <3>1. \A ng : for_non_goal(path, ng) = CLOSED <=> everyone # {} \/ For(ng) # {}
      <4> SUFFICES ASSUME NEW ng
                   PROVE  for_non_goal(path, ng) = CLOSED <=> everyone # {} \/ For(ng) # {}
        OBVIOUS
      <4>1. CASE everyone # {}
        BY <1>1, <2>1, <4>1 DEF for_non_goal
      <4>2. CASE everyone = {}
        <5>1. ng \in path.closed <=> For(ng) # {}
          BY <2>1, <4>2
        <5>2. for_non_goal(path, ng) = CLOSED <=> ng \in path.closed
          BY <1>1, <2>1, <4>2 DEF for_non_goal
        <5> QED
          BY <4>2, <5>1, <5>2
      <4> QED
        BY <4>1, <4>2
    <3> QED
      BY <3>1 DEF violated_of
  <2>5. global_reasons(path) = {TriggerCause(r) : r \in everyone}
    <3>1. CASE everyone # {}
      BY <2>1, <3>1 DEF global_reasons
    <3>2. CASE everyone = {}
      BY <1>1, <2>1, <3>2 DEF global_reasons
    <3> QED
      BY <3>1, <3>2
  <2>6. violated # {} <=> \E r \in fired : r.scope \in touched \/ (r.scope = GLOBAL /\ touched # {})
    BY <2>4
  <2>7. CASE violated = {}
    <3>1. verdict = [kind |-> PASS, non_goals |-> {}, reasons |-> {}]
      BY <2>2, <2>7, Verdicts
    <3> HIDE DEF verdict, violated
    <3>2. verdict.kind # VIOLATION /\ verdict.non_goals = {} /\ verdict.reasons = {}
      BY <1>1, <3>1
    <3> QED
      BY <1>3, <2>6, <2>7, <3>2 DEF verdict, path
  <2>8. CASE violated # {}
    <3>1. verdict = [kind |-> VIOLATION, non_goals |-> violated,
                     reasons |-> (UNION {causes_of(path, ng) : ng \in violated}) \cup global_reasons(path)]
      BY <2>2, <2>8, Verdicts
    <3> HIDE DEF verdict
    <3>2. verdict.kind = VIOLATION /\ verdict.non_goals = violated
      BY <3>1
    <3>3. \A reason : reason \in verdict.reasons <=>
            \E r \in fired : /\ r.scope = GLOBAL \/ r.scope \in violated
                             /\ reason = TriggerCause(r)
      BY <2>3, <2>5, <3>1
    <3>4. \A ng \in violated : \E r \in fired : r.scope \in {GLOBAL, ng} /\ TriggerCause(r) \in verdict.reasons
      BY <2>4, <3>3
    <3>5. \A reason \in verdict.reasons : \E r \in fired, ng \in violated :
            r.scope \in {GLOBAL, ng} /\ TriggerCause(r) \in verdict.reasons /\ reason = TriggerCause(r)
      BY <2>8, <3>3
    <3>6. violated \subseteq touched
      BY <2>4
    <3> HIDE DEF violated
    <3> QED
      BY <1>3, <2>6, <2>8, <3>2, <3>4, <3>5, <3>6 DEF verdict, path
  <2> QED
    BY <2>7, <2>8
<1> QED
  BY <1>2, <1>3

\* A verdict names what it rests on, in every reachable repository and at
\* every instant: open reviews and nothing else, or else exactly triggers that
\* fired for everyone or for a touched non-goal (paths.compute_path_state and
\* verdict.compute_verdict).
THEOREM ReasonsAreCauses == Spec => []ReasonsAreGrounded
<1>1. ASSUME NEW results PROVE fired_of(fired_of(results)) = fired_of(results)
  BY DEF fired_of
<1>2. ReasonsAreGrounded
  BY <1>1, VerdictIsGrounded DEF ReasonsAreGrounded
<1> QED
  BY <1>2, PTL
-----------------------------------------------------------------------------
(* Exit codes.                                                             *)

\* The exit codes of the registry; only errors make a run fail or end early.
LEMMA ExitCodesOfDiagnostics ==
  ASSUME NEW d
  PROVE  /\ exit_code_of(d) \in {0, 1, 3, 4, 5}
         /\ d \in Errors => exit_code_of(d) # 0
         /\ d \in Warnings => exit_code_of(d) = 0
         /\ exit_code_of(d) \notin {0, 1} => d \in Errors
<1>1. Errors \cap Warnings = {}
  BY DEF Errors, Warnings, CharterErrors, LedgerErrors, RepositoryErrors, IntegrityErrors,
         BlockErrors, PathErrors, TraceErrors
<1>2. {"E0101", "E0201", "E0301", "E0304", "E0308", "E0401", "E0402", "E0406"} \subseteq Errors
  BY DEF Errors, CharterErrors, LedgerErrors, RepositoryErrors
<1> HIDE DEF Errors, Warnings
<1> QED
  BY <1>1, <1>2 DEF exit_code_of, OK, VIOLATED, INPUT_INVALID, ENVIRONMENT, SPEC_UNSUPPORTED

\* The places in EXIT_CODE_PRECEDENCE.
LEMMA Ranks == rank(5) = 2 /\ rank(4) = 3 /\ rank(3) = 4 /\ rank(1) = 6
<1> DEFINE Places(code) == {k \in DOMAIN EXIT_CODE_PRECEDENCE : EXIT_CODE_PRECEDENCE[k] = code}
                             \cup {Len(EXIT_CODE_PRECEDENCE) + 1}
<1>1. /\ DOMAIN EXIT_CODE_PRECEDENCE = 1 .. 6 /\ Len(EXIT_CODE_PRECEDENCE) = 6
      /\ EXIT_CODE_PRECEDENCE[1] = 70 /\ EXIT_CODE_PRECEDENCE[2] = 5 /\ EXIT_CODE_PRECEDENCE[3] = 4
      /\ EXIT_CODE_PRECEDENCE[4] = 3 /\ EXIT_CODE_PRECEDENCE[5] = 2 /\ EXIT_CODE_PRECEDENCE[6] = 1
  BY DEF EXIT_CODE_PRECEDENCE
<1>2. /\ Places(5) = {2, 7} /\ Places(4) = {3, 7} /\ Places(3) = {4, 7} /\ Places(1) = {6, 7}
  BY <1>1
<1> HIDE DEF Places
<1>3. ASSUME NEW k \in 1 .. 6 PROVE Min({k, 7}) = k
  <2>1. IsFiniteSet({k} \cup {7}) /\ {k} \cup {7} = {k, 7}
    BY FS_Singleton, FS_Union
  <2>2. Min({k, 7}) \in {k, 7} /\ \A y \in {k, 7} : Min({k, 7}) <= y
    BY <2>1, MinProperties
  <2> QED
    BY <2>2
<1>4. \A code : rank(code) = Min(Places(code))
  BY DEF rank, Places
<1> QED
  BY <1>2, <1>3, <1>4

\* An inconclusive code outranks a violation, a violation success.
LEMMA WorstCode ==
  ASSUME NEW codes \in SUBSET {0, 1, 3, 4, 5}, NEW strict
  PROVE  LET failing == codes \ {0}
             worst   == worst_of(codes, strict)
         IN  /\ failing = {} => worst = (IF strict /\ codes # {} THEN 1 ELSE 0)
             /\ failing # {} => worst \in failing /\ (worst = 1 => failing = {1})
<1> DEFINE failing == codes \ {0}
<1>1. CASE failing = {}
  BY <1>1 DEF worst_of
<1>2. CASE failing # {}
  <2>1. failing \subseteq {1, 3, 4, 5}
    OBVIOUS
  <2>2. worst_of(codes, strict) = CHOOSE c \in failing : \A d \in failing : rank(c) <= rank(d)
    BY <1>2 DEF worst_of
  <2> HIDE DEF failing
  <2>3. \E c \in failing : \A d \in failing : rank(c) <= rank(d)
    <3>1. CASE 5 \in failing
      BY <2>1, <3>1, Ranks
    <3>2. CASE 5 \notin failing /\ 4 \in failing
      BY <2>1, <3>2, Ranks
    <3>3. CASE 5 \notin failing /\ 4 \notin failing /\ 3 \in failing
      BY <2>1, <3>3, Ranks
    <3>4. CASE failing = {1}
      BY <3>4, Ranks
    <3> QED
      BY <1>2, <2>1, <3>1, <3>2, <3>3, <3>4
  <2> DEFINE worst == worst_of(codes, strict)
  <2>4. worst \in failing /\ \A d \in failing : rank(worst) <= rank(d)
    BY <2>2, <2>3
  <2> HIDE DEF worst
  <2>5. ASSUME worst = 1 PROVE failing = {1}
    <3>1. \A d \in failing : rank(1) <= rank(d)
      BY <2>4, <2>5
    <3>2. 3 \notin failing /\ 4 \notin failing /\ 5 \notin failing
      BY <3>1, Ranks
    <3> QED
      BY <1>2, <2>1, <3>2
  <2> QED
    BY <1>2, <2>4, <2>5 DEF worst, failing
<1> QED
  BY <1>1, <1>2

\* A run succeeds when nothing it counts failed, and is inconclusive when some
\* diagnostic is.
LEMMA WorstExit ==
  ASSUME NEW bag, NEW strict \in BOOLEAN
  PROVE  LET worst == worst_exit_code(bag, strict)
         IN  /\ worst = OK <=> bag \cap Errors = {} /\ (strict => bag \cap Warnings = {})
             /\ worst \notin CONCLUSIVE <=> \E d \in bag : exit_code_of(d) \notin CONCLUSIVE
<1> DEFINE counted == (bag \cap Errors) \cup (IF strict THEN bag \cap Warnings ELSE {})
           codes   == {exit_code_of(d) : d \in counted}
           worst   == worst_exit_code(bag, strict)
<1>1. codes \subseteq {0, 1, 3, 4, 5}
  BY ExitCodesOfDiagnostics
<1>2. worst = worst_of(codes, strict)
  BY DEF worst_exit_code
<1>3. codes = {} <=> counted = {}
  OBVIOUS
<1>4. codes \ {0} = {} <=> bag \cap Errors = {}
  <2>1. \A d \in counted : exit_code_of(d) # 0 <=> d \in Errors
    BY ExitCodesOfDiagnostics
  <2>2. codes \ {0} = {} <=> \A d \in counted : d \notin Errors
    BY <2>1
  <2> QED
    BY <2>2
<1>5. \A c \in {3, 4, 5} : c \in codes <=> \E d \in bag : exit_code_of(d) = c
  <2> SUFFICES ASSUME NEW c \in {3, 4, 5} PROVE c \in codes <=> \E d \in bag : exit_code_of(d) = c
    OBVIOUS
  <2>1. \A d \in bag : exit_code_of(d) = c => d \in counted
    BY ExitCodesOfDiagnostics
  <2>2. c \in codes <=> \E d \in counted : exit_code_of(d) = c
    OBVIOUS
  <2>3. counted \subseteq bag
    OBVIOUS
  <2> HIDE DEF codes, counted
  <2> QED
    BY <2>1, <2>2, <2>3
<1>6. (\E d \in bag : exit_code_of(d) \notin CONCLUSIVE) <=> codes \cap {3, 4, 5} # {}
  <2>1. \A d : exit_code_of(d) \notin CONCLUSIVE <=> exit_code_of(d) \in {3, 4, 5}
    BY ExitCodesOfDiagnostics DEF CONCLUSIVE, OK, VIOLATED
  <2> HIDE DEF codes
  <2> QED
    BY <1>5, <2>1
<1>7. codes = {} => (worst = 0 /\ codes \cap {3, 4, 5} = {})
  BY <1>2, WorstCode
<1> HIDE DEF codes, worst
<1>8. CASE codes \ {0} = {}
  <2>1. worst = (IF strict /\ codes # {} THEN 1 ELSE 0)
    BY <1>1, <1>2, <1>8, WorstCode
  <2>2. bag \cap Errors = {} /\ (codes = {} <=> (strict => bag \cap Warnings = {}))
    BY <1>3, <1>4, <1>8
  <2>3. codes \cap {3, 4, 5} = {}
    BY <1>8
  <2> HIDE DEF counted
  <2> QED
    BY <1>6, <2>1, <2>2, <2>3 DEF worst, CONCLUSIVE, OK, VIOLATED
<1>9. CASE codes \ {0} # {}
  <2>1. worst \in codes \ {0} /\ (worst = 1 => codes \ {0} = {1})
    BY <1>1, <1>2, <1>9, WorstCode
  <2>2. bag \cap Errors # {}
    BY <1>4, <1>9
  <2>3. worst \notin {0, 1} <=> codes \cap {3, 4, 5} # {}
    BY <1>1, <2>1
  <2> HIDE DEF counted
  <2> QED
    BY <1>6, <2>1, <2>2, <2>3 DEF worst, CONCLUSIVE, OK, VIOLATED
<1> QED
  BY <1>8, <1>9

\* A further diagnostic never turns a failure into a success, nor hides that a
\* run could not reach a conclusion (diagnostics.worst_exit_code).
LEMMA OneMoreDiagnostic ==
  ASSUME NEW bag, NEW strict \in BOOLEAN
  PROVE  NeverBetterThan(bag, strict)
<1> SUFFICES ASSUME NEW more \in Diagnostics
             PROVE  LET joint == worst_exit_code(bag \cup {more}, strict)
                    IN  /\ worst_exit_code(bag, strict) # OK => joint # OK
                        /\ joint \notin CONCLUSIVE <=>
                             (\E d \in bag : exit_code_of(d) \notin CONCLUSIVE)
                               \/ exit_code_of(more) \notin CONCLUSIVE
  BY DEF NeverBetterThan
<1> DEFINE alone == worst_exit_code(bag, strict)
           joint == worst_exit_code(bag \cup {more}, strict)
<1>1. /\ alone = OK <=> bag \cap Errors = {} /\ (strict => bag \cap Warnings = {})
      /\ joint = OK <=> (bag \cup {more}) \cap Errors = {} /\ (strict => (bag \cup {more}) \cap Warnings = {})
      /\ joint \notin CONCLUSIVE <=> \E d \in bag \cup {more} : exit_code_of(d) \notin CONCLUSIVE
  BY WorstExit
<1> HIDE DEF alone, joint
<1> QED
  BY <1>1 DEF alone, joint

\* What a command adds to the diagnostics of a report never makes the outcome
\* look better, in every reachable repository.
THEOREM DiagnosticsAddUp == Spec => []MoreDiagnosticsNeverLookBetter
<1>1. MoreDiagnosticsNeverLookBetter
  BY OneMoreDiagnostic DEF MoreDiagnosticsNeverLookBetter
<1> QED
  BY <1>1, PTL

-----------------------------------------------------------------------------
(* The gate's decision.                                                    *)

\* A verdict other than PASS means that something touched is closed.
LEMMA BlockedMeansClosed ==
  ASSUME NEW reviews, NEW results, NEW touched
  PROVE  LET path    == compute_path_state(reviews, results)
             verdict == compute_verdict(path, touched)
         IN  /\ verdict.kind \in {PASS, VIOLATION, REVIEW_REQUIRED}
             /\ verdict.kind # PASS <=>
                  path.global_state = REVIEW_REQUIRED \/ \E ng \in touched : for_non_goal(path, ng) # OPEN
<1> DEFINE path == compute_path_state(reviews, results)
           verdict == compute_verdict(path, touched)
<1>1. path.global_state \in {REVIEW_REQUIRED, CLOSED, OPEN}
  BY DEF compute_path_state
<1> HIDE DEF path
<1>2. REVIEW_REQUIRED # PASS /\ VIOLATION # PASS /\ REVIEW_REQUIRED # CLOSED /\ REVIEW_REQUIRED # OPEN /\ OPEN # CLOSED
  BY DEF REVIEW_REQUIRED, VIOLATION, PASS, CLOSED, OPEN
<1>3. CASE path.global_state = REVIEW_REQUIRED
  <2>1. verdict.kind = REVIEW_REQUIRED
    BY <1>3, Verdicts
  <2> HIDE DEF verdict
  <2> QED
    BY <1>2, <1>3, <2>1 DEF verdict, path
<1>4. CASE path.global_state # REVIEW_REQUIRED
  <2>1. \A ng : for_non_goal(path, ng) \in {OPEN, CLOSED}
    BY <1>1, <1>4 DEF for_non_goal
  <2>2. violated_of(path, touched) # {} <=> \E ng \in touched : for_non_goal(path, ng) # OPEN
    BY <1>2, <2>1 DEF violated_of
  <2>3. violated_of(path, touched) = {} => verdict.kind = PASS
    BY <1>4, Verdicts
  <2>4. violated_of(path, touched) # {} => verdict.kind = VIOLATION
    BY <1>4, Verdicts
  <2> HIDE DEF verdict
  <2> QED
    BY <1>2, <1>4, <2>2, <2>3, <2>4 DEF verdict, path
<1> QED
  BY <1>3, <1>4

\* The integrity check reports errors only.
LEMMA FindingsAreErrors ==
  ASSUME NEW declared, NEW stream
  PROVE  Codes(Findings(declared, stream)) \subseteq IntegrityErrors \cup {"E0307"}
BY DEF Codes, Findings, FindingsUpTo, IntegrityErrors, E0501, E0502, E0503, E0504, E0505, E0307

\* A spec version the engine does not support ends the run with its own code.
LEMMA UnsupportedSpec ==
  ASSUME NEW t, NEW touched, NEW strict \in BOOLEAN, NEW spec, spec = MALFORMED \/ spec[1] # 0
  PROVE  EvaluateAt(spec, t, touched, strict).exit_code = 5
<1>1. negotiate(spec) = "E0101"
  BY DEF negotiate, SUPPORTED_SPEC_MAJORS
<1>2. ~can_evaluate("E0101") /\ {"E0101"} \ {"ok"} = {"E0101"}
  BY DEF can_evaluate
<1>3. EvaluateAt(spec, t, touched, strict).exit_code = worst_exit_code({"E0101"}, strict)
  BY <1>1, <1>2 DEF EvaluateAt, evaluate, Report
<1>4. {"E0101"} \cap Errors = {"E0101"} /\ {"E0101"} \cap Warnings = {}
  BY DEF Errors, Warnings
<1>5. exit_code_of("E0101") = 5
  BY DEF exit_code_of, Warnings, SPEC_UNSUPPORTED
<1>6. worst_exit_code({"E0101"}, strict) = worst_of({5}, strict)
  BY <1>4, <1>5 DEF worst_exit_code
<1>7. worst_of({5}, strict) = 5
  <2>1. {5} \ {0} = {5}
    OBVIOUS
  <2> QED
    BY <2>1, WorstCode
<1> QED
  BY <1>3, <1>6, <1>7

\* With a supported one the run succeeds exactly when the change is admitted.
LEMMA SupportedSpecDecides ==
  ASSUME NEW t, NEW touched, NEW strict \in BOOLEAN, NEW spec, spec # MALFORMED, spec[1] = 0,
         charter.status \in {"draft", "ratified"}
  PROVE  LET report == EvaluateAt(spec, t, touched, strict)
         IN  report.exit_code = 0 <=> Admits(report.path, IntegrityCodes = {}, spec, touched, strict)
<1> DEFINE newer   == spec[2] > SPEC_MINOR
           state   == project(charter, ledger, t)
           results == evaluate_all(charter, state, SettingsOf(charter), t)
           path    == compute_path_state(state.reviews, results)
           verdict == compute_verdict(path, touched)
           says    == verdict_diagnostics(charter.status, verdict)
           none    == active_non_goals(charter) = {}
           bag     == (IF newer THEN {"W0102"} ELSE {}) \cup IntegrityCodes
                        \cup (IF none THEN {"W1003"} ELSE {}) \cup says
           report  == EvaluateAt(spec, t, touched, strict)
           closed  == path.global_state = REVIEW_REQUIRED \/ \E ng \in touched : for_non_goal(path, ng) # OPEN
<1>1. negotiate(spec) = IF newer THEN "W0102" ELSE "ok"
  BY DEF negotiate, SUPPORTED_SPEC_MAJORS
<1>2. can_evaluate(negotiate(spec)) /\ {negotiate(spec)} \ {"ok"} = (IF newer THEN {"W0102"} ELSE {})
  BY <1>1 DEF can_evaluate
<1>3. report.exit_code = worst_exit_code(bag, strict) /\ report.path = path
  BY <1>2 DEF EvaluateAt, evaluate, Report, IntegrityCodes, DeclaredNow
<1>4. /\ {"W0102", "W1003", "W1004"} \subseteq Warnings
      /\ {"W0102", "W1003", "W1004"} \cap Errors = {}
      /\ IntegrityErrors \cup {"E0307", "E0701", "E0702"} \subseteq Errors
      /\ (IntegrityErrors \cup {"E0307", "E0701", "E0702"}) \cap Warnings = {}
  BY DEF Errors, Warnings, CharterErrors, LedgerErrors, RepositoryErrors, IntegrityErrors,
         BlockErrors, PathErrors, TraceErrors
<1>5. IntegrityCodes \subseteq Errors /\ IntegrityCodes \cap Warnings = {}
  BY <1>4, FindingsAreErrors DEF IntegrityCodes
<1>6. verdict.kind \in {PASS, VIOLATION, REVIEW_REQUIRED} /\ (verdict.kind # PASS <=> closed)
  BY BlockedMeansClosed
<1>7. /\ says = IF ~closed THEN {} ELSE IF charter.status = "draft" THEN {"W1004"}
                 ELSE IF verdict.kind = VIOLATION THEN {"E0701"} ELSE {"E0702"}
  <2> HIDE DEF verdict, closed
  <2>1. PASS # VIOLATION /\ PASS # REVIEW_REQUIRED /\ VIOLATION # REVIEW_REQUIRED
    BY DEF PASS, VIOLATION, REVIEW_REQUIRED
  <2>2. CASE charter.status = "draft"
    BY <1>6, <2>1, <2>2 DEF verdict_diagnostics
  <2>3. CASE charter.status = "ratified"
    BY <1>6, <2>1, <2>3 DEF verdict_diagnostics
  <2> QED
    BY <2>2, <2>3
<1> HIDE DEF newer, says, closed, none, verdict
<1>8. bag \cap Errors = {} <=> IntegrityCodes = {} /\ (closed => charter.status = "draft")
  BY <1>4, <1>5, <1>7
<1>9. bag \cap Warnings = {} <=> ~(newer \/ none \/ (charter.status = "draft" /\ closed))
  BY <1>4, <1>5, <1>7
<1> HIDE DEF bag
<1>10. report.exit_code = 0 <=> bag \cap Errors = {} /\ (strict => bag \cap Warnings = {})
  BY <1>3, WorstExit DEF OK
<1>11. Admits(path, IntegrityCodes = {}, spec, touched, strict)
         <=> /\ IntegrityCodes = {}
             /\ closed => charter.status = "draft"
             /\ strict => ~(newer \/ none \/ (charter.status = "draft" /\ closed))
  BY DEF Admits, newer, none, closed
<1> HIDE DEF path, report
<1> QED
  BY <1>3, <1>8, <1>9, <1>10, <1>11 DEF report

\* The gate's decision in every reachable repository, for every spec version
\* and every set of touched non-goals: the exit code is 0 exactly when the
\* change is admitted, and 5 when the spec version is not supported
\* (evaluate.evaluate, diagnostics.worst_exit_code).
THEOREM ExitZeroIsAdmission == Spec => []ExitZeroMeansAdmitted
<1>1. TypeOK => ExitZeroMeansAdmitted
  <2> SUFFICES ASSUME TypeOK, NEW touched, NEW strict \in BOOLEAN, NEW spec
               PROVE  ExitCodeIsTheDecision(EvaluateAt(spec, clock, touched, strict),
                                            IntegrityCodes = {}, spec, touched, strict)
    BY DEF ExitZeroMeansAdmitted
  <2>1. charter.status \in {"draft", "ratified"}
    BY DEF TypeOK, IsCharter, CharterOver
  <2>2. CASE spec = MALFORMED \/ spec[1] # 0
    BY <2>2, UnsupportedSpec DEF ExitCodeIsTheDecision
  <2>3. CASE ~(spec = MALFORMED \/ spec[1] # 0)
    BY <2>1, <2>3, SupportedSpecDecides DEF ExitCodeIsTheDecision
  <2> QED
    BY <2>2, <2>3
<1> QED
  BY <1>1, TypeCorrect, PTL
-----------------------------------------------------------------------------
(* The facts of a report.                                                  *)

\* What a report at an instant is made from.
LEMMA ReportIsOf ==
  ASSUME TypeOK, NEW t \in 0 .. clock
  PROVE  LET seen   == visible(ledger, t)
             state  == project(charter, ledger, t)
         IN  /\ Ledger(seen) /\ t \in Nat /\ \A e \in seen : e.at <= t
             /\ state.ordered = seen
             /\ state.carveouts = project_carveouts(charter, seen, t)
             /\ state.reviews = project_reviews(seen)
             /\ ReportAt(t).triggers = evaluate_all(charter, state, SettingsOf(charter), t)
             /\ FactsOf(ReportAt(t)) = {EventFact(state, e) : e \in seen}
<1> DEFINE seen   == visible(ledger, t)
           state  == project(charter, ledger, t)
           stream == total_order(seen)
<1>1. Ledger(seen) /\ t \in Nat /\ \A e \in seen : e.at <= t
  BY SubsetIsLedger DEF visible, Ledger, TypeOK
<1>2. /\ state.ordered = seen /\ state.reviews = project_reviews(seen)
      /\ state.carveouts = project_carveouts(charter, seen, t)
  BY DEF project
<1>3. /\ SupportedSpec[1] = 0 /\ SupportedSpec[2] = 1 /\ SPEC_MINOR = 1
      /\ SupportedSpec # MALFORMED
  BY MalformedAssumption DEF SupportedSpec, SPEC_MINOR
<1>4. can_evaluate(negotiate(SupportedSpec))
  BY <1>3 DEF negotiate, can_evaluate, SUPPORTED_SPEC_MAJORS
<1>5. /\ ReportAt(t).triggers = evaluate_all(charter, state, SettingsOf(charter), t)
      /\ ReportAt(t).facts.events = event_facts(state)
  BY <1>4 DEF ReportAt, EvaluateAt, evaluate, Report, build_facts
<1>6. event_facts(state) = [i \in DOMAIN stream |-> EventFact(state, stream[i])]
  BY <1>2 DEF event_facts
<1>7. /\ \A i \in DOMAIN stream : stream[i] \in seen
      /\ \A e \in seen : \E i \in DOMAIN stream : stream[i] = e
  BY <1>1, TotalOrderSorts
<1> HIDE DEF stream, state, seen
<1>8. Range(event_facts(state)) = {EventFact(state, e) : e \in seen}
  <2>1. Range(event_facts(state)) = {EventFact(state, stream[i]) : i \in DOMAIN stream}
    BY <1>6 DEF Range
  <2> QED
    BY <1>7, <2>1
<1> QED
  BY <1>1, <1>2, <1>5, <1>8 DEF FactsOf, state, seen

\* A ratification's fact tells the state of the carve-out it ratifies.
LEMMA FactOfRatification ==
  ASSUME NEW state, NEW e, e.kind = CARVEOUT_RATIFIED, e.id \in DOMAIN state.carveouts
  PROVE  LET f == EventFact(state, e)
         IN  /\ f.event_key = <<e.id, CARVEOUT_RATIFIED>>
             /\ f.status = state.carveouts[e.id].status
             /\ f.historical <=> state.carveouts[e.id].historical
<1>1. status_of(state, e) = state.carveouts[e.id].status
  BY DEF status_of, TERMINAL_KINDS, CARVEOUT_RATIFIED, CARVEOUT_RETIRED, CARVEOUT_EXPIRED,
         REVIEW_OPENED, REVIEW_CLOSED, CORRECTION
<1>2. historical_of(state, e) <=> state.carveouts[e.id].historical
  BY DEF historical_of
<1> QED
  BY <1>1, <1>2 DEF EventFact, event_key

RatificationFacts(events, state) ==
  {f \in {EventFact(state, e) : e \in events} : f.event_key[2] = CARVEOUT_RATIFIED}
KeysAmong(facts, chosen) == {f.event_key : f \in {g \in facts : g \in chosen}}

\* A reader who counts ratification facts gets the carve-outs with a property.
LEMMA RecountingFacts ==
  ASSUME NEW events, Ledger(events), NEW state, DOMAIN state.carveouts = ProjectedIds(events),
         NEW counted \in SUBSET DOMAIN state.carveouts,
         NEW chosen,
         \A e \in events : e.kind = CARVEOUT_RATIFIED =>
           (EventFact(state, e) \in chosen <=> e.id \in counted)
  PROVE  KeysAmong(RatificationFacts(events, state), chosen) = Ratifications(counted)
<1> DEFINE ratifications == RatificationFacts(events, state)
           told == KeysAmong(ratifications, chosen)
<1>1. \A e : EventFact(state, e).event_key = <<e.id, e.kind>>
  BY DEF EventFact, event_key
<1>2. \A e \in events : e.kind = CARVEOUT_RATIFIED => EventFact(state, e) \in ratifications
  BY <1>1 DEF RatificationFacts
<1>3. ASSUME NEW key \in told PROVE key \in Ratifications(counted)
  <2>1. PICK f \in ratifications : f \in chosen /\ key = f.event_key
    BY <1>3 DEF KeysAmong
  <2>2. PICK e \in events : f = EventFact(state, e)
    BY DEF RatificationFacts
  <2>3. e.kind = CARVEOUT_RATIFIED /\ key = <<e.id, CARVEOUT_RATIFIED>>
    BY <1>1, <2>1, <2>2 DEF RatificationFacts
  <2>4. e.id \in counted
    BY <2>1, <2>2, <2>3
  <2> QED
    BY <2>3, <2>4 DEF Ratifications
<1>4. ASSUME NEW key \in Ratifications(counted) PROVE key \in told
  <2>1. PICK id \in counted : key = <<id, CARVEOUT_RATIFIED>>
    BY <1>4 DEF Ratifications
  <2>2. PICK e \in events : e.kind = CARVEOUT_RATIFIED /\ e.id = id
    BY DEF ProjectedIds
  <2>3. EventFact(state, e) \in ratifications /\ EventFact(state, e) \in chosen
    BY <1>2, <2>2
  <2> QED
    BY <1>1, <2>1, <2>2, <2>3 DEF KeysAmong
<1> HIDE DEF told
<1> QED
  BY <1>3, <1>4 DEF told

\* Keys count what they name.
LEMMA RatificationsCount ==
  ASSUME NEW ids, IsFiniteSet(ids)
  PROVE  Cardinality(Ratifications(ids)) = Cardinality(ids)
<1> DEFINE g == [id \in ids |-> <<id, CARVEOUT_RATIFIED>>]
<1>1. g \in Bijection(ids, Ratifications(ids))
  <2>1. g \in [ids -> Ratifications(ids)]
    BY DEF Ratifications
  <2>2. \A p, q \in ids : g[p] = g[q] => p = q
    OBVIOUS
  <2>3. \A key \in Ratifications(ids) : \E id \in ids : g[id] = key
    BY DEF Ratifications
  <2> HIDE DEF g
  <2> QED
    BY <2>1, <2>2, <2>3 DEF Bijection, Injection, Surjection, IsInjective
<1> QED
  BY <1>1, FS_Bijection DEF ExistsBijection

\* The carve-outs behind a result, by the trigger.
CountedBy(state, settings, t, trigger_id, scope) ==
  CASE trigger_id = PER_ID     -> ActiveOf(state.carveouts, {scope})
    [] trigger_id = CUMULATIVE -> ActiveOf(state.carveouts, active_non_goals(charter))
    [] trigger_id = DENSITY    -> in_range(state, settings, t)

LEMMA ResultsCount ==
  ASSUME TypeOK, NEW t \in 0 .. clock, NEW state, CarveOuts(state.carveouts, t),
         NEW r \in evaluate_all(charter, state, SettingsOf(charter), t)
  PROVE  LET counted == CountedBy(state, SettingsOf(charter), t, r.trigger_id, r.scope)
         IN  /\ r.trigger_id \in {PER_ID, CUMULATIVE, DENSITY}
             /\ counted \in SUBSET DOMAIN state.carveouts
             /\ r.contributing = Ratifications(counted)
             /\ r.observed = Cardinality(counted)
             /\ r.fired => r.margin > 0 \/ (r.trigger_id = DENSITY /\ r.margin = 0)
<1> DEFINE settings == SettingsOf(charter)
           counted  == CountedBy(state, settings, t, r.trigger_id, r.scope)
<1>1. PER_ID # CUMULATIVE /\ PER_ID # DENSITY /\ CUMULATIVE # DENSITY
  BY DEF PER_ID, CUMULATIVE, DENSITY
<1>2. IsCharter(charter)
  BY DEF TypeOK
<1>3. /\ \A ng : active_carveouts_for(state, ng) = ActiveOf(state.carveouts, {ng})
      /\ UNION {active_carveouts_for(state, ng) : ng \in active_non_goals(charter)}
           = ActiveOf(state.carveouts, active_non_goals(charter))
  BY ActiveOfState
<1>4. /\ \A ngs : ActiveOf(state.carveouts, ngs) \subseteq DOMAIN state.carveouts
      /\ in_range(state, settings, t) \subseteq DOMAIN state.carveouts
  BY DEF ActiveOf, in_range
<1>5. \A S \in SUBSET DOMAIN state.carveouts : IsFiniteSet(S) /\ Cardinality(S) \in Nat
  BY FS_Subset, FS_CardinalityType DEF CarveOuts
<1> HIDE DEF settings
<1>6. CASE \E ng \in active_non_goals(charter) : r = per_id(charter, state, settings, ng)
  <2>1. PICK ng \in active_non_goals(charter) : r = per_id(charter, state, settings, ng)
    BY <1>6
  <2> DEFINE level == ActiveOf(state.carveouts, {ng})
             threshold == budget_for(charter, ng, settings.default_carveout_budget)
  <2>2. /\ r.trigger_id = PER_ID /\ r.scope = ng /\ r.observed = Cardinality(level)
        /\ r.contributing = Ratifications(level)
        /\ r.margin = Cardinality(level) - threshold
        /\ r.fired => Cardinality(level) > threshold
    BY <1>3, <2>1 DEF per_id
  <2>3. threshold \in Nat /\ Cardinality(level) \in Nat
    BY <1>2, <1>4, <1>5, BudgetIsNat DEF settings
  <2>4. counted = level
    BY <1>1, <2>2 DEF CountedBy
  <2> HIDE DEF level, threshold, counted
  <2>5. r.fired => r.margin > 0
    BY <2>2, <2>3
  <2> QED
    BY <1>4, <2>2, <2>4, <2>5 DEF settings, counted, level
<1>7. CASE r = cumulative(charter, state, settings)
  <2> DEFINE level == ActiveOf(state.carveouts, active_non_goals(charter))
  <2>1. /\ r.trigger_id = CUMULATIVE /\ r.observed = Cardinality(level)
        /\ r.contributing = Ratifications(level) /\ (r.fired => r.margin > 0)
    BY <1>3, <1>7 DEF cumulative
  <2>2. counted = level
    BY <1>1, <2>1 DEF CountedBy
  <2> HIDE DEF counted
  <2> QED
    BY <1>4, <2>1, <2>2 DEF settings, counted
<1>8. CASE r = density(state, settings, t)
  <2> DEFINE level == in_range(state, settings, t)
  <2>1. /\ r.trigger_id = DENSITY /\ r.observed = Cardinality(level)
        /\ r.contributing = Ratifications(level)
        /\ r.margin = Cardinality(level) - settings.density_threshold
        /\ r.fired => Cardinality(level) >= settings.density_threshold
    BY <1>8 DEF density
  <2>2. counted = level
    BY <1>1, <2>1 DEF CountedBy
  <2>3. settings.density_threshold \in Nat /\ Cardinality(level) \in Nat
    BY <1>2, <1>4, <1>5, ThresholdsTyped DEF settings, Positive
  <2> HIDE DEF counted, level
  <2>4. r.fired => r.margin > 0 \/ r.margin = 0
    BY <2>1, <2>3
  <2> QED
    BY <1>4, <2>1, <2>2, <2>4 DEF settings, counted, level
<1> QED
  BY <1>6, <1>7, <1>8 DEF evaluate_all, settings
\* The numbers a report decides on can be recounted from the statuses it
\* shows, at every instant, whatever files repeat a ratification and wherever
\* they stand in the order (evaluate._build_facts, triggers/*.py).
THEOREM FactsAreEvidence == Spec => []FactsSupportTheTriggers
<1>1. TypeOK => FactsSupportTheTriggers
  <2> SUFFICES ASSUME TypeOK, NEW t \in 0 .. clock,
                      NEW r \in ReportAt(t).triggers
               PROVE  LET settings == SettingsOf(charter)
                          ratifications == {f \in FactsOf(ReportAt(t)) : f.event_key[2] = CARVEOUT_RATIFIED}
                      IN  /\ r.contributing = Recounted(ratifications, settings, t, r.trigger_id, r.scope)
                          /\ r.observed = Cardinality(r.contributing)
                          /\ r.fired => r.margin > 0 \/ (r.trigger_id = DENSITY /\ r.margin = 0)
    BY DEF FactsSupportTheTriggers, SupportedByFacts
  <2> DEFINE settings == SettingsOf(charter)
             seen     == visible(ledger, t)
             state    == project(charter, ledger, t)
             counted  == CountedBy(state, settings, t, r.trigger_id, r.scope)
             ratifications == {f \in FactsOf(ReportAt(t)) : f.event_key[2] = CARVEOUT_RATIFIED}
             Active(f, ngs) == f.status = ACTIVE /\ Ratified(f.event_key[1], t).non_goal \in ngs
             Recent(f) == /\ f.status # MOOT /\ ~f.historical
                          /\ LET left == Ratified(f.event_key[1], t).at + settings.density_window_days - t
                             IN  left > 0 \/ (left = 0 /\ settings.window_boundary = "inclusive")
             Chosen(f) == CASE r.trigger_id = PER_ID     -> Active(f, {r.scope})
                            [] r.trigger_id = CUMULATIVE -> Active(f, active_non_goals(charter))
                            [] r.trigger_id = DENSITY    -> Recent(f)
             chosen    == {f \in ratifications : Chosen(f)}
  <2>1. /\ Ledger(seen) /\ t \in Nat /\ \A e \in seen : e.at <= t
        /\ state.carveouts = project_carveouts(charter, seen, t)
        /\ r \in evaluate_all(charter, state, settings, t)
        /\ FactsOf(ReportAt(t)) = {EventFact(state, e) : e \in seen}
    BY ReportIsOf
  <2> HIDE DEF settings, seen, state, counted
  <2>2. CarveOuts(state.carveouts, t) /\ DOMAIN state.carveouts = ProjectedIds(seen)
    <3>1. CarveOuts(project_carveouts(charter, seen, t), t)
      BY <2>1, ProjectedCarveOuts
    <3> QED
      BY <2>1, <3>1 DEF project_carveouts
  <2>3. /\ r.trigger_id \in {PER_ID, CUMULATIVE, DENSITY}
        /\ counted \in SUBSET DOMAIN state.carveouts
        /\ r.contributing = Ratifications(counted) /\ r.observed = Cardinality(counted)
        /\ r.fired => r.margin > 0 \/ (r.trigger_id = DENSITY /\ r.margin = 0)
    BY <2>1, <2>2, ResultsCount DEF counted, settings
  <2>4. ASSUME NEW e \in seen, e.kind = CARVEOUT_RATIFIED
        PROVE  EventFact(state, e) \in chosen <=> e.id \in counted
    <3> DEFINE f == EventFact(state, e)
               c == state.carveouts[e.id]
               first == Ratified(e.id, t)
    <3>1. e.id \in ProjectedIds(seen)
      BY <2>4 DEF ProjectedIds
    <3>2. f.event_key = <<e.id, CARVEOUT_RATIFIED>> /\ f.status = c.status /\ (f.historical <=> c.historical)
      BY <2>2, <2>4, <3>1, FactOfRatification
    <3>3. f \in ratifications
      BY <2>1, <3>2
    <3>4. c.non_goal = first.non_goal /\ c.ratified_at = first.at
      BY <2>1, <3>1 DEF project_carveouts, CarveOutState, Ratified, seen
    <3>5. first \in seen /\ first.at \in Nat /\ first.at <= t
      <4>1. OfKind(seen, CARVEOUT_RATIFIED, e.id) # {}
        BY <2>4 DEF OfKind
      <4>2. first \in seen
        BY <2>1, <4>1, FirstOfKind DEF Ratified, seen
      <4> QED
        BY <2>1, <4>2, EventFields DEF Ledger
    <3>6. f.event_key[1] = e.id
      BY <3>2
    <3> HIDE DEF f, c, first, ratifications
    <3>7. \A ngs : Active(f, ngs) <=> e.id \in ActiveOf(state.carveouts, ngs)
      BY <2>2, <3>1, <3>2, <3>4, <3>6 DEF ActiveOf, counts_toward_level, c, first
    <3>8. Recent(f) <=> e.id \in in_range(state, settings, t)
      <4> DEFINE days == settings.density_window_days
      <4>1. days \in Nat /\ settings.window_boundary \in {"inclusive", "exclusive"}
        BY ThresholdsTyped DEF settings, TypeOK, Positive
      <4>2. e.id \in in_range(state, settings, t) <=>
              c.status # MOOT /\ ~c.historical /\ in_window(c.ratified_at, t, days, settings.window_boundary)
        BY <2>2, <3>1 DEF in_range, counts_toward_velocity, c
      <4>3. Recent(f) <=> c.status # MOOT /\ ~c.historical
              /\ \/ first.at + days - t > 0
                 \/ first.at + days - t = 0 /\ settings.window_boundary = "inclusive"
        BY <3>2, <3>6 DEF first
      <4> HIDE DEF days
      <4>4. in_window(first.at, t, days, settings.window_boundary) <=>
              \/ first.at + days - t > 0
              \/ first.at + days - t = 0 /\ settings.window_boundary = "inclusive"
        BY <2>1, <3>5, <4>1 DEF in_window
      <4> QED
        BY <3>4, <4>2, <4>3, <4>4
    <3>9. Chosen(f) <=> e.id \in counted
      <4>1. PER_ID # CUMULATIVE /\ PER_ID # DENSITY /\ CUMULATIVE # DENSITY
        BY DEF PER_ID, CUMULATIVE, DENSITY
      <4> HIDE DEF Active, Recent
      <4>2. CASE r.trigger_id = PER_ID
        BY <3>7, <4>1, <4>2 DEF CountedBy, counted
      <4>3. CASE r.trigger_id = CUMULATIVE
        BY <3>7, <4>1, <4>3 DEF CountedBy, counted
      <4>4. CASE r.trigger_id = DENSITY
        BY <3>8, <4>1, <4>4 DEF CountedBy, counted
      <4> QED
        BY <2>3, <4>2, <4>3, <4>4
    <3> HIDE DEF Chosen
    <3> QED
      BY <3>3, <3>9 DEF f
  <2>5. Recounted(ratifications, settings, t, r.trigger_id, r.scope)
          = KeysAmong(ratifications, chosen)
    <3>1. {g \in ratifications : g \in chosen} = {g \in ratifications : Chosen(g)}
      <4> HIDE DEF Chosen, ratifications
      <4> QED
        OBVIOUS
    <3> QED
      BY <3>1 DEF Recounted, KeysAmong
  <2> HIDE DEF chosen
  <2>6. KeysAmong(ratifications, chosen) = Ratifications(counted)
    <3>1. ratifications = RatificationFacts(seen, state)
      BY <2>1 DEF RatificationFacts
    <3> HIDE DEF ratifications
    <3> QED
      BY <2>1, <2>2, <2>3, <2>4, <3>1, RecountingFacts
  <2>7. Cardinality(Ratifications(counted)) = Cardinality(counted)
    BY <2>2, <2>3, FS_Subset, RatificationsCount DEF CarveOuts
  <2> HIDE DEF ratifications
  <2> QED
    BY <2>3, <2>5, <2>6, <2>7 DEF settings, ratifications
<1> QED
  BY <1>1, TypeCorrect, PTL
\* The file that first tells a key is the one an explanation looks at.
LEMMA FoundFirst ==
  ASSUME NEW events, Ledger(events), NEW state, state.ordered = events, NEW key
  PROVE  LET e == find(state, key)
         IN  /\ e = None => \A f \in events : event_key(f) # key
             /\ e # None => e \in events /\ event_key(e) = key
             /\ \A f \in events : event_key(f) = key => e.at <= f.at
<1> DEFINE same == {f \in events : event_key(f) = key}
           e    == find(state, key)
<1>1. e = FirstOf(same)
  BY DEF find
<1>2. CASE same = {}
  BY <1>1, <1>2 DEF FirstOf
<1>3. CASE same # {}
  <2>1. Ledger(same)
    BY SubsetIsLedger
  <2> HIDE DEF e, same
  <2>2. e \in same /\ \A f \in same \ {e} : Precedes(e, f)
    BY <1>1, <1>3, <2>1, FirstOfProperties
  <2>3. e \in events /\ event_key(e) = key
    BY <2>2 DEF same
  <2>4. e # None /\ e.at \in Nat
    BY <2>3, NoneAssumption, EventFields DEF Ledger
  <2>5. ASSUME NEW f \in events, event_key(f) = key PROVE e.at <= f.at
    <3>1. f = e \/ Precedes(e, f)
      BY <2>2, <2>5 DEF same
    <3>2. f.at \in Nat
      BY EventFields DEF Ledger
    <3> QED
      BY <2>4, <3>1, <3>2 DEF Precedes
  <2> QED
    BY <2>3, <2>4, <2>5 DEF e
<1> QED
  BY <1>2, <1>3

\* What is derived from an event depends on its key only.
LEMMA SameKeySameFact ==
  ASSUME NEW state, NEW e, NEW f, event_key(e) = event_key(f)
  PROVE  status_of(state, e) = status_of(state, f) /\ historical_of(state, e) = historical_of(state, f)
<1>1. e.id = f.id /\ e.kind = f.kind
  BY DEF event_key
<1> QED
  BY <1>1 DEF status_of, historical_of

\* An explanation of an event and the facts of a report tell the same story,
\* at every instant and also when several files claim the key
\* (explain.explain_event, models/state.LedgerState.find).
THEOREM ExplanationsAreFacts == Spec => []EventExplanationAgreesWithFacts
<1>1. TypeOK => EventExplanationAgreesWithFacts
  <2> SUFFICES ASSUME TypeOK, NEW t \in 0 .. clock, NEW key \in EventKeys
               PROVE  LET told == explain_event(project(charter, ledger, t), key)
                      IN  /\ told.found <=> \E f \in FactsOf(ReportAt(t)) : f.event_key = key
                          /\ \A f \in FactsOf(ReportAt(t)) :
                               f.event_key = key =>
                                 /\ f.status = told.status /\ f.historical = told.historical
                                 /\ told.committed_at <= f.committed_at
    BY DEF EventExplanationAgreesWithFacts
  <2> DEFINE state == project(charter, ledger, t)
             seen  == visible(ledger, t)
             told  == explain_event(state, key)
             e     == find(state, key)
             facts == FactsOf(ReportAt(t))
  <2>1. Ledger(seen) /\ state.ordered = seen /\ facts = {EventFact(state, f) : f \in seen}
    BY ReportIsOf
  <2> HIDE DEF state, seen, facts
  <2>2. /\ e = None => \A f \in seen : event_key(f) # key
        /\ e # None => e \in seen /\ event_key(e) = key
        /\ \A f \in seen : event_key(f) = key => e.at <= f.at
    BY <2>1, FoundFirst
  <2>3. \A f : LET fact == EventFact(state, f)
               IN  /\ fact.event_key = event_key(f) /\ fact.committed_at = f.at
                   /\ fact.status = status_of(state, f) /\ fact.historical = historical_of(state, f)
    BY DEF EventFact
  <2>4. told = IF e = None
               THEN [found |-> FALSE, committed_at |-> None, status |-> None, historical |-> FALSE]
               ELSE [found |-> TRUE, committed_at |-> e.at, status |-> status_of(state, e),
                     historical |-> historical_of(state, e)]
    BY DEF explain_event
  <2>5. /\ told.found <=> e # None
        /\ e # None => told.committed_at = e.at /\ told.status = status_of(state, e)
                         /\ told.historical = historical_of(state, e)
    <3> HIDE DEF told, e
    <3>1. CASE e = None
      BY <2>4, <3>1
    <3>2. CASE e # None
      BY <2>4, <3>2
    <3> QED
      BY <3>1, <3>2
  <2> HIDE DEF told, e
  <2>6. told.found <=> \E f \in facts : f.event_key = key
    BY <2>1, <2>2, <2>3, <2>5
  <2>7. ASSUME NEW f \in facts, f.event_key = key
        PROVE  f.status = told.status /\ f.historical = told.historical /\ told.committed_at <= f.committed_at
    <3>1. PICK g \in seen : f = EventFact(state, g)
      BY <2>1
    <3>2. event_key(g) = key /\ f.committed_at = g.at /\ f.status = status_of(state, g)
          /\ f.historical = historical_of(state, g)
      BY <2>3, <2>7, <3>1
    <3>3. e # None
      BY <2>2, <3>2
    <3>4. status_of(state, g) = status_of(state, e) /\ historical_of(state, g) = historical_of(state, e)
      BY <2>2, <3>2, <3>3, SameKeySameFact
    <3> QED
      BY <2>2, <2>5, <3>2, <3>3, <3>4
  <2> QED
    BY <2>6, <2>7 DEF told, facts, state
<1> QED
  BY <1>1, TypeCorrect, PTL

\* What the projection makes of a carve-out: active while nothing ended it.
LEMMA ActiveMeansNothingEndedIt ==
  ASSUME NEW c, NEW events, Ledger(events), NEW t \in Nat, NEW id \in ProjectedIds(events)
  PROVE  LET first == FirstOf(OfKind(events, CARVEOUT_RATIFIED, id))
         IN  CarveOutState(c, events, id, t).status = ACTIVE <=>
               /\ OfKind(events, CARVEOUT_RETIRED, id) = {} /\ OfKind(events, CARVEOUT_EXPIRED, id) = {}
               /\ first.expires_at # None => t < first.expires_at
               /\ first.non_goal \notin retired_non_goals(c)
<1> DEFINE first == FirstOf(OfKind(events, CARVEOUT_RATIFIED, id))
           retirement == FirstOf(OfKind(events, CARVEOUT_RETIRED, id))
           expiration == FirstOf(OfKind(events, CARVEOUT_EXPIRED, id))
           life == lifecycle(first.expires_at, first.non_goal \in retired_non_goals(c), retirement, expiration, t)
<1>1. first \in events /\ first.kind = CARVEOUT_RATIFIED
  <2>1. OfKind(events, CARVEOUT_RATIFIED, id) # {}
    BY DEF ProjectedIds, OfKind
  <2> QED
    BY <2>1, FirstOfKind
<1>2. first.expires_at \in Nat \cup {None}
  BY <1>1 DEF Ledger, ResolvedEvent, CarveOutRatified, CarveOutTerminal, ReviewOpened,
              ReviewClosed, Correction, CARVEOUT_RATIFIED, TERMINAL_KINDS, CARVEOUT_RETIRED,
              CARVEOUT_EXPIRED, REVIEW_OPENED, REVIEW_CLOSED, CORRECTION
<1>3. /\ retirement = None <=> OfKind(events, CARVEOUT_RETIRED, id) = {}
      /\ expiration = None <=> OfKind(events, CARVEOUT_EXPIRED, id) = {}
  BY FirstIsPresent
<1>4. CarveOutState(c, events, id, t).status = life.status
  BY DEF CarveOutState
<1>5. ACTIVE # MOOT /\ ACTIVE # RETIRED /\ ACTIVE # EXPIRED
  BY DEF ACTIVE, MOOT, RETIRED, EXPIRED
<1> HIDE DEF first, retirement, expiration
<1>6. life.status = ACTIVE <=>
        /\ retirement = None /\ expiration = None
        /\ first.expires_at # None => t < first.expires_at
        /\ first.non_goal \notin retired_non_goals(c)
  <2>1. CASE first.non_goal \in retired_non_goals(c)
    BY <1>5, <2>1 DEF lifecycle
  <2>2. CASE first.non_goal \notin retired_non_goals(c) /\ retirement # None
    BY <1>5, <2>2 DEF lifecycle
  <2>3. CASE first.non_goal \notin retired_non_goals(c) /\ retirement = None /\ expiration # None
    BY <1>5, <2>3 DEF lifecycle
  <2>4. CASE first.non_goal \notin retired_non_goals(c) /\ retirement = None /\ expiration = None
    <3>1. EffectiveExpiry(first.expires_at, expiration) = first.expires_at
      BY <2>4 DEF EffectiveExpiry
    <3>2. life.status = IF reached(first.expires_at, t) THEN EXPIRED ELSE ACTIVE
      BY <2>4, <3>1 DEF lifecycle
    <3>3. reached(first.expires_at, t) <=> ~(first.expires_at # None => t < first.expires_at)
      BY <1>2 DEF reached
    <3> HIDE DEF life
    <3> QED
      BY <1>5, <2>4, <3>2, <3>3
  <2> QED
    BY <2>1, <2>2, <2>3, <2>4
<1> HIDE DEF life
<1> QED
  BY <1>3, <1>4, <1>6 DEF first

\* A report shows in force exactly what has not ended: no retirement,
\* attestation, expiry or closure an evaluation sees is lost, wherever in the
\* order it stands, and nothing is shown ended that is not (projection.py,
\* LedgerState.status_of).
THEOREM ReportsShowWhatIsInForce == Spec => []ShownInForceExactlyWhileInForce
<1>1. TypeOK => ShownInForceExactlyWhileInForce
  <2> SUFFICES ASSUME TypeOK, NEW t \in 0 .. clock, NEW f \in FactsOf(ReportAt(t))
               PROVE  LET id == f.event_key[1]
                          Seen(kind) == OfKind(visible(ledger, t), kind, id) # {}
                      IN  CASE id \in CarveOutIds /\ Seen(CARVEOUT_RATIFIED) ->
                                 f.status = ACTIVE <=>
                                   /\ ~Seen(CARVEOUT_RETIRED) /\ ~Seen(CARVEOUT_EXPIRED)
                                   /\ Ratified(id, t).expires_at # None => t < Ratified(id, t).expires_at
                                   /\ Ratified(id, t).non_goal \notin retired_non_goals(charter)
                            [] id \in ReviewIds /\ Seen(REVIEW_OPENED) ->
                                 f.status = (IF Seen(REVIEW_CLOSED) THEN CLOSED ELSE OPEN)
                            [] OTHER -> f.status = None
    BY DEF ShownInForceExactlyWhileInForce
  <2> DEFINE state == project(charter, ledger, t)
             seen  == visible(ledger, t)
  <2>1. /\ Ledger(seen) /\ t \in Nat
        /\ state.carveouts = project_carveouts(charter, seen, t)
        /\ state.reviews = project_reviews(seen)
        /\ FactsOf(ReportAt(t)) = {EventFact(state, e) : e \in seen}
    BY ReportIsOf
  <2> HIDE DEF state
  <2>2. PICK e \in seen : f = EventFact(state, e)
    BY <2>1
  <2> DEFINE id == e.id
             Seen(kind) == OfKind(seen, kind, id) # {}
  <2>3. f.event_key[1] = id /\ f.status = status_of(state, e)
    BY <2>2 DEF EventFact, event_key
  <2>4. \/ e.kind \in TERMINAL_KINDS \cup {CARVEOUT_RATIFIED} /\ id \in CarveOutIds
        \/ e.kind \in {REVIEW_OPENED, REVIEW_CLOSED} /\ id \in ReviewIds
        \/ e.kind = CORRECTION /\ id \in CorrectionIds
    BY <2>1 DEF Ledger, ResolvedEvent, CarveOutRatified, CarveOutTerminal, ReviewOpened, ReviewClosed, Correction
  <2>5. /\ id \in DOMAIN state.carveouts <=> Seen(CARVEOUT_RATIFIED)
        /\ id \in DOMAIN state.reviews <=> Seen(REVIEW_OPENED)
    BY <2>1 DEF project_carveouts, project_reviews, ProjectedIds, OfKind
  <2> HIDE DEF seen
  <2>6. CASE e.kind \in TERMINAL_KINDS \cup {CARVEOUT_RATIFIED} /\ id \in CarveOutIds
    <3>1. id \notin ReviewIds
      BY <2>6, IdsAssumption
    <3>2. status_of(state, e) = IF Seen(CARVEOUT_RATIFIED) THEN state.carveouts[id].status ELSE None
      BY <2>5, <2>6 DEF status_of, TERMINAL_KINDS, CARVEOUT_RATIFIED, CARVEOUT_RETIRED, CARVEOUT_EXPIRED,
                        REVIEW_OPENED, REVIEW_CLOSED, CORRECTION
    <3>3. CASE Seen(CARVEOUT_RATIFIED)
      <4>1. id \in ProjectedIds(seen)
        BY <3>3 DEF ProjectedIds, OfKind
      <4>2. state.carveouts[id] = CarveOutState(charter, seen, id, t)
        BY <2>1, <4>1 DEF project_carveouts
      <4>3. f.status = ACTIVE <=>
              /\ ~Seen(CARVEOUT_RETIRED) /\ ~Seen(CARVEOUT_EXPIRED)
              /\ Ratified(id, t).expires_at # None => t < Ratified(id, t).expires_at
              /\ Ratified(id, t).non_goal \notin retired_non_goals(charter)
        BY <2>1, <2>3, <3>2, <3>3, <4>1, <4>2, ActiveMeansNothingEndedIt DEF Ratified, seen
      <4> QED
        BY <2>3, <2>6, <3>1, <3>3, <4>3 DEF seen
    <3>4. CASE ~Seen(CARVEOUT_RATIFIED)
      BY <2>3, <2>6, <3>1, <3>2, <3>4 DEF seen
    <3> QED
      BY <3>3, <3>4
  <2>7. CASE e.kind \in {REVIEW_OPENED, REVIEW_CLOSED} /\ id \in ReviewIds
    <3>1. id \notin CarveOutIds
      BY <2>7, IdsAssumption
    <3>2. status_of(state, e) = IF Seen(REVIEW_OPENED) THEN state.reviews[id].status ELSE None
      BY <2>5, <2>7 DEF status_of, TERMINAL_KINDS, CARVEOUT_RATIFIED, CARVEOUT_RETIRED, CARVEOUT_EXPIRED,
                        REVIEW_OPENED, REVIEW_CLOSED, CORRECTION
    <3>3. Seen(REVIEW_OPENED) => state.reviews[id].status = IF Seen(REVIEW_CLOSED) THEN CLOSED ELSE OPEN
      BY <2>1, <2>5, FirstIsPresent DEF project_reviews, ReviewState
    <3> QED
      BY <2>3, <2>7, <3>1, <3>2, <3>3 DEF seen
  <2>8. CASE e.kind = CORRECTION /\ id \in CorrectionIds
    <3>1. id \notin CarveOutIds /\ id \notin ReviewIds
      BY <2>8, IdsAssumption
    <3>2. status_of(state, e) = None
      BY <2>8 DEF status_of, TERMINAL_KINDS, CARVEOUT_RATIFIED, CARVEOUT_RETIRED, CARVEOUT_EXPIRED,
                  REVIEW_OPENED, REVIEW_CLOSED, CORRECTION
    <3> QED
      BY <2>3, <3>1, <3>2
  <2> QED
    BY <2>4, <2>6, <2>7, <2>8
<1> QED
  BY <1>1, TypeCorrect, PTL
=============================================================================
