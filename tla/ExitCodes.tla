----------------------------- MODULE ExitCodes ------------------------------
(***************************************************************************)
(* diagnostics.py, errors.py and version.py: the severity and exit code of *)
(* a diagnostic, the exit code of a run, and the negotiation of the spec   *)
(* version.  A diagnostic is its code; the diagnostics of a run are a set, *)
(* for nothing here depends on their number or order.                      *)
(***************************************************************************)
EXTENDS Integers, Sequences, FiniteSets, FiniteSetsExt

\* The registry, family by family.
CharterErrors    == {"E0201", "E0202", "E0203", "E0204", "E0205", "E0206"}
LedgerErrors     == {"E0301", "E0302", "E0303", "E0304", "E0305", "E0306", "E0307", "E0308"}
RepositoryErrors == {"E0401", "E0402", "E0405", "E0406"}
IntegrityErrors  == {"E0501", "E0502", "E0503", "E0504", "E0505"}
BlockErrors      == {"E0601", "E0602", "E0603", "E0604", "E0605", "E0606"}
PathErrors       == {"E0701", "E0702", "E0705", "E0707"}
TraceErrors      == {"E0801", "E0803", "E0901"}
Errors ==
  {"E0101"} \cup CharterErrors \cup LedgerErrors \cup RepositoryErrors \cup IntegrityErrors
    \cup BlockErrors \cup PathErrors \cup TraceErrors
Warnings == {"W0102", "W0403", "W1003", "W1004"}
Diagnostics == Errors \cup Warnings

OK               == 0
VIOLATED         == 1
INPUT_INVALID    == 3
ENVIRONMENT      == 4
SPEC_UNSUPPORTED == 5

\* REGISTRY[code].exit_code
exit_code_of(code) ==
  CASE code \in Warnings -> OK
    [] code = "E0101" -> SPEC_UNSUPPORTED
    [] code \in {"E0201", "E0301", "E0304", "E0308"} -> INPUT_INVALID
    [] code \in {"E0401", "E0402", "E0406"} -> ENVIRONMENT
    [] OTHER -> VIOLATED

\* Codes that mean the engine ran and reached a conclusion.
CONCLUSIVE == {OK, VIOLATED}

has_errors(bag) == bag \cap Errors # {}

\* Most severe first: a failure that kept the engine from a conclusion
\* outranks a conclusion.
EXIT_CODE_PRECEDENCE == <<70, 5, 4, 3, 2, 1>>

\* Mutant: the numerically least code instead of the most severe one.
rank_by_number(code) == code
\* Codes outside the list rank last.
rank(code) ==
  Min({k \in DOMAIN EXIT_CODE_PRECEDENCE : EXIT_CODE_PRECEDENCE[k] = code}
        \cup {Len(EXIT_CODE_PRECEDENCE) + 1})

\* The exit code of a run: `codes` are those of the diagnostics that count.
worst_of(codes, fail_on_warning) ==
  LET failing == codes \ {0}
  IN  IF failing = {}
      THEN IF fail_on_warning /\ codes # {} THEN 1 ELSE 0
      ELSE CHOOSE c \in failing : \A d \in failing : rank(c) <= rank(d)

worst_exit_code(bag, fail_on_warning) ==
  worst_of({exit_code_of(d) : d \in (bag \cap Errors) \cup (IF fail_on_warning THEN bag \cap Warnings ELSE {})},
           fail_on_warning)

-----------------------------------------------------------------------------
(* Version negotiation.  A version is <<major, minor>>, MALFORMED when the *)
(* declared text does not parse.                                           *)

CONSTANT MALFORMED

ASSUME MalformedAssumption == MALFORMED \notin Nat \X Nat

SUPPORTED_SPEC_MAJORS == {0}
SPEC_MINOR == 1

negotiate(declared) ==
  CASE declared = MALFORMED -> "E0101"
    [] declared # MALFORMED /\ declared[1] \notin SUPPORTED_SPEC_MAJORS -> "E0101"
    [] declared # MALFORMED /\ declared[1] \in SUPPORTED_SPEC_MAJORS
         -> IF declared[2] > SPEC_MINOR THEN "W0102" ELSE "ok"

can_evaluate(negotiation) == negotiation \in {"ok", "W0102"}
=============================================================================
