---------------------------- MODULE CleanLedger -----------------------------
(***************************************************************************)
(* The integrity check and the projection read the same ledger by          *)
(* different rules: the check walks it in order and remembers what came    *)
(* before, the projection looks events up by id wherever they are and      *)
(* keeps the first.  This module relates the two.                          *)
(***************************************************************************)
EXTENDS IntegrityLoop, Projection

LedgerOf(stream) == ToSet(stream)
LastInstant(stream) == Max({e.at : e \in LedgerOf(stream)} \cup {0})

\* The check is handed the total order of a ledger.
ASSUME StreamsAreLedgers ==
  \A stream \in Streams : UniquePaths(LedgerOf(stream)) /\ stream = total_order(LedgerOf(stream))

DeclaringCharter ==
  [status |-> "ratified", adopted_at |-> None,
   non_goals |-> [ng \in Declared |-> [status |-> "active", budget |-> None]]]

\* A stream without orphans and duplicates projects without loss: every event
\* that ends a carve-out or a review is the one the projection uses, and it
\* ends what began no later.
CleanLedgerProjectsFaithfully ==
  pc = "done" /\ Codes(bag) \cap {E0502, E0503} = {} =>
    LET state == project(DeclaringCharter, LedgerOf(events), LastInstant(events))
    IN  \A e \in LedgerOf(events) :
          /\ e.kind \in TERMINAL_KINDS =>
               /\ e.id \in DOMAIN state.carveouts
               /\ state.carveouts[e.id].terminal_at = e.at
               /\ state.carveouts[e.id].ratified_at <= e.at
          /\ e.kind = REVIEW_CLOSED =>
               /\ e.id \in DOMAIN state.reviews
               /\ state.reviews[e.id].closed_at = e.at
               /\ state.reviews[e.id].opened_at <= e.at

\* The ledger as if nobody had corrected anything.
WithoutCorrections(ledger) == {e \in ledger : e.kind # CORRECTION}

\* Corrections annotate and never act: without them the ledger projects, at
\* every instant of an event, to the same carve-outs, reviews and baselines,
\* and what the check says of the other events is the same, whatever a
\* correction targets and wherever in the order it is.
CorrectionsOnlyAnnotate ==
  pc = "done" =>
    LET others == WithoutCorrections(LedgerOf(events))
        Acts   == {E0501, E0502, E0503}
    IN  /\ \A t \in {e.at : e \in LedgerOf(events)} :
             LET all  == project(DeclaringCharter, LedgerOf(events), t)
                 rest == project(DeclaringCharter, others, t)
             IN  /\ all.carveouts = rest.carveouts /\ all.reviews = rest.reviews
                 /\ all.per_non_goal = rest.per_non_goal /\ all.cumulative = rest.cumulative
        /\ Codes(bag) \cap Acts = Codes(Findings(Declared, total_order(others))) \cap Acts
=============================================================================
