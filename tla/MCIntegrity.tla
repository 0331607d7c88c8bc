---------------------------- MODULE MCIntegrity -----------------------------
(***************************************************************************)
(* Every ledger of up to MaxEvents of a universe of files, in the total    *)
(* order: a carve-out, a review and a correction, at two instants, with    *)
(* canonical files and copies.                                             *)
(***************************************************************************)
EXTENDS CleanLedger

CONSTANTS MaxEvents, Instants, NG1, NG2

MCDeclared == {NG1}

Global == [global_ |-> TRUE, non_goals |-> {}]

Universe ==
  {[kind |-> CARVEOUT_RATIFIED, id |-> 1, non_goal |-> ng,
    expires_at |-> IF expires_in = None THEN None ELSE at + expires_in, at |-> at,
    sha |-> 1, path |-> LedgerPath(1, CARVEOUT_RATIFIED, IF ng = NG1 THEN 0 ELSE 1)] :
      ng \in NonGoalIds, at \in Instants, expires_in \in {None, 1}}
    \cup
  {[kind |-> kind, id |-> id, at |-> at, sha |-> 1, path |-> LedgerPath(id, kind, 0)] :
      kind \in TERMINAL_KINDS, id \in CarveOutIds, at \in Instants}
    \cup
  {[kind |-> REVIEW_OPENED, id |-> id, scope |-> Global, at |-> at,
    sha |-> 1, path |-> LedgerPath(id, REVIEW_OPENED, 0)] : id \in ReviewIds, at \in Instants}
    \cup
  {[kind |-> REVIEW_CLOSED, id |-> id, at |-> at, sha |-> sha,
    path |-> LedgerPath(id, REVIEW_CLOSED, sha - 1)] :
      id \in ReviewIds, at \in Instants, sha \in {1, 2}}
    \cup
  {[kind |-> CORRECTION, id |-> id, corrects |-> key, at |-> at, sha |-> 1,
    path |-> LedgerPath(id, CORRECTION, 0)] :
      id \in CorrectionIds, at \in Instants,
      key \in {<<1, CARVEOUT_RATIFIED>>, <<1, CARVEOUT_RETIRED>>} \cup CorrectionIds \X {CORRECTION}}

MCStreams ==
  UNION {{s \in [1 .. n -> Universe] :
            /\ \A k \in 1 .. n - 1 : Precedes(s[k], s[k + 1])
            /\ \A k, l \in 1 .. n : s[k].path = s[l].path => k = l} : n \in 0 .. MaxEvents}
=============================================================================
