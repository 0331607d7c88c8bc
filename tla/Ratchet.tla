------------------------------ MODULE Ratchet -------------------------------
(***************************************************************************)
(* What the level triggers promise about the counts they watch: the        *)
(* ratchet of the A2 decision, without ledger, dates or review lifecycles. *)
(*                                                                         *)
(* For every watched scope (a non-goal, or the whole charter) `level` is   *)
(* the number of active carve-outs, `baseline` the floor set by the last   *)
(* covering review, None before the first, and `reviewed` the instants at  *)
(* which such reviews closed.  Growth leaves the baseline where it is, a   *)
(* fall below it lowers it for good, and only the closure of a review sets *)
(* it anew, at the level of that moment.                                   *)
(***************************************************************************)
EXTENDS Integers

CONSTANTS Watched, None
VARIABLES level, baseline, reviewed
vars == <<level, baseline, reviewed>>

Init ==
  /\ level = [s \in Watched |-> 0]
  /\ baseline = [s \in Watched |-> None]
  /\ reviewed = [s \in Watched |-> {}]

Lower(floor, n) == IF floor = None \/ floor <= n THEN floor ELSE n

Unreviewed(s) == reviewed'[s] = reviewed[s]
Reviewed(s) == reviewed[s] \subseteq reviewed'[s] /\ reviewed'[s] # reviewed[s]

Hold(s) == Unreviewed(s) /\ level'[s] = level[s] /\ baseline'[s] = baseline[s]
Grow(s) == Unreviewed(s) /\ level'[s] > level[s] /\ baseline'[s] = baseline[s]
Shrink(s) == Unreviewed(s) /\ level'[s] < level[s] /\ baseline'[s] = Lower(baseline[s], level'[s])
Rebase(s) == Reviewed(s) /\ level'[s] = level[s] /\ baseline'[s] = level[s]

\* One step of the repository may move several scopes, never a scope twice.
Next ==
  /\ level' \in [Watched -> Nat]
  /\ baseline' \in [Watched -> Nat \cup {None}]
  /\ reviewed' \in [Watched -> SUBSET Nat]
  /\ \A s \in Watched : Hold(s) \/ Grow(s) \/ Shrink(s) \/ Rebase(s)

Spec == Init /\ [][Next]_vars
=============================================================================
