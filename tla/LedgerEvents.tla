---------------------------- MODULE LedgerEvents ----------------------------
(***************************************************************************)
(* The ledger as the engine receives it: a set of resolved events, each a  *)
(* payload (models/events.py) joined to the provenance of the file that    *)
(* carries it (ResolvedEvent in models/state.py), and the total order the  *)
(* engine sorts them by (ordering.py).                                     *)
(*                                                                         *)
(* Ids and instants are naturals.  A commit sha is a natural that ranks it *)
(* among the shas of its instant, and a path is a natural that ranks the   *)
(* file name in string order: the engine only ever compares them.          *)
(***************************************************************************)
EXTENDS Integers, FiniteSets, FiniteSetsExt, SequencesExt, Absent

CONSTANTS CarveOutIds,    \* ids of the form CO-n
          CorrectionIds,  \* ids of the form CR-n
          ReviewIds,      \* ids of the form RV-n
          NonGoalIds      \* ids of the form NG-n

ASSUME IdsAssumption ==
  /\ CarveOutIds \subseteq Nat /\ CorrectionIds \subseteq Nat /\ ReviewIds \subseteq Nat
  /\ CarveOutIds \cap CorrectionIds = {}
  /\ CarveOutIds \cap ReviewIds = {}
  /\ CorrectionIds \cap ReviewIds = {}

-----------------------------------------------------------------------------
(* Payloads.                                                               *)

CARVEOUT_RATIFIED == "ratified"
CARVEOUT_RETIRED  == "retired"
CARVEOUT_EXPIRED  == "expired"
REVIEW_OPENED     == "opened"
REVIEW_CLOSED     == "closed"
CORRECTION        == "correction"

TERMINAL_KINDS == {CARVEOUT_RETIRED, CARVEOUT_EXPIRED}

\* A review covers everything or a non-empty list of non-goals, never both.
ReviewScope ==
  {s \in [global_ : BOOLEAN, non_goals : SUBSET NonGoalIds] :
      s.global_ <=> s.non_goals = {}}

EventKeys ==
  (CarveOutIds \X {CARVEOUT_RATIFIED, CARVEOUT_RETIRED, CARVEOUT_EXPIRED})
    \cup (ReviewIds \X {REVIEW_OPENED, REVIEW_CLOSED})
    \cup (CorrectionIds \X {CORRECTION})

\* `at` and `sha` are the provenance, `path` the file the event was read from.
CarveOutRatified ==
  [kind : {CARVEOUT_RATIFIED}, id : CarveOutIds, non_goal : NonGoalIds,
   expires_at : Nat \cup {None}, at : Nat, sha : Nat, path : Nat]
CarveOutTerminal ==
  [kind : TERMINAL_KINDS, id : CarveOutIds, at : Nat, sha : Nat, path : Nat]
ReviewOpened ==
  [kind : {REVIEW_OPENED}, id : ReviewIds, scope : ReviewScope,
   at : Nat, sha : Nat, path : Nat]
ReviewClosed ==
  [kind : {REVIEW_CLOSED}, id : ReviewIds, at : Nat, sha : Nat, path : Nat]
Correction ==
  [kind : {CORRECTION}, id : CorrectionIds, corrects : EventKeys,
   at : Nat, sha : Nat, path : Nat]

ResolvedEvent ==
  CarveOutRatified \cup CarveOutTerminal \cup ReviewOpened \cup ReviewClosed \cup Correction

ASSUME NoneAssumption == None \notin Nat /\ None \notin NonGoalIds /\ None \notin ResolvedEvent

event_key(e) == <<e.id, e.kind>>

-----------------------------------------------------------------------------
(* Paths and the total order.                                              *)

\* The suffixes in string order: closed < correction < expired < opened < ...
SuffixRank(kind) ==
  CASE kind = REVIEW_CLOSED     -> 0
    [] kind = CORRECTION        -> 1
    [] kind = CARVEOUT_EXPIRED  -> 2
    [] kind = REVIEW_OPENED     -> 3
    [] kind = CARVEOUT_RATIFIED -> 4
    [] kind = CARVEOUT_RETIRED  -> 5

\* ledger/<id>.<kind>.yaml is the canonical file of a key; a file that repeats
\* the payload of another under a different name has copy = 1.
LedgerPath(id, kind, copy) == 2 * (6 * id + SuffixRank(kind)) + copy

\* order_key: the instant, then the commit, then the path.
Precedes(a, b) ==
  \/ a.at < b.at
  \/ a.at = b.at /\ a.sha < b.sha
  \/ a.at = b.at /\ a.sha = b.sha /\ a.path < b.path

\* total_order sorts by order_key: an event stands behind those that precede it.
Position(events, e) == Cardinality({f \in events : Precedes(f, e)}) + 1
total_order(events) ==
  [i \in 1 .. Cardinality(events) |-> CHOOSE e \in events : Position(events, e) = i]

\* What `dict.setdefault` keeps of a set of events met in the total order.
FirstOf(events) ==
  IF events = {} THEN None
  ELSE CHOOSE e \in events : \A f \in events \ {e} : Precedes(e, f)

\* Mutant: a correction stands in for the terminal event it corrects.
OfKindOrCorrected(events, kind, id) ==
  {e \in events : \/ e.kind = kind /\ e.id = id
                  \/ e.kind = CORRECTION /\ kind \in TERMINAL_KINDS /\ e.corrects = <<id, kind>>}
OfKind(events, kind, id) == {e \in events : e.kind = kind /\ e.id = id}

\* A ledger whose files are distinct is totally ordered by Precedes.
UniquePaths(events) == \A e, f \in events : e.path = f.path => e = f
=============================================================================
