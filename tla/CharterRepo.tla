---------------------------- MODULE CharterRepo -----------------------------
(***************************************************************************)
(* A repository under a charter: the charter declarations, the append-only *)
(* ledger on the default branch, and the committer's clock.  The engine    *)
(* keeps no state: what it reports at an instant is an operator over these *)
(* variables.  The actions are the commits that the event model            *)
(* (models/events.py) and the charter model (models/charter.py) allow, and *)
(* the passing of time.                                                    *)
(*                                                                         *)
(* The engine accepts ledgers that its integrity check then complains      *)
(* about.  Irregular names the departures from an orderly ledger that a    *)
(* model includes:                                                         *)
(*   "undeclared"  ratifications against a non-goal the charter lacks;     *)
(*   "orphan"      a terminal or closing event without its origin;         *)
(*   "dangling"    a correction of a key no event has, or of a correction; *)
(*   "duplicate"   a second event where one is allowed, also as a second   *)
(*                 file with the key of the first;                         *)
(*   "late"        a terminal event for a carve-out whose declared expiry  *)
(*                 has already taken effect (no integrity rule forbids it);*)
(*   "batch"       several events introduced by one commit;                *)
(*   "tie"         a commit at the very instant of another, or at the very *)
(*                 instant at which a declared expiry takes effect;        *)
(*   "backdated"   a commit whose committer time is earlier than commits   *)
(*                 already made (a wrong clock, a rewritten branch).       *)
(***************************************************************************)
EXTENDS Triggers, Settings

CONSTANTS InitialCharters,  \* the charters a repository may start from
          Configs,          \* the config blocks a charter edit may write
          Profiles,         \* the profiles a charter edit may switch to
          Budgets,          \* the budgets a charter edit may write
          RetirableNonGoals,\* the non-goals a charter edit may retire
          Expiries,         \* how long after its ratification a carve-out expires
          Scopes,           \* the scopes reviews are opened with
          Shas,             \* commit shas of one instant, hence commits per instant
          Irregular,        \* see above
          MaxEvents,        \* bound on the ledger
          LastCommit,       \* bound on the instant of the last commit
          MaxTime           \* bound on the clock

IrregularKinds == {"undeclared", "orphan", "dangling", "duplicate", "late", "batch", "tie", "backdated"}

NonGoal == [status : {"active", "retired"}, budget : Nat \cup {None}]

\* A charter declares finitely many non-goals (Charter._unique_ids: ids are distinct).
CharterOver(declared) ==
  [status     : {"draft", "ratified"},
   profile    : ProfileNames,
   adopted_at : Nat \cup {None},
   non_goals  : [declared -> NonGoal],
   config     : Optional(ConfigBlock)]
IsCharter(c) ==
  \E declared \in SUBSET NonGoalIds : IsFiniteSet(declared) /\ c \in CharterOver(declared)

ASSUME RepoAssumption ==
  /\ \A c \in InitialCharters : IsCharter(c)
  /\ Configs \subseteq Optional(ConfigBlock)
  /\ Profiles \subseteq ProfileNames
  /\ Budgets \subseteq Nat \cup {None}
  /\ RetirableNonGoals \subseteq NonGoalIds
  /\ Expiries \subseteq Nat \cup {None}
  /\ Scopes \subseteq ReviewScope
  /\ Shas \subseteq Nat
  /\ Irregular \subseteq IrregularKinds
  /\ MaxEvents \in Nat /\ LastCommit \in Nat /\ MaxTime \in Nat

\* What an evaluation of a charter resolves first.
SettingsOf(c) == resolve_settings(c.config, c.profile)

VARIABLES charter, ledger, clock
vars == <<charter, ledger, clock>>

Init ==
  /\ charter \in InitialCharters
  /\ ledger = {}
  /\ clock = 0

-----------------------------------------------------------------------------
(* Commits to the ledger.                                                  *)

Has(kind, id) == OfKind(ledger, kind, id) # {}
Unused(kind, ids) == {id \in ids : ~Has(kind, id)}

\* Ids are handed out in order and never reused, save in irregular ledgers.
NewIds(kind, ids) ==
  {id \in Unused(kind, ids) : \A other \in Unused(kind, ids) : id <= other}
    \cup (IF "duplicate" \in Irregular THEN ids \ Unused(kind, ids) ELSE {})

\* The committer times of commits made now.
Stamps == IF "backdated" \in Irregular THEN 0 .. clock ELSE {clock}

NewCommit(at, sha) ==
  /\ clock <= LastCommit
  /\ \A e \in ledger :
       /\ ~(e.at = at /\ e.sha = sha)
       /\ \/ "tie" \in Irregular
          \/ e.at # at /\ (e.kind = CARVEOUT_RATIFIED => e.expires_at # at)

\* The file of a new event: the canonical one, or a copy once that exists.
NewPath(kind, id) == LedgerPath(id, kind, IF Has(kind, id) THEN 1 ELSE 0)

\* Mutant: a commit may write a file anew.
Overwrite(events) ==
  /\ Cardinality(ledger) + Cardinality(events) <= MaxEvents
  /\ ledger' = ledger \cup events
  /\ UNCHANGED <<charter, clock>>
Commit(events) ==
  /\ Cardinality(ledger) + Cardinality(events) <= MaxEvents
  /\ \A e \in events, f \in ledger : e.path # f.path
  /\ \A e, f \in events : e.path = f.path => e = f
  /\ ledger' = ledger \cup events
  /\ UNCHANGED <<charter, clock>>

Ratification(id, ng, expires_in, at, sha) ==
  [kind |-> CARVEOUT_RATIFIED, id |-> id, non_goal |-> ng,
   expires_at |-> IF expires_in = None THEN None ELSE at + expires_in,
   at |-> at, sha |-> sha, path |-> NewPath(CARVEOUT_RATIFIED, id)]

Terminal(kind, id, at, sha) ==
  [kind |-> kind, id |-> id, at |-> at, sha |-> sha, path |-> NewPath(kind, id)]

Opening(id, scope, at, sha) ==
  [kind |-> REVIEW_OPENED, id |-> id, scope |-> scope,
   at |-> at, sha |-> sha, path |-> NewPath(REVIEW_OPENED, id)]

Closing(id, at, sha) ==
  [kind |-> REVIEW_CLOSED, id |-> id, at |-> at, sha |-> sha,
   path |-> NewPath(REVIEW_CLOSED, id)]

Correcting(id, target, at, sha) ==
  [kind |-> CORRECTION, id |-> id, corrects |-> target,
   at |-> at, sha |-> sha, path |-> NewPath(CORRECTION, id)]

RatifiableNonGoals ==
  IF "undeclared" \in Irregular THEN NonGoalIds ELSE DOMAIN charter.non_goals

Ratify(id) ==
  \E ng \in RatifiableNonGoals, x \in Expiries, at \in Stamps, sha \in Shas :
    /\ id \in NewIds(CARVEOUT_RATIFIED, CarveOutIds)
    /\ NewCommit(at, sha)
    /\ Commit({Ratification(id, ng, x, at, sha)})

\* Adoption introduces the pre-existing carve-outs by one commit.
RatifyTogether ==
  \E first, second \in Unused(CARVEOUT_RATIFIED, CarveOutIds),
     ng1, ng2 \in RatifiableNonGoals, at \in Stamps, sha \in Shas :
    /\ "batch" \in Irregular
    /\ first < second
    /\ NewCommit(at, sha)
    /\ Commit({Ratification(first, ng1, None, at, sha), Ratification(second, ng2, None, at, sha)})

Ended(id) == Has(CARVEOUT_RETIRED, id) \/ Has(CARVEOUT_EXPIRED, id)

AlreadyExpired(id) ==
  /\ Has(CARVEOUT_RATIFIED, id)
  /\ CarveOutState(charter, ledger, id, clock).status = EXPIRED

MayEnd(id) ==
  /\ Has(CARVEOUT_RATIFIED, id) \/ "orphan" \in Irregular
  /\ ~Ended(id) \/ "duplicate" \in Irregular
  /\ ~AlreadyExpired(id) \/ "late" \in Irregular

Retire(id) ==
  \E at \in Stamps, sha \in Shas :
    /\ MayEnd(id)
    /\ NewCommit(at, sha)
    /\ Commit({Terminal(CARVEOUT_RETIRED, id, at, sha)})

\* The attestation that an expiry condition was met.
Expire(id) ==
  \E at \in Stamps, sha \in Shas :
    /\ MayEnd(id)
    /\ NewCommit(at, sha)
    /\ Commit({Terminal(CARVEOUT_EXPIRED, id, at, sha)})

OpenReview(id) ==
  \E scope \in Scopes, at \in Stamps, sha \in Shas :
    /\ id \in NewIds(REVIEW_OPENED, ReviewIds)
    /\ NewCommit(at, sha)
    /\ Commit({Opening(id, scope, at, sha)})

MayClose(id) ==
  /\ Has(REVIEW_OPENED, id) \/ "orphan" \in Irregular
  /\ ~Has(REVIEW_CLOSED, id) \/ "duplicate" \in Irregular

CloseReview(id) ==
  \E at \in Stamps, sha \in Shas :
    /\ MayClose(id)
    /\ NewCommit(at, sha)
    /\ Commit({Closing(id, at, sha)})

\* A review whose opening and closing reach the default branch by one commit.
OpenAndCloseReview(id) ==
  \E scope \in Scopes, at \in Stamps, sha \in Shas :
    /\ "batch" \in Irregular
    /\ id \in Unused(REVIEW_OPENED, ReviewIds)
    /\ NewCommit(at, sha)
    /\ Commit({Opening(id, scope, at, sha), Closing(id, at, sha)})

Keys == {event_key(e) : e \in ledger}

\* The projection ignores corrections: they annotate the record.
Correct(id) ==
  \E target \in EventKeys, at \in Stamps, sha \in Shas :
    /\ id \in NewIds(CORRECTION, CorrectionIds)
    /\ (target \in Keys /\ target[2] # CORRECTION) \/ "dangling" \in Irregular
    /\ NewCommit(at, sha)
    /\ Commit({Correcting(id, target, at, sha)})

-----------------------------------------------------------------------------
(* Edits of charter.yaml, and time.                                        *)

RetireNonGoal(ng) ==
  /\ ng \in active_non_goals(charter) \cap RetirableNonGoals
  /\ charter' = [charter EXCEPT !.non_goals[ng].status = "retired"]
  /\ UNCHANGED <<ledger, clock>>

SetBudget(ng) ==
  \E budget \in Budgets :
    /\ ng \in active_non_goals(charter)
    /\ budget # charter.non_goals[ng].budget
    /\ charter' = [charter EXCEPT !.non_goals[ng].budget = budget]
    /\ UNCHANGED <<ledger, clock>>

\* The config block rewritten, as a whole or key by key.
SetConfig ==
  \E config \in Configs :
    /\ config # charter.config
    /\ charter' = [charter EXCEPT !.config = config]
    /\ UNCHANGED <<ledger, clock>>

SwitchProfile ==
  \E profile \in Profiles :
    /\ profile # charter.profile
    /\ charter' = [charter EXCEPT !.profile = profile]
    /\ UNCHANGED <<ledger, clock>>

RatifyCharter ==
  /\ charter.status = "draft"
  /\ charter' = [charter EXCEPT !.status = "ratified"]
  /\ UNCHANGED <<ledger, clock>>

Tick ==
  /\ clock < MaxTime
  /\ clock' = clock + 1
  /\ UNCHANGED <<charter, ledger>>

Relaxing ==
  \/ \E id \in CarveOutIds : Retire(id) \/ Expire(id)
  \/ \E id \in ReviewIds : CloseReview(id) \/ OpenAndCloseReview(id)
  \/ \E id \in CorrectionIds : Correct(id)

Tightening ==
  \/ \E id \in CarveOutIds : Ratify(id)
  \/ RatifyTogether
  \/ \E id \in ReviewIds : OpenReview(id)

EditCharter ==
  \/ \E ng \in NonGoalIds : RetireNonGoal(ng) \/ SetBudget(ng)
  \/ SetConfig \/ SwitchProfile \/ RatifyCharter

Next == Tightening \/ Relaxing \/ EditCharter \/ Tick

Spec == Init /\ [][Next]_vars

\* Time passes; nobody is obliged to commit anything.
FairSpec == Spec /\ WF_vars(Tick)

TypeOK ==
  /\ IsCharter(charter)
  /\ ledger \subseteq ResolvedEvent /\ IsFiniteSet(ledger) /\ UniquePaths(ledger)
  /\ clock \in Nat
  /\ \A e \in ledger : e.at <= clock
=============================================================================
