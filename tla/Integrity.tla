----------------------------- MODULE Integrity ------------------------------
(***************************************************************************)
(* What integrity.py promises about an event stream, stated of the stream  *)
(* as a whole: which positions violate which rule.  IntegrityLoop is the   *)
(* single pass the engine makes.                                           *)
(*                                                                         *)
(* A stream is a sequence of resolved events, meant to be in the total     *)
(* order; `declared` is the set of non-goals of the charter.  A finding is *)
(* <<code, position>>, or <<code, event key>> for a key several files      *)
(* claim.                                                                  *)
(***************************************************************************)
EXTENDS LedgerEvents

E0501 == "E0501"   \* unknown non-goal
E0502 == "E0502"   \* lifecycle event without its origin
E0503 == "E0503"   \* second lifecycle event
E0504 == "E0504"   \* event key claimed by several files
E0505 == "E0505"   \* unknown correction target
E0307 == "E0307"   \* correction of a correction

\* The kind that must come first, for the kinds that end something.
OriginOf(kind) == IF kind = REVIEW_CLOSED THEN REVIEW_OPENED ELSE CARVEOUT_RATIFIED

EndingKinds == TERMINAL_KINDS \cup {REVIEW_CLOSED}

\* A retirement and an attestation end the same thing.
EndsTheSame(e, f) ==
  /\ e.kind \in EndingKinds /\ f.kind \in EndingKinds
  /\ e.id = f.id /\ OriginOf(e.kind) = OriginOf(f.kind)

HasOrigin(stream, i) ==
  \E j \in 1 .. i - 1 : stream[j].kind = OriginOf(stream[i].kind) /\ stream[j].id = stream[i].id

UnknownNonGoal(declared, stream, i) ==
  stream[i].kind = CARVEOUT_RATIFIED /\ stream[i].non_goal \notin declared

Orphan(stream, i) == stream[i].kind \in EndingKinds /\ ~HasOrigin(stream, i)

Duplicate(stream, i) ==
  /\ stream[i].kind \in EndingKinds /\ HasOrigin(stream, i)
  /\ \E j \in 1 .. i - 1 : EndsTheSame(stream[i], stream[j]) /\ HasOrigin(stream, j)

\* A correction may name its own key here: the engine records the key first.
TargetExists(stream, i) == \E j \in 1 .. i : event_key(stream[j]) = stream[i].corrects

UnknownTarget(stream, i) == stream[i].kind = CORRECTION /\ ~TargetExists(stream, i)

CorrectionChain(stream, i) ==
  stream[i].kind = CORRECTION /\ TargetExists(stream, i) /\ stream[i].corrects[2] = CORRECTION

SharedKeys(stream) ==
  {event_key(stream[i]) :
     i \in {k \in DOMAIN stream : \E j \in DOMAIN stream \ {k} : event_key(stream[j]) = event_key(stream[k])}}

FindingsUpTo(declared, stream, n) ==
  {<<E0501, i>> : i \in {k \in 1 .. n : UnknownNonGoal(declared, stream, k)}}
    \cup {<<E0502, i>> : i \in {k \in 1 .. n : Orphan(stream, k)}}
    \cup {<<E0503, i>> : i \in {k \in 1 .. n : Duplicate(stream, k)}}
    \cup {<<E0505, i>> : i \in {k \in 1 .. n : UnknownTarget(stream, k)}}
    \cup {<<E0307, i>> : i \in {k \in 1 .. n : CorrectionChain(stream, k)}}

Findings(declared, stream) ==
  FindingsUpTo(declared, stream, Len(stream))
    \cup {<<E0504, key>> : key \in SharedKeys(stream)}

Codes(findings) == {f[1] : f \in findings}
=============================================================================
