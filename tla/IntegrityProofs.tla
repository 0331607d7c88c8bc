-------------------------- MODULE IntegrityProofs ---------------------------
(***************************************************************************)
(* The one pass of check_integrity reports exactly the violations of the   *)
(* integrity rules, for every stream and every charter.                    *)
(*                                                                         *)
(* The inductive invariant says what each set of the loop stands for when  *)
(* the positions before `i` have been visited.                             *)
(***************************************************************************)
EXTENDS CleanLedger, LedgerLemmas

Visited == 1 .. i - 1

\* The origins met so far.
OriginsMet ==
  /\ \A x \in CarveOutIds : x \in ratified_ids <=>
       \E j \in Visited : events[j].kind = CARVEOUT_RATIFIED /\ events[j].id = x
  /\ \A x \in ReviewIds : x \in review_opened_ids <=>
       \E j \in Visited : events[j].kind = REVIEW_OPENED /\ events[j].id = x

\* The ids whose ending was met after its origin: an orphan uses nothing up.
EndingsMet ==
  /\ \A x \in CarveOutIds : x \in carveout_terminal_seen <=>
       \E j \in Visited :
         events[j].kind \in TERMINAL_KINDS /\ events[j].id = x /\ HasOrigin(events, j)
  /\ \A x \in ReviewIds : x \in review_closed_seen <=>
       \E j \in Visited :
         events[j].kind = REVIEW_CLOSED /\ events[j].id = x /\ HasOrigin(events, j)

\* The keys met so far, and where.
KeysMet ==
  /\ \A key \in EventKeys : event_keys_seen[key] = {j \in Visited : event_key(events[j]) = key}
  /\ \A key \in EventKeys : key \in all_event_keys <=>
       \E j \in Visited : event_key(events[j]) = key

BagSoFar ==
  /\ pc = "scan" => bag = FindingsUpTo(Declared, events, i - 1)
  /\ pc = "done" => bag = Findings(Declared, events)

IInv == TypeOK /\ OriginsMet /\ EndingsMet /\ KeysMet /\ BagSoFar

-----------------------------------------------------------------------------
(* Events and findings.                                                    *)

\* What the kind of an event says of its id, and that its key is a key.
LEMMA EventShape ==
  ASSUME NEW e \in ResolvedEvent
  PROVE  /\ e.kind \in {CARVEOUT_RATIFIED, REVIEW_OPENED, REVIEW_CLOSED, CORRECTION} \cup TERMINAL_KINDS
         /\ e.kind = CARVEOUT_RATIFIED => e.id \in CarveOutIds
         /\ e.kind \in TERMINAL_KINDS  => e.id \in CarveOutIds
         /\ e.kind = REVIEW_OPENED     => e.id \in ReviewIds
         /\ e.kind = REVIEW_CLOSED     => e.id \in ReviewIds
         /\ e.kind = CORRECTION        => e.corrects \in EventKeys
         /\ event_key(e) \in EventKeys
<1>1. CASE e \in CarveOutRatified
  BY <1>1 DEF CarveOutRatified, EventKeys, event_key, CARVEOUT_RATIFIED, CARVEOUT_RETIRED,
    CARVEOUT_EXPIRED, REVIEW_OPENED, REVIEW_CLOSED, CORRECTION, TERMINAL_KINDS
<1>2. CASE e \in CarveOutTerminal
  BY <1>2 DEF CarveOutTerminal, EventKeys, event_key, CARVEOUT_RATIFIED, CARVEOUT_RETIRED,
    CARVEOUT_EXPIRED, REVIEW_OPENED, REVIEW_CLOSED, CORRECTION, TERMINAL_KINDS
<1>3. CASE e \in ReviewOpened
  BY <1>3 DEF ReviewOpened, EventKeys, event_key, CARVEOUT_RATIFIED, CARVEOUT_RETIRED,
    CARVEOUT_EXPIRED, REVIEW_OPENED, REVIEW_CLOSED, CORRECTION, TERMINAL_KINDS
<1>4. CASE e \in ReviewClosed
  BY <1>4 DEF ReviewClosed, EventKeys, event_key, CARVEOUT_RATIFIED, CARVEOUT_RETIRED,
    CARVEOUT_EXPIRED, REVIEW_OPENED, REVIEW_CLOSED, CORRECTION, TERMINAL_KINDS
<1>5. CASE e \in Correction
  BY <1>5 DEF Correction, EventKeys, event_key, CARVEOUT_RATIFIED, CARVEOUT_RETIRED,
    CARVEOUT_EXPIRED, REVIEW_OPENED, REVIEW_CLOSED, CORRECTION, TERMINAL_KINDS
<1> QED BY <1>1, <1>2, <1>3, <1>4, <1>5 DEF ResolvedEvent

\* The findings at one position.
FindingsAt(declared, stream, k) ==
  (IF UnknownNonGoal(declared, stream, k) THEN {<<E0501, k>>} ELSE {})
    \cup (IF Orphan(stream, k) THEN {<<E0502, k>>} ELSE {})
    \cup (IF Duplicate(stream, k) THEN {<<E0503, k>>} ELSE {})
    \cup (IF UnknownTarget(stream, k) THEN {<<E0505, k>>} ELSE {})
    \cup (IF CorrectionChain(stream, k) THEN {<<E0307, k>>} ELSE {})

\* One more position adds the findings at that position.
LEMMA OneMorePosition ==
  ASSUME NEW declared, NEW stream, NEW n \in Nat \ {0}
  PROVE  FindingsUpTo(declared, stream, n)
           = FindingsUpTo(declared, stream, n - 1) \cup FindingsAt(declared, stream, n)
<1> DEFINE A(m) == {<<E0501, k>> : k \in {l \in 1 .. m : UnknownNonGoal(declared, stream, l)}}
           B(m) == {<<E0502, k>> : k \in {l \in 1 .. m : Orphan(stream, l)}}
           C(m) == {<<E0503, k>> : k \in {l \in 1 .. m : Duplicate(stream, l)}}
           D(m) == {<<E0505, k>> : k \in {l \in 1 .. m : UnknownTarget(stream, l)}}
           E(m) == {<<E0307, k>> : k \in {l \in 1 .. m : CorrectionChain(stream, l)}}
<1>0. \A l : l \in 1 .. n <=> l \in 1 .. n - 1 \/ l = n
  OBVIOUS
<1>1. A(n) = A(n - 1) \cup (IF UnknownNonGoal(declared, stream, n) THEN {<<E0501, n>>} ELSE {})
  BY <1>0
<1>2. B(n) = B(n - 1) \cup (IF Orphan(stream, n) THEN {<<E0502, n>>} ELSE {})
  BY <1>0
<1>3. C(n) = C(n - 1) \cup (IF Duplicate(stream, n) THEN {<<E0503, n>>} ELSE {})
  BY <1>0
<1>4. D(n) = D(n - 1) \cup (IF UnknownTarget(stream, n) THEN {<<E0505, n>>} ELSE {})
  BY <1>0
<1>5. E(n) = E(n - 1) \cup (IF CorrectionChain(stream, n) THEN {<<E0307, n>>} ELSE {})
  BY <1>0
<1>6. /\ FindingsUpTo(declared, stream, n) = A(n) \cup B(n) \cup C(n) \cup D(n) \cup E(n)
      /\ FindingsUpTo(declared, stream, n - 1)
           = A(n - 1) \cup B(n - 1) \cup C(n - 1) \cup D(n - 1) \cup E(n - 1)
  BY DEF FindingsUpTo
<1> HIDE DEF A, B, C, D, E
<1> QED BY <1>1, <1>2, <1>3, <1>4, <1>5, <1>6 DEF FindingsAt

-----------------------------------------------------------------------------
(* One step of the pass, part by part.                                     *)

\* What every visit does to the position.
Advance == i \in 1 .. Len(events) /\ i' = i + 1 /\ UNCHANGED events

\* Advancing visits one more position, and leaves the stream alone.
LEMMA AdvanceVisits ==
  ASSUME TypeOK, Advance
  PROVE  /\ Visited' = Visited \cup {i}
         /\ i \notin Visited
         /\ event \in ResolvedEvent
         /\ i' \in 1 .. Len(events') + 1
<1>1. events \in Seq(ResolvedEvent) /\ i \in Nat /\ Len(events) \in Nat
  BY DEF TypeOK, Advance
<1>2. event \in ResolvedEvent
  BY <1>1 DEF Advance, event
<1>3. Visited' = Visited \cup {i} /\ i \notin Visited
  BY <1>1 DEF Advance, Visited
<1> QED BY <1>1, <1>2, <1>3 DEF Advance

\* Recording the key of the visited event keeps the keys met.
LEMMA KeysStep ==
  ASSUME TypeOK, KeysMet, Advance,
         event_keys_seen' = [event_keys_seen EXCEPT ![event_key(event)] = @ \cup {i}],
         all_event_keys' = all_event_keys \cup {event_key(event)}
  PROVE  /\ KeysMet'
         /\ event_keys_seen' \in [EventKeys -> SUBSET (1 .. Len(events'))]
         /\ all_event_keys' \subseteq EventKeys
<1>1. event_key(event) \in EventKeys
  BY AdvanceVisits, EventShape
<1>2. /\ event_keys_seen \in [EventKeys -> SUBSET (1 .. Len(events))]
      /\ all_event_keys \subseteq EventKeys
  BY DEF TypeOK
<1>3. event_keys_seen' \in [EventKeys -> SUBSET (1 .. Len(events'))]
  BY <1>1, <1>2 DEF Advance
<1>4. ASSUME NEW key \in EventKeys
      PROVE  event_keys_seen'[key] = {j \in Visited' : event_key(events'[j]) = key}
  <2>1. event_keys_seen'[key] = event_keys_seen[key] \cup (IF key = event_key(event) THEN {i} ELSE {})
    BY <1>1, <1>2
  <2>2. event_keys_seen[key] = {j \in Visited : event_key(events[j]) = key}
    BY DEF KeysMet
  <2>3. {j \in Visited \cup {i} : event_key(events[j]) = key}
          = {j \in Visited : event_key(events[j]) = key}
              \cup (IF key = event_key(event) THEN {i} ELSE {})
    BY DEF event
  <2> QED BY <2>1, <2>2, <2>3, AdvanceVisits DEF Advance
<1>5. ASSUME NEW key \in EventKeys
      PROVE  key \in all_event_keys' <=> \E j \in Visited' : event_key(events'[j]) = key
  <2>1. key \in all_event_keys <=> \E j \in Visited : event_key(events[j]) = key
    BY DEF KeysMet
  <2> QED BY <2>1, AdvanceVisits DEF Advance, event
<1>6. KeysMet'
  BY <1>4, <1>5 DEF KeysMet
<1> QED BY <1>1, <1>2, <1>3, <1>6

\* The id of a visited origin is recorded, no other.
LEMMA OriginsStep ==
  ASSUME TypeOK, OriginsMet, Advance,
         ratified_ids' = ratified_ids \cup (IF event.kind = CARVEOUT_RATIFIED THEN {event.id} ELSE {}),
         review_opened_ids' = review_opened_ids \cup (IF event.kind = REVIEW_OPENED THEN {event.id} ELSE {})
  PROVE  OriginsMet' /\ ratified_ids' \subseteq CarveOutIds /\ review_opened_ids' \subseteq ReviewIds
<1>1. /\ event.kind = CARVEOUT_RATIFIED => event.id \in CarveOutIds
      /\ event.kind = REVIEW_OPENED => event.id \in ReviewIds
  BY AdvanceVisits, EventShape
<1>2. ASSUME NEW x \in CarveOutIds
      PROVE  x \in ratified_ids' <=>
               \E j \in Visited' : events'[j].kind = CARVEOUT_RATIFIED /\ events'[j].id = x
  <2>1. x \in ratified_ids <=>
          \E j \in Visited : events[j].kind = CARVEOUT_RATIFIED /\ events[j].id = x
    BY DEF OriginsMet
  <2> QED BY <2>1, AdvanceVisits DEF Advance, event
<1>3. ASSUME NEW x \in ReviewIds
      PROVE  x \in review_opened_ids' <=>
               \E j \in Visited' : events'[j].kind = REVIEW_OPENED /\ events'[j].id = x
  <2>1. x \in review_opened_ids <=>
          \E j \in Visited : events[j].kind = REVIEW_OPENED /\ events[j].id = x
    BY DEF OriginsMet
  <2> QED BY <2>1, AdvanceVisits DEF Advance, event
<1>4. OriginsMet'
  BY <1>2, <1>3 DEF OriginsMet
<1> QED BY <1>1, <1>4 DEF TypeOK

\* The id of a visited ending that has its origin is recorded, no other.
LEMMA EndingsStep ==
  ASSUME TypeOK, EndingsMet, Advance,
         carveout_terminal_seen' = carveout_terminal_seen
           \cup (IF event.kind \in TERMINAL_KINDS /\ HasOrigin(events, i) THEN {event.id} ELSE {}),
         review_closed_seen' = review_closed_seen
           \cup (IF event.kind = REVIEW_CLOSED /\ HasOrigin(events, i) THEN {event.id} ELSE {})
  PROVE  /\ EndingsMet'
         /\ carveout_terminal_seen' \subseteq CarveOutIds
         /\ review_closed_seen' \subseteq ReviewIds
<1>1. /\ event.kind \in TERMINAL_KINDS => event.id \in CarveOutIds
      /\ event.kind = REVIEW_CLOSED => event.id \in ReviewIds
  BY AdvanceVisits, EventShape
<1>2. ASSUME NEW x \in CarveOutIds
      PROVE  x \in carveout_terminal_seen' <=>
               \E j \in Visited' :
                 events'[j].kind \in TERMINAL_KINDS /\ events'[j].id = x /\ HasOrigin(events', j)
  <2>1. x \in carveout_terminal_seen <=>
          \E j \in Visited :
            events[j].kind \in TERMINAL_KINDS /\ events[j].id = x /\ HasOrigin(events, j)
    BY DEF EndingsMet
  <2> QED BY <2>1, AdvanceVisits DEF Advance, event
<1>3. ASSUME NEW x \in ReviewIds
      PROVE  x \in review_closed_seen' <=>
               \E j \in Visited' :
                 events'[j].kind = REVIEW_CLOSED /\ events'[j].id = x /\ HasOrigin(events', j)
  <2>1. x \in review_closed_seen <=>
          \E j \in Visited :
            events[j].kind = REVIEW_CLOSED /\ events[j].id = x /\ HasOrigin(events, j)
    BY DEF EndingsMet
  <2> QED BY <2>1, AdvanceVisits DEF Advance, event
<1>4. EndingsMet'
  BY <1>2, <1>3 DEF EndingsMet
<1> QED BY <1>1, <1>4 DEF TypeOK

\* Reporting what is found at the visited position keeps the bag exact.
LEMMA BagStep ==
  ASSUME TypeOK, BagSoFar, Advance, pc = "scan", pc' = pc,
         bag' = bag \cup FindingsAt(Declared, events, i)
  PROVE  BagSoFar'
<1>1. i \in Nat \ {0} /\ i' - 1 = i
  BY DEF TypeOK, Advance
<1>2. bag' = FindingsUpTo(Declared, events, i)
  BY <1>1, OneMorePosition DEF BagSoFar
<1> QED BY <1>1, <1>2 DEF BagSoFar, Advance

-----------------------------------------------------------------------------
(* What is found at a position depends on the kind of its event.           *)

LEMMA FoundAtRatified ==
  ASSUME event.kind = CARVEOUT_RATIFIED
  PROVE  FindingsAt(Declared, events, i)
           = IF event.non_goal \notin Declared THEN {<<E0501, i>>} ELSE {}
BY DEF FindingsAt, UnknownNonGoal, Orphan, Duplicate, UnknownTarget, CorrectionChain, EndingKinds,
  TERMINAL_KINDS, CARVEOUT_RATIFIED, CARVEOUT_RETIRED, CARVEOUT_EXPIRED, REVIEW_CLOSED, CORRECTION, event

LEMMA FoundAtOpened ==
  ASSUME event.kind = REVIEW_OPENED
  PROVE  FindingsAt(Declared, events, i) = {}
BY DEF FindingsAt, UnknownNonGoal, Orphan, Duplicate, UnknownTarget, CorrectionChain, EndingKinds,
  TERMINAL_KINDS, CARVEOUT_RATIFIED, CARVEOUT_RETIRED, CARVEOUT_EXPIRED, REVIEW_OPENED,
  REVIEW_CLOSED, CORRECTION, event

LEMMA FoundAtEnding ==
  ASSUME event.kind \in EndingKinds
  PROVE  FindingsAt(Declared, events, i)
           = IF ~HasOrigin(events, i) THEN {<<E0502, i>>}
             ELSE IF Duplicate(events, i) THEN {<<E0503, i>>} ELSE {}
<1>1. ~UnknownNonGoal(Declared, events, i) /\ ~UnknownTarget(events, i) /\ ~CorrectionChain(events, i)
  BY DEF UnknownNonGoal, UnknownTarget, CorrectionChain, EndingKinds, TERMINAL_KINDS,
    CARVEOUT_RATIFIED, CARVEOUT_RETIRED, CARVEOUT_EXPIRED, REVIEW_CLOSED, CORRECTION, event
<1>2. Orphan(events, i) <=> ~HasOrigin(events, i)
  BY DEF Orphan, event
<1>3. Duplicate(events, i) => HasOrigin(events, i)
  BY DEF Duplicate
<1> QED BY <1>1, <1>2, <1>3 DEF FindingsAt

LEMMA FoundAtCorrection ==
  ASSUME event.kind = CORRECTION
  PROVE  FindingsAt(Declared, events, i)
           = IF ~TargetExists(events, i) THEN {<<E0505, i>>}
             ELSE IF event.corrects[2] = CORRECTION THEN {<<E0307, i>>} ELSE {}
<1>1. ~UnknownNonGoal(Declared, events, i) /\ ~Orphan(events, i) /\ ~Duplicate(events, i)
  BY DEF UnknownNonGoal, Orphan, Duplicate, EndingKinds, TERMINAL_KINDS,
    CARVEOUT_RATIFIED, CARVEOUT_RETIRED, CARVEOUT_EXPIRED, REVIEW_CLOSED, CORRECTION, event
<1>2. UnknownTarget(events, i) <=> ~TargetExists(events, i)
  BY DEF UnknownTarget, event
<1>3. CorrectionChain(events, i) <=> TargetExists(events, i) /\ event.corrects[2] = CORRECTION
  BY DEF CorrectionChain, event
<1> QED BY <1>1, <1>2, <1>3 DEF FindingsAt

\* The look-ups of a carve-out's ending answer what the rules ask.
LEMMA TerminalLookups ==
  ASSUME TypeOK, OriginsMet, EndingsMet, Advance, event.kind \in TERMINAL_KINDS
  PROVE  /\ event.kind \in EndingKinds
         /\ event.id \in ratified_ids <=> HasOrigin(events, i)
         /\ HasOrigin(events, i) =>
              (event.id \in carveout_terminal_seen <=> Duplicate(events, i))
<1>1. event.id \in CarveOutIds
  BY AdvanceVisits, EventShape
<1>2. event.kind \in EndingKinds /\ OriginOf(event.kind) = CARVEOUT_RATIFIED
  BY DEF EndingKinds, TERMINAL_KINDS, OriginOf, CARVEOUT_RETIRED, CARVEOUT_EXPIRED, REVIEW_CLOSED
<1>3. event.id \in ratified_ids <=> HasOrigin(events, i)
  BY <1>1, <1>2 DEF OriginsMet, HasOrigin, Visited, event
<1>4. ASSUME NEW j \in Visited
      PROVE  EndsTheSame(events[i], events[j])
               <=> events[j].kind \in TERMINAL_KINDS /\ events[j].id = event.id
  BY <1>2 DEF EndsTheSame, EndingKinds, TERMINAL_KINDS, OriginOf, CARVEOUT_RATIFIED,
    CARVEOUT_RETIRED, CARVEOUT_EXPIRED, REVIEW_OPENED, REVIEW_CLOSED, event
<1>5. event.id \in carveout_terminal_seen <=>
        \E j \in Visited :
          events[j].kind \in TERMINAL_KINDS /\ events[j].id = event.id /\ HasOrigin(events, j)
  BY <1>1 DEF EndingsMet
<1>6. HasOrigin(events, i) =>
        (Duplicate(events, i) <=>
           \E j \in Visited : EndsTheSame(events[i], events[j]) /\ HasOrigin(events, j))
  BY <1>2 DEF Duplicate, Visited, event
<1> QED BY <1>2, <1>3, <1>4, <1>5, <1>6

\* So do those of a review's closing.
LEMMA ClosingLookups ==
  ASSUME TypeOK, OriginsMet, EndingsMet, Advance, event.kind = REVIEW_CLOSED
  PROVE  /\ event.kind \in EndingKinds
         /\ event.id \in review_opened_ids <=> HasOrigin(events, i)
         /\ HasOrigin(events, i) =>
              (event.id \in review_closed_seen <=> Duplicate(events, i))
<1>1. event.id \in ReviewIds
  BY AdvanceVisits, EventShape
<1>2. event.kind \in EndingKinds /\ OriginOf(event.kind) = REVIEW_OPENED
  BY DEF EndingKinds, OriginOf
<1>3. event.id \in review_opened_ids <=> HasOrigin(events, i)
  BY <1>1, <1>2 DEF OriginsMet, HasOrigin, Visited, event
<1>4. ASSUME NEW j \in Visited
      PROVE  EndsTheSame(events[i], events[j])
               <=> events[j].kind = REVIEW_CLOSED /\ events[j].id = event.id
  BY <1>2 DEF EndsTheSame, EndingKinds, TERMINAL_KINDS, OriginOf, CARVEOUT_RATIFIED,
    CARVEOUT_RETIRED, CARVEOUT_EXPIRED, REVIEW_OPENED, REVIEW_CLOSED, event
<1>5. event.id \in review_closed_seen <=>
        \E j \in Visited :
          events[j].kind = REVIEW_CLOSED /\ events[j].id = event.id /\ HasOrigin(events, j)
  BY <1>1 DEF EndingsMet
<1>6. HasOrigin(events, i) =>
        (Duplicate(events, i) <=>
           \E j \in Visited : EndsTheSame(events[i], events[j]) /\ HasOrigin(events, j))
  BY <1>2 DEF Duplicate, Visited, event
<1> QED BY <1>2, <1>3, <1>4, <1>5, <1>6

\* A correction finds its target among the keys recorded, its own included.
LEMMA CorrectionLookup ==
  ASSUME TypeOK, KeysMet, KeysMet', Advance, event.kind = CORRECTION
  PROVE  event.corrects \in all_event_keys' <=> TargetExists(events, i)
<1>1. event.corrects \in EventKeys
  BY AdvanceVisits, EventShape
<1>2. event.corrects \in all_event_keys' <=>
        \E j \in Visited' : event_key(events'[j]) = event.corrects
  BY <1>1 DEF KeysMet
<1>3. Visited' = 1 .. i /\ events' = events
  BY DEF Visited, Advance, TypeOK
<1> QED BY <1>2, <1>3 DEF TargetExists, event

-----------------------------------------------------------------------------
(* The invariant.                                                          *)

LEMMA PassInit == Init => IInv
<1> SUFFICES ASSUME Init PROVE IInv
  OBVIOUS
<1>1. events \in Seq(ResolvedEvent) /\ Visited = {}
  BY StreamsAssumption DEF Init, Visited
<1>2. TypeOK
  BY <1>1 DEF Init, TypeOK
<1>3. OriginsMet /\ EndingsMet /\ KeysMet
  BY <1>1 DEF Init, OriginsMet, EndingsMet, KeysMet
<1>4. FindingsUpTo(Declared, events, i - 1) = {}
  BY DEF Init, FindingsUpTo
<1>5. BagSoFar
  BY <1>4 DEF Init, BagSoFar
<1> QED BY <1>2, <1>3, <1>5 DEF IInv

\* A visit that records what its event calls for keeps the invariant.
LEMMA VisitKeeps ==
  ASSUME IInv, NEW kinds, Visit(kinds),
         ratified_ids' = ratified_ids \cup (IF event.kind = CARVEOUT_RATIFIED THEN {event.id} ELSE {}),
         review_opened_ids' = review_opened_ids \cup (IF event.kind = REVIEW_OPENED THEN {event.id} ELSE {}),
         carveout_terminal_seen' = carveout_terminal_seen
           \cup (IF event.kind \in TERMINAL_KINDS /\ HasOrigin(events, i) THEN {event.id} ELSE {}),
         review_closed_seen' = review_closed_seen
           \cup (IF event.kind = REVIEW_CLOSED /\ HasOrigin(events, i) THEN {event.id} ELSE {}),
         bag' = bag \cup FindingsAt(Declared, events, i)
  PROVE  IInv'
<1>1. Advance /\ pc = "scan" /\ pc' = pc
  BY DEF IInv, TypeOK, Visit, Advance
<1>2. OriginsMet' /\ ratified_ids' \subseteq CarveOutIds /\ review_opened_ids' \subseteq ReviewIds
  BY <1>1, OriginsStep DEF IInv
<1>3. /\ EndingsMet'
      /\ carveout_terminal_seen' \subseteq CarveOutIds /\ review_closed_seen' \subseteq ReviewIds
  BY <1>1, EndingsStep DEF IInv
<1>4. /\ KeysMet'
      /\ event_keys_seen' \in [EventKeys -> SUBSET (1 .. Len(events'))]
      /\ all_event_keys' \subseteq EventKeys
  BY <1>1, KeysStep DEF IInv, Visit
<1>5. BagSoFar'
  BY <1>1, BagStep DEF IInv
<1>6. TypeOK'
  BY <1>1, <1>2, <1>3, <1>4, AdvanceVisits DEF IInv, TypeOK, Advance
<1> QED BY <1>2, <1>3, <1>4, <1>5, <1>6 DEF IInv

LEMMA RatifiedStep == IInv /\ VisitRatified => IInv'
<1> SUFFICES ASSUME IInv, VisitRatified PROVE IInv'
  OBVIOUS
<1>1. Visit({CARVEOUT_RATIFIED}) /\ event.kind = CARVEOUT_RATIFIED
  BY DEF VisitRatified, Visit
<1>2. event.kind # REVIEW_OPENED /\ event.kind # REVIEW_CLOSED /\ event.kind \notin TERMINAL_KINDS
  BY <1>1 DEF CARVEOUT_RATIFIED, CARVEOUT_RETIRED, CARVEOUT_EXPIRED,
    REVIEW_OPENED, REVIEW_CLOSED, CORRECTION, TERMINAL_KINDS
<1>3. bag' = bag \cup FindingsAt(Declared, events, i)
  BY <1>1, FoundAtRatified DEF VisitRatified, Report
<1> QED BY <1>1, <1>2, <1>3, VisitKeeps DEF VisitRatified

LEMMA TerminalStep == IInv /\ VisitTerminal => IInv'
<1> SUFFICES ASSUME IInv, VisitTerminal PROVE IInv'
  OBVIOUS
<1>1. Visit(TERMINAL_KINDS) /\ event.kind \in TERMINAL_KINDS
  BY DEF VisitTerminal, Visit
<1>2. event.kind # CARVEOUT_RATIFIED /\ event.kind # REVIEW_OPENED /\ event.kind # REVIEW_CLOSED
  BY <1>1 DEF CARVEOUT_RATIFIED, CARVEOUT_RETIRED, CARVEOUT_EXPIRED,
    REVIEW_OPENED, REVIEW_CLOSED, CORRECTION, TERMINAL_KINDS
<1>3. Advance
  BY <1>1 DEF IInv, TypeOK, Visit, Advance
<1>4. /\ event.kind \in EndingKinds
      /\ event.id \in ratified_ids <=> HasOrigin(events, i)
      /\ HasOrigin(events, i) => (event.id \in carveout_terminal_seen <=> Duplicate(events, i))
  BY <1>1, <1>3, TerminalLookups DEF IInv
<1>5. bag' = bag \cup FindingsAt(Declared, events, i)
  BY <1>4, FoundAtEnding DEF VisitTerminal, Report
<1>6. carveout_terminal_seen' = carveout_terminal_seen
        \cup (IF event.kind \in TERMINAL_KINDS /\ HasOrigin(events, i) THEN {event.id} ELSE {})
  BY <1>1, <1>4 DEF VisitTerminal
<1> QED BY <1>1, <1>2, <1>5, <1>6, VisitKeeps DEF VisitTerminal

LEMMA OpenedStep == IInv /\ VisitOpened => IInv'
<1> SUFFICES ASSUME IInv, VisitOpened PROVE IInv'
  OBVIOUS
<1>1. Visit({REVIEW_OPENED}) /\ event.kind = REVIEW_OPENED
  BY DEF VisitOpened, Visit
<1>2. event.kind # CARVEOUT_RATIFIED /\ event.kind # REVIEW_CLOSED /\ event.kind \notin TERMINAL_KINDS
  BY <1>1 DEF CARVEOUT_RATIFIED, CARVEOUT_RETIRED, CARVEOUT_EXPIRED,
    REVIEW_OPENED, REVIEW_CLOSED, CORRECTION, TERMINAL_KINDS
<1>3. bag' = bag \cup FindingsAt(Declared, events, i)
  BY <1>1, FoundAtOpened DEF VisitOpened
<1> QED BY <1>1, <1>2, <1>3, VisitKeeps DEF VisitOpened

LEMMA ClosedStep == IInv /\ VisitClosed => IInv'
<1> SUFFICES ASSUME IInv, VisitClosed PROVE IInv'
  OBVIOUS
<1>1. Visit({REVIEW_CLOSED}) /\ event.kind = REVIEW_CLOSED
  BY DEF VisitClosed, Visit
<1>2. event.kind # CARVEOUT_RATIFIED /\ event.kind # REVIEW_OPENED /\ event.kind \notin TERMINAL_KINDS
  BY <1>1 DEF CARVEOUT_RATIFIED, CARVEOUT_RETIRED, CARVEOUT_EXPIRED,
    REVIEW_OPENED, REVIEW_CLOSED, CORRECTION, TERMINAL_KINDS
<1>3. Advance
  BY <1>1 DEF IInv, TypeOK, Visit, Advance
<1>4. /\ event.kind \in EndingKinds
      /\ event.id \in review_opened_ids <=> HasOrigin(events, i)
      /\ HasOrigin(events, i) => (event.id \in review_closed_seen <=> Duplicate(events, i))
  BY <1>1, <1>3, ClosingLookups DEF IInv
<1>5. bag' = bag \cup FindingsAt(Declared, events, i)
  BY <1>4, FoundAtEnding DEF VisitClosed, Report
<1>6. review_closed_seen' = review_closed_seen
        \cup (IF event.kind = REVIEW_CLOSED /\ HasOrigin(events, i) THEN {event.id} ELSE {})
  BY <1>1, <1>4 DEF VisitClosed
<1> QED BY <1>1, <1>2, <1>5, <1>6, VisitKeeps DEF VisitClosed

LEMMA CorrectionStep == IInv /\ VisitCorrection => IInv'
<1> SUFFICES ASSUME IInv, VisitCorrection PROVE IInv'
  OBVIOUS
<1>1. Visit({CORRECTION}) /\ event.kind = CORRECTION
  BY DEF VisitCorrection, Visit
<1>2. /\ event.kind # CARVEOUT_RATIFIED /\ event.kind # REVIEW_OPENED
      /\ event.kind # REVIEW_CLOSED /\ event.kind \notin TERMINAL_KINDS
  BY <1>1 DEF CARVEOUT_RATIFIED, CARVEOUT_RETIRED, CARVEOUT_EXPIRED,
    REVIEW_OPENED, REVIEW_CLOSED, CORRECTION, TERMINAL_KINDS
<1>3. Advance
  BY <1>1 DEF IInv, TypeOK, Visit, Advance
<1>4. event.corrects \in all_event_keys' <=> TargetExists(events, i)
  BY <1>1, <1>3, KeysStep, CorrectionLookup DEF IInv, Visit
<1>5. bag' = bag \cup FindingsAt(Declared, events, i)
  BY <1>1, <1>4, FoundAtCorrection DEF VisitCorrection, Report
<1> QED BY <1>1, <1>2, <1>5, VisitKeeps DEF VisitCorrection, seen

\* The second loop adds the shared keys, which completes the findings.
LEMMA SharedKeysStep == IInv /\ ReportSharedKeys => IInv'
<1> SUFFICES ASSUME IInv, ReportSharedKeys PROVE IInv'
  OBVIOUS
<1>1. /\ pc = "scan" /\ pc' = "done"
      /\ UNCHANGED <<events, i, ratified_ids, carveout_terminal_seen, review_opened_ids,
                     review_closed_seen, event_keys_seen, all_event_keys>>
  BY DEF ReportSharedKeys, seen
<1>2. i - 1 = Len(events) /\ Visited = DOMAIN events
  BY DEF IInv, TypeOK, ReportSharedKeys, Visited
<1>3. \A j \in DOMAIN events : event_key(events[j]) \in EventKeys
  BY EventShape DEF IInv, TypeOK
<1>4. {k \in EventKeys : \E p, q \in event_keys_seen[k] : p # q} = SharedKeys(events)
  <2>1. \A key \in EventKeys : event_keys_seen[key] = {j \in DOMAIN events : event_key(events[j]) = key}
    BY <1>2 DEF IInv, KeysMet
  <2>2. ASSUME NEW key \in EventKeys
        PROVE  (\E p, q \in event_keys_seen[key] : p # q) <=> key \in SharedKeys(events)
    BY <2>1 DEF SharedKeys
  <2>3. SharedKeys(events) \subseteq EventKeys
    BY <1>3 DEF SharedKeys
  <2> QED
    BY <2>2, <2>3
<1>5. bag' = Findings(Declared, events)
  BY <1>1, <1>2, <1>4 DEF IInv, BagSoFar, ReportSharedKeys, Findings
<1>6. BagSoFar'
  BY <1>1, <1>5 DEF BagSoFar
<1>7. OriginsMet' /\ EndingsMet' /\ KeysMet'
  BY <1>1 DEF IInv, OriginsMet, EndingsMet, KeysMet, Visited
<1>8. TypeOK'
  BY <1>1 DEF IInv, TypeOK
<1> QED BY <1>6, <1>7, <1>8 DEF IInv

LEMMA PassStep == IInv /\ [Next]_vars => IInv'
<1> SUFFICES ASSUME IInv, [Next]_vars PROVE IInv'
  OBVIOUS
<1>1. CASE UNCHANGED vars
  BY <1>1 DEF vars, seen, IInv, TypeOK, OriginsMet, EndingsMet, KeysMet, BagSoFar, Visited
<1> QED
  BY <1>1, RatifiedStep, TerminalStep, OpenedStep, ClosedStep, CorrectionStep, SharedKeysStep
     DEF Next

\* The sets of the loop hold ids of their own kinds, and the position stays
\* within the stream (check_integrity).
THEOREM PassTypeCorrect == Spec => []TypeOK
<1>1. IInv => TypeOK
  BY DEF IInv
<1> QED BY <1>1, PassInit, PassStep, PTL DEF Spec

\* For every stream, of any length and in any order, and whatever the charter
\* declares, the pass of check_integrity reports exactly the violations.
THEOREM PassIsExact == Spec => []ReportsExactlyTheFindings
<1>1. IInv => ReportsExactlyTheFindings
  BY DEF IInv, BagSoFar, ReportsExactlyTheFindings
<1> QED BY <1>1, PassInit, PassStep, PTL DEF Spec
-----------------------------------------------------------------------------
(* Streams that are ledgers.                                               *)

\* A ledger in the total order: what stands before what.
Sorts(stream, ledger) ==
  /\ stream \in Seq(ledger) /\ DOMAIN stream = 1 .. Len(stream) /\ Len(stream) \in Nat
  /\ \A k \in DOMAIN stream : stream[k] \in ledger
  /\ \A e \in ledger : \E k \in DOMAIN stream : stream[k] = e
  /\ \A j, k \in DOMAIN stream : j < k <=> Precedes(stream[j], stream[k])

LEMMA TotalOrderIsSorted ==
  ASSUME NEW ledger, Ledger(ledger)
  PROVE  Sorts(total_order(ledger), ledger)
<1>1. total_order(ledger) \in Seq(ledger) => Len(total_order(ledger)) \in Nat
  OBVIOUS
<1> QED
  BY <1>1, TotalOrderSorts DEF Sorts

LEMMA StreamIsSortedLedger ==
  ASSUME NEW stream \in Streams
  PROVE  Ledger(LedgerOf(stream)) /\ Sorts(stream, LedgerOf(stream))
<1>1. stream \in Seq(ResolvedEvent)
  BY StreamsAssumption
<1>2. DOMAIN stream = 1 .. Len(stream) /\ Len(stream) \in Nat /\ \A k \in DOMAIN stream : stream[k] \in ResolvedEvent
  BY <1>1
<1>3. LedgerOf(stream) = {stream[k] : k \in DOMAIN stream}
  BY DEF LedgerOf, ToSet
<1>4. IsFiniteSet(LedgerOf(stream))
  <2>1. IsFiniteSet(DOMAIN stream)
    BY <1>2, FS_Interval
  <2>2. stream \in [DOMAIN stream -> {stream[k] : k \in DOMAIN stream}]
    BY <1>1
  <2> QED
    BY <1>3, <2>1, <2>2, ImageFinite
<1>5. Ledger(LedgerOf(stream))
  BY <1>2, <1>3, <1>4, StreamsAreLedgers DEF Ledger
<1> QED
  BY <1>5, TotalOrderIsSorted, StreamsAreLedgers

\* The stream of a pass is one it was handed.
LEMMA StreamIsGiven == Spec => [](events \in Streams)
<1>1. Init => events \in Streams
  BY DEF Init
<1>2. events \in Streams /\ [Next]_vars => (events \in Streams)'
  BY DEF Next, vars, Visit, VisitRatified, VisitTerminal, VisitOpened, VisitClosed, VisitCorrection, ReportSharedKeys
<1> QED
  BY <1>1, <1>2, PTL DEF Spec

-----------------------------------------------------------------------------
(* What the check says, of the ledger rather than of the positions.        *)

\* The origin of what an event ends is a file before it.
BeginsIn(ledger, e) ==
  \E f \in ledger : Precedes(f, e) /\ f.kind = OriginOf(e.kind) /\ f.id = e.id

LEMMA OriginsAreBefore ==
  ASSUME NEW stream, NEW ledger, Sorts(stream, ledger), NEW k \in DOMAIN stream
  PROVE  HasOrigin(stream, k) <=> BeginsIn(ledger, stream[k])
<1>1. \A j : j \in 1 .. k - 1 <=> j \in DOMAIN stream /\ j < k
  BY DEF Sorts
<1> QED
  BY <1>1 DEF HasOrigin, BeginsIn, Sorts

LEMMA CodesOfPositions ==
  ASSUME NEW declared, NEW stream
  PROVE  LET codes == Codes(Findings(declared, stream))
         IN  /\ E0501 \in codes <=> \E k \in 1 .. Len(stream) : UnknownNonGoal(declared, stream, k)
             /\ E0502 \in codes <=> \E k \in 1 .. Len(stream) : Orphan(stream, k)
             /\ E0503 \in codes <=> \E k \in 1 .. Len(stream) : Duplicate(stream, k)
<1> DEFINE n == Len(stream)
           A == {<<E0501, k>> : k \in {l \in 1 .. n : UnknownNonGoal(declared, stream, l)}}
           B == {<<E0502, k>> : k \in {l \in 1 .. n : Orphan(stream, l)}}
           C == {<<E0503, k>> : k \in {l \in 1 .. n : Duplicate(stream, l)}}
           D == {<<E0505, k>> : k \in {l \in 1 .. n : UnknownTarget(stream, l)}}
           E == {<<E0307, k>> : k \in {l \in 1 .. n : CorrectionChain(stream, l)}}
           F == {<<E0504, key>> : key \in SharedKeys(stream)}
<1>1. Findings(declared, stream) = A \cup B \cup C \cup D \cup E \cup F
  BY DEF Findings, FindingsUpTo
<1>2. /\ E0501 # E0502 /\ E0501 # E0503 /\ E0502 # E0503
      /\ {E0501, E0502, E0503} \cap {E0504, E0505, E0307} = {}
  BY DEF E0501, E0502, E0503, E0504, E0505, E0307
<1>3. /\ \A f \in A : f[1] = E0501
      /\ \A f \in B : f[1] = E0502
      /\ \A f \in C : f[1] = E0503
      /\ \A f \in D \cup E \cup F : f[1] \in {E0504, E0505, E0307}
  OBVIOUS
<1>4. /\ A # {} <=> \E k \in 1 .. n : UnknownNonGoal(declared, stream, k)
      /\ B # {} <=> \E k \in 1 .. n : Orphan(stream, k)
      /\ C # {} <=> \E k \in 1 .. n : Duplicate(stream, k)
  OBVIOUS
<1>5. \A code : code \in Codes(Findings(declared, stream)) <=>
        \E f \in A \cup B \cup C \cup D \cup E \cup F : f[1] = code
  BY <1>1 DEF Codes
<1> HIDE DEF A, B, C, D, E, F
<1>6. E0501 \in Codes(Findings(declared, stream)) <=> A # {}
  BY <1>2, <1>3, <1>5
<1>7. E0502 \in Codes(Findings(declared, stream)) <=> B # {}
  BY <1>2, <1>3, <1>5
<1>8. E0503 \in Codes(Findings(declared, stream)) <=> C # {}
  BY <1>2, <1>3, <1>5
<1> QED
  BY <1>4, <1>6, <1>7, <1>8

\* The codes about non-goals, orphans and duplicates depend on the events that
\* ratify, open and end, and on which of them precede which.
LEMMA CodesOfLedger ==
  ASSUME NEW declared, NEW stream, NEW ledger, Sorts(stream, ledger)
  PROVE  LET codes == Codes(Findings(declared, stream))
         IN  /\ E0501 \in codes <=> \E e \in ledger : e.kind = CARVEOUT_RATIFIED /\ e.non_goal \notin declared
             /\ E0502 \in codes <=> \E e \in ledger : e.kind \in EndingKinds /\ ~BeginsIn(ledger, e)
             /\ E0503 \in codes <=> \E e, f \in ledger :
                   Precedes(f, e) /\ EndsTheSame(e, f) /\ BeginsIn(ledger, e) /\ BeginsIn(ledger, f)
<1>1. DOMAIN stream = 1 .. Len(stream)
  BY DEF Sorts
<1>2. /\ \A k \in DOMAIN stream : stream[k] \in ledger
      /\ \A e \in ledger : \E k \in DOMAIN stream : stream[k] = e
      /\ \A j, k \in DOMAIN stream : j < k <=> Precedes(stream[j], stream[k])
  BY DEF Sorts
<1>3. \A k \in DOMAIN stream : HasOrigin(stream, k) <=> BeginsIn(ledger, stream[k])
  BY OriginsAreBefore
<1>4. (\E k \in 1 .. Len(stream) : UnknownNonGoal(declared, stream, k))
        <=> \E e \in ledger : e.kind = CARVEOUT_RATIFIED /\ e.non_goal \notin declared
  BY <1>1, <1>2 DEF UnknownNonGoal
<1>5. (\E k \in 1 .. Len(stream) : Orphan(stream, k))
        <=> \E e \in ledger : e.kind \in EndingKinds /\ ~BeginsIn(ledger, e)
  BY <1>1, <1>2, <1>3 DEF Orphan
<1>6. (\E k \in 1 .. Len(stream) : Duplicate(stream, k))
        <=> \E e, f \in ledger : Precedes(f, e) /\ EndsTheSame(e, f) /\ BeginsIn(ledger, e) /\ BeginsIn(ledger, f)
  <2>1. \A k \in DOMAIN stream : Duplicate(stream, k) <=>
          \E j \in DOMAIN stream : /\ Precedes(stream[j], stream[k]) /\ EndsTheSame(stream[k], stream[j])
                                 /\ BeginsIn(ledger, stream[k]) /\ BeginsIn(ledger, stream[j])
    <3> SUFFICES ASSUME NEW k \in DOMAIN stream
                 PROVE  Duplicate(stream, k) <=>
                          \E j \in DOMAIN stream :
                            /\ Precedes(stream[j], stream[k]) /\ EndsTheSame(stream[k], stream[j])
                            /\ BeginsIn(ledger, stream[k]) /\ BeginsIn(ledger, stream[j])
      OBVIOUS
    <3>1. \A j : j \in 1 .. k - 1 <=> j \in DOMAIN stream /\ Precedes(stream[j], stream[k])
      <4>1. \A j : j \in 1 .. k - 1 <=> j \in DOMAIN stream /\ j < k
        BY <1>1, Len(stream) \in Nat DEF Sorts
      <4> QED
        BY <1>2, <4>1
    <3>2. \A j : EndsTheSame(stream[k], stream[j]) => stream[k].kind \in EndingKinds
      BY DEF EndsTheSame
    <3> QED
      BY <1>3, <3>1, <3>2 DEF Duplicate
  <2> QED
    BY <1>1, <1>2, <2>1
<1> QED
  BY <1>4, <1>5, <1>6, CodesOfPositions

-----------------------------------------------------------------------------
(* Corrections.                                                            *)

\* Without corrections the projection has the same files of every other kind.
LEMMA SameFilesOfKinds ==
  ASSUME NEW ledger, NEW t, NEW kind, kind # CORRECTION, NEW id
  PROVE  OfKind(visible(WithoutCorrections(ledger), t), kind, id) = OfKind(visible(ledger, t), kind, id)
BY DEF OfKind, visible, WithoutCorrections

LEMMA KindsApart ==
  /\ CARVEOUT_RATIFIED # CORRECTION /\ CARVEOUT_RETIRED # CORRECTION /\ CARVEOUT_EXPIRED # CORRECTION
  /\ REVIEW_OPENED # CORRECTION /\ REVIEW_CLOSED # CORRECTION
  /\ CARVEOUT_RETIRED # CARVEOUT_EXPIRED
  /\ TERMINAL_KINDS \cap {REVIEW_OPENED, REVIEW_CLOSED, CARVEOUT_RATIFIED, CORRECTION} = {}
  /\ REVIEW_CLOSED \notin {REVIEW_OPENED, CARVEOUT_RATIFIED}
BY DEF CARVEOUT_RATIFIED, CARVEOUT_RETIRED, CARVEOUT_EXPIRED, REVIEW_OPENED, REVIEW_CLOSED,
       CORRECTION, TERMINAL_KINDS

LEMMA SameWithoutCorrections ==
  ASSUME NEW charter, NEW ledger, NEW t
  PROVE  LET all  == project(charter, ledger, t)
             rest == project(charter, WithoutCorrections(ledger), t)
         IN  /\ all.carveouts = rest.carveouts /\ all.reviews = rest.reviews
             /\ all.per_non_goal = rest.per_non_goal /\ all.cumulative = rest.cumulative
<1> DEFINE whole == visible(ledger, t)
           part  == visible(WithoutCorrections(ledger), t)
<1>1. \A kind, id : kind # CORRECTION => OfKind(part, kind, id) = OfKind(whole, kind, id)
  BY SameFilesOfKinds
<1>2. /\ {f \in part : f.kind = CARVEOUT_RATIFIED} = {f \in whole : f.kind = CARVEOUT_RATIFIED}
      /\ {f \in part : f.kind = REVIEW_OPENED} = {f \in whole : f.kind = REVIEW_OPENED}
  BY KindsApart DEF visible, WithoutCorrections
<1> HIDE DEF whole, part
<1>3. ProjectedIds(part) = ProjectedIds(whole)
  BY <1>2 DEF ProjectedIds
<1>4. \A id : CarveOutState(charter, part, id, t) = CarveOutState(charter, whole, id, t)
  <2> SUFFICES ASSUME NEW id
               PROVE  CarveOutState(charter, part, id, t) = CarveOutState(charter, whole, id, t)
    OBVIOUS
  <2>1. /\ OfKind(part, CARVEOUT_RATIFIED, id) = OfKind(whole, CARVEOUT_RATIFIED, id)
        /\ OfKind(part, CARVEOUT_RETIRED, id) = OfKind(whole, CARVEOUT_RETIRED, id)
        /\ OfKind(part, CARVEOUT_EXPIRED, id) = OfKind(whole, CARVEOUT_EXPIRED, id)
    BY <1>1, KindsApart
  <2> QED
    BY <2>1 DEF CarveOutState
<1>5. \A id : ReviewState(part, id) = ReviewState(whole, id)
  <2> SUFFICES ASSUME NEW id PROVE ReviewState(part, id) = ReviewState(whole, id)
    OBVIOUS
  <2>1. /\ OfKind(part, REVIEW_OPENED, id) = OfKind(whole, REVIEW_OPENED, id)
        /\ OfKind(part, REVIEW_CLOSED, id) = OfKind(whole, REVIEW_CLOSED, id)
    BY <1>1, KindsApart
  <2> QED
    BY <2>1 DEF ReviewState
<1>6. project_carveouts(charter, part, t) = project_carveouts(charter, whole, t)
  BY <1>3, <1>4 DEF project_carveouts
<1>7. project_reviews(part) = project_reviews(whole)
  BY <1>2, <1>5 DEF project_reviews
<1> QED
  BY <1>6, <1>7 DEF project, whole, part

LEMMA SameBeginnings ==
  ASSUME NEW ledger, NEW e, e.kind \in EndingKinds
  PROVE  BeginsIn(WithoutCorrections(ledger), e) <=> BeginsIn(ledger, e)
<1>1. OriginOf(e.kind) # CORRECTION
  BY KindsApart DEF OriginOf
<1> QED
  BY <1>1 DEF BeginsIn, WithoutCorrections

\* Corrections only annotate: leaving them out changes no carve-out, review or
\* baseline at any instant, and nothing the check says of the other events
\* (projection.py, integrity.py).
THEOREM CorrectionsDoNotAct == Spec => []CorrectionsOnlyAnnotate
<1>1. IInv /\ events \in Streams => CorrectionsOnlyAnnotate
  <2> SUFFICES ASSUME IInv, events \in Streams, pc = "done"
               PROVE  LET others == WithoutCorrections(LedgerOf(events))
                          Acts   == {E0501, E0502, E0503}
                      IN  Codes(bag) \cap Acts = Codes(Findings(Declared, total_order(others))) \cap Acts
    BY SameWithoutCorrections DEF CorrectionsOnlyAnnotate
  <2> DEFINE ledger == LedgerOf(events)
             others == WithoutCorrections(ledger)
             codes  == Codes(bag)
             rest   == Codes(Findings(Declared, total_order(others)))
  <2>1. codes = Codes(Findings(Declared, events))
    BY DEF IInv, BagSoFar
  <2>2. Ledger(ledger) /\ Sorts(events, ledger)
    BY StreamIsSortedLedger
  <2> HIDE DEF ledger
  <2>3. Sorts(total_order(others), others)
    BY <2>2, SubsetIsLedger, TotalOrderIsSorted DEF WithoutCorrections
  <2>4. \A e : e \in others <=> e \in ledger /\ e.kind # CORRECTION
    BY DEF WithoutCorrections
  <2>5. \A e : e.kind \in EndingKinds \cup {CARVEOUT_RATIFIED} => e.kind # CORRECTION
    BY KindsApart DEF EndingKinds
  <2>6. \A e : e.kind \in EndingKinds => (BeginsIn(others, e) <=> BeginsIn(ledger, e))
    BY SameBeginnings
  <2>7. \A e, f : EndsTheSame(e, f) => e.kind \in EndingKinds /\ f.kind \in EndingKinds
    BY DEF EndsTheSame
  <2> HIDE DEF others
  <2>8. /\ E0501 \in codes <=> \E e \in ledger : e.kind = CARVEOUT_RATIFIED /\ e.non_goal \notin Declared
        /\ E0502 \in codes <=> \E e \in ledger : e.kind \in EndingKinds /\ ~BeginsIn(ledger, e)
        /\ E0503 \in codes <=> \E e, f \in ledger :
              Precedes(f, e) /\ EndsTheSame(e, f) /\ BeginsIn(ledger, e) /\ BeginsIn(ledger, f)
    BY <2>1, <2>2, CodesOfLedger
  <2>9. /\ E0501 \in rest <=> \E e \in others : e.kind = CARVEOUT_RATIFIED /\ e.non_goal \notin Declared
        /\ E0502 \in rest <=> \E e \in others : e.kind \in EndingKinds /\ ~BeginsIn(others, e)
        /\ E0503 \in rest <=> \E e, f \in others :
              Precedes(f, e) /\ EndsTheSame(e, f) /\ BeginsIn(others, e) /\ BeginsIn(others, f)
    BY <2>3, CodesOfLedger
  <2> HIDE DEF codes, rest
  <2>10. E0501 \in codes <=> E0501 \in rest
    BY <2>4, <2>5, <2>8, <2>9
  <2>11. E0502 \in codes <=> E0502 \in rest
    BY <2>4, <2>5, <2>6, <2>8, <2>9
  <2>12. E0503 \in codes <=> E0503 \in rest
    BY <2>4, <2>5, <2>6, <2>7, <2>8, <2>9
  <2>13. codes \cap {E0501, E0502, E0503} = rest \cap {E0501, E0502, E0503}
    BY <2>10, <2>11, <2>12
  <2> QED
    BY <2>13 DEF codes, rest, others, ledger
<1> QED
  BY <1>1, StreamIsGiven, PassInit, PassStep, PTL DEF Spec

-----------------------------------------------------------------------------
(* Clean ledgers.                                                          *)

\* Without orphans and duplicates, what ends a carve-out or a review has its
\* origin before it and nothing else ends the same.
LEMMA CleanEndings ==
  ASSUME NEW declared, NEW stream, NEW ledger, Ledger(ledger), Sorts(stream, ledger),
         Codes(Findings(declared, stream)) \cap {E0502, E0503} = {},
         NEW e \in ledger, e.kind \in EndingKinds
  PROVE  BeginsIn(ledger, e) /\ \A f \in ledger : EndsTheSame(e, f) => f = e
<1>1. \A f \in ledger : f.kind \in EndingKinds => BeginsIn(ledger, f)
  BY CodesOfLedger
<1>2. ~ \E f, g \in ledger :
         Precedes(g, f) /\ EndsTheSame(f, g) /\ BeginsIn(ledger, f) /\ BeginsIn(ledger, g)
  BY CodesOfLedger
<1>3. ASSUME NEW f \in ledger, EndsTheSame(e, f), f # e PROVE FALSE
  <2>1. EndsTheSame(f, e) /\ BeginsIn(ledger, e) /\ BeginsIn(ledger, f)
    BY <1>1, <1>3 DEF EndsTheSame
  <2>2. Precedes(e, f) \/ Precedes(f, e)
    BY <1>3, OrderIsTotal
  <2> QED
    BY <1>2, <1>3, <2>1, <2>2
<1> QED
  BY <1>1, <1>3

\* A sole event of a kind and id is the first one.
LEMMA SoleIsFirst ==
  ASSUME NEW ledger, Ledger(ledger), NEW e \in ledger,
         \A f \in ledger : f.kind = e.kind /\ f.id = e.id => f = e
  PROVE  FirstOf(OfKind(ledger, e.kind, e.id)) = e
<1>1. FirstOf(OfKind(ledger, e.kind, e.id)) \in OfKind(ledger, e.kind, e.id)
  <2>1. e \in OfKind(ledger, e.kind, e.id) /\ Ledger(OfKind(ledger, e.kind, e.id))
    BY SubsetIsLedger DEF OfKind
  <2> QED
    BY <2>1, FirstOfProperties
<1> QED
  BY <1>1 DEF OfKind

\* The first event of a kind and id is not after any other.
LEMMA FirstIsEarliest ==
  ASSUME NEW ledger, Ledger(ledger), NEW e \in ledger
  PROVE  LET first == FirstOf(OfKind(ledger, e.kind, e.id))
         IN  first \in ledger /\ first.kind = e.kind /\ first.at <= e.at
<1> DEFINE first == FirstOf(OfKind(ledger, e.kind, e.id))
<1>1. /\ first \in OfKind(ledger, e.kind, e.id)
      /\ \A f \in OfKind(ledger, e.kind, e.id) \ {first} : Precedes(first, f)
  <2>1. e \in OfKind(ledger, e.kind, e.id) /\ Ledger(OfKind(ledger, e.kind, e.id))
    BY SubsetIsLedger DEF OfKind
  <2> QED
    BY <2>1, FirstOfProperties
<1> HIDE DEF first
<1>2. first \in ledger /\ first.kind = e.kind
  BY <1>1 DEF OfKind
<1>3. first = e \/ Precedes(first, e)
  BY <1>1 DEF OfKind
<1>4. first.at \in Nat /\ e.at \in Nat
  BY <1>2, EventFields DEF Ledger
<1> QED
  BY <1>2, <1>3, <1>4 DEF Precedes, first

\* The charter that declares and retires nothing makes nothing moot.
LEMMA NothingRetired == retired_non_goals(DeclaringCharter) = {}
BY DEF retired_non_goals, DeclaringCharter

\* The carve-out that a retirement or an attestation ends, and when.
LEMMA EndedCarveOut ==
  ASSUME NEW ledger, Ledger(ledger), NEW t, NEW e \in ledger, e.kind \in TERMINAL_KINDS,
         BeginsIn(ledger, e), \A f \in ledger : EndsTheSame(e, f) => f = e
  PROVE  LET carveouts == project_carveouts(DeclaringCharter, ledger, t)
         IN  /\ e.id \in DOMAIN carveouts
             /\ carveouts[e.id].terminal_at = e.at
             /\ carveouts[e.id].ratified_at <= e.at
<1> DEFINE ratified == FirstOf(OfKind(ledger, CARVEOUT_RATIFIED, e.id))
           retirement == FirstOf(OfKind(ledger, CARVEOUT_RETIRED, e.id))
           expiration == FirstOf(OfKind(ledger, CARVEOUT_EXPIRED, e.id))
           life == lifecycle(ratified.expires_at, ratified.non_goal \in retired_non_goals(DeclaringCharter),
                             retirement, expiration, t)
<1>1. \A kind \in TERMINAL_KINDS : kind \in EndingKinds /\ OriginOf(kind) = CARVEOUT_RATIFIED
  BY KindsApart DEF EndingKinds, OriginOf
<1>2. PICK o \in ledger : Precedes(o, e) /\ o.kind = CARVEOUT_RATIFIED /\ o.id = e.id
  BY <1>1 DEF BeginsIn
<1>3. \A f \in ledger : f.kind \in TERMINAL_KINDS /\ f.id = e.id => f = e
  BY <1>1 DEF EndsTheSame
<1>4. e \in ResolvedEvent /\ e.at \in Nat /\ e # None
  BY EventFields, NoneAssumption DEF Ledger
<1>5. ratified.at <= e.at /\ ratified.at \in Nat
  <2>1. ratified \in ledger /\ ratified.at <= o.at
    BY <1>2, FirstIsEarliest
  <2>2. ratified.at \in Nat /\ o.at \in Nat
    BY <2>1, EventFields DEF Ledger
  <2>3. o.at <= e.at
    BY <1>2, <1>4, <2>2 DEF Precedes
  <2> QED
    BY <1>4, <2>1, <2>2, <2>3
<1>6. ASSUME e.kind = CARVEOUT_RETIRED PROVE life.terminal_at = e.at
  <2>1. retirement = e
    BY <1>3, <1>6, SoleIsFirst
  <2> HIDE DEF retirement, expiration, ratified
  <2> QED
    BY <1>4, <2>1, NothingRetired DEF lifecycle
<1>7. ASSUME e.kind = CARVEOUT_EXPIRED PROVE life.terminal_at = e.at
  <2>1. expiration = e
    BY <1>3, <1>7, SoleIsFirst
  <2>2. OfKind(ledger, CARVEOUT_RETIRED, e.id) = {}
    BY <1>3, <1>7, KindsApart DEF OfKind, TERMINAL_KINDS
  <2>3. retirement = None
    BY <2>2 DEF FirstOf
  <2> HIDE DEF retirement, expiration, ratified
  <2> QED
    BY <1>4, <2>1, <2>3, NothingRetired DEF lifecycle
<1>8. life.terminal_at = e.at
  BY <1>6, <1>7 DEF TERMINAL_KINDS
<1>9. e.id \in ProjectedIds(ledger)
  BY <1>2 DEF ProjectedIds
<1>10. /\ CarveOutState(DeclaringCharter, ledger, e.id, t).terminal_at = life.terminal_at
       /\ CarveOutState(DeclaringCharter, ledger, e.id, t).ratified_at = ratified.at
  BY DEF CarveOutState
<1> HIDE DEF life, ratified
<1> QED
  BY <1>5, <1>8, <1>9, <1>10 DEF project_carveouts

LEMMA EndedReview ==
  ASSUME NEW ledger, Ledger(ledger), NEW e \in ledger, e.kind = REVIEW_CLOSED,
         BeginsIn(ledger, e), \A f \in ledger : EndsTheSame(e, f) => f = e
  PROVE  LET reviews == project_reviews(ledger)
         IN  /\ e.id \in DOMAIN reviews
             /\ reviews[e.id].closed_at = e.at
             /\ reviews[e.id].opened_at <= e.at
<1> DEFINE opening == FirstOf(OfKind(ledger, REVIEW_OPENED, e.id))
           closing == FirstOf(OfKind(ledger, REVIEW_CLOSED, e.id))
<1>1. PICK o \in ledger : Precedes(o, e) /\ o.kind = REVIEW_OPENED /\ o.id = e.id
  BY DEF BeginsIn, OriginOf
<1>2. closing = e
  <2>1. \A f \in ledger : f.kind = REVIEW_CLOSED /\ f.id = e.id => f = e
    BY DEF EndsTheSame, EndingKinds
  <2> QED
    BY <2>1, SoleIsFirst
<1>3. e.at \in Nat /\ e # None
  BY EventFields, NoneAssumption DEF Ledger
<1>4. opening.at <= e.at
  <2>1. opening \in ledger /\ opening.at <= o.at
    BY <1>1, FirstIsEarliest
  <2>2. opening.at \in Nat /\ o.at \in Nat
    BY <2>1, EventFields DEF Ledger
  <2>3. o.at <= e.at
    BY <1>1, <1>3, <2>2 DEF Precedes
  <2> QED
    BY <1>3, <2>1, <2>2, <2>3
<1>5. e.id \in DOMAIN project_reviews(ledger)
  BY <1>1 DEF project_reviews
<1>6. project_reviews(ledger)[e.id] = ReviewState(ledger, e.id)
  BY <1>5 DEF project_reviews
<1>7. ReviewState(ledger, e.id).closed_at = e.at /\ ReviewState(ledger, e.id).opened_at = opening.at
  BY <1>2, <1>3 DEF ReviewState
<1> HIDE DEF opening
<1> QED
  BY <1>4, <1>5, <1>6, <1>7

\* An evaluation as of the last instant sees the whole stream.
LEMMA AllIsVisible ==
  ASSUME NEW stream \in Streams
  PROVE  visible(LedgerOf(stream), LastInstant(stream)) = LedgerOf(stream)
<1> DEFINE ledger   == LedgerOf(stream)
           instant  == [e \in ledger |-> e.at]
           instants == {instant[e] : e \in ledger}
<1>1. Ledger(ledger)
  BY StreamIsSortedLedger
<1>2. IsFiniteSet(instants) /\ instants \subseteq Nat
  <2>1. IsFiniteSet(ledger) /\ instant \in [ledger -> instants]
    BY <1>1 DEF Ledger
  <2>2. instants \subseteq Nat
    BY <1>1, EventFields DEF Ledger
  <2> HIDE DEF instant
  <2> QED
    BY <2>1, <2>2, ImageFinite
<1>3. IsFiniteSet(instants \cup {0}) /\ instants \cup {0} \subseteq Int /\ instants \cup {0} # {}
  BY <1>2, FS_AddElement
<1>4. instants = {e.at : e \in ledger}
  OBVIOUS
<1> HIDE DEF instants, ledger, instant
<1>5. \A at \in instants \cup {0} : Max(instants \cup {0}) >= at
  BY <1>3, MaxProperties
<1>6. Max(instants \cup {0}) \in Int
  BY <1>3, MaxProperties
<1>7. \A e \in ledger : e.at <= LastInstant(stream)
  BY <1>2, <1>4, <1>5, <1>6 DEF LastInstant, ledger
<1> QED
  BY <1>7 DEF visible, ledger

\* What the check passes the projection reads without loss: in a ledger of any
\* size without orphans and duplicates, every retirement, attestation and
\* closure is the one that counts, and ends what began no later (integrity.py,
\* projection.py).
THEOREM CleanLedgersAreReadFaithfully == Spec => []CleanLedgerProjectsFaithfully
<1>1. IInv /\ events \in Streams => CleanLedgerProjectsFaithfully
  <2> SUFFICES ASSUME IInv, events \in Streams, pc = "done", Codes(bag) \cap {E0502, E0503} = {},
                      NEW e \in LedgerOf(events)
               PROVE  LET state == project(DeclaringCharter, LedgerOf(events), LastInstant(events))
                      IN  /\ e.kind \in TERMINAL_KINDS =>
                               /\ e.id \in DOMAIN state.carveouts
                               /\ state.carveouts[e.id].terminal_at = e.at
                               /\ state.carveouts[e.id].ratified_at <= e.at
                          /\ e.kind = REVIEW_CLOSED =>
                               /\ e.id \in DOMAIN state.reviews
                               /\ state.reviews[e.id].closed_at = e.at
                               /\ state.reviews[e.id].opened_at <= e.at
    BY DEF CleanLedgerProjectsFaithfully
  <2> DEFINE ledger == LedgerOf(events)
             t      == LastInstant(events)
             state  == project(DeclaringCharter, ledger, t)
  <2>1. Codes(Findings(Declared, events)) \cap {E0502, E0503} = {}
    BY DEF IInv, BagSoFar
  <2>2. Ledger(ledger) /\ Sorts(events, ledger)
    BY StreamIsSortedLedger
  <2>3. visible(ledger, t) = ledger
    BY AllIsVisible
  <2>4. /\ state.carveouts = project_carveouts(DeclaringCharter, ledger, t)
        /\ state.reviews = project_reviews(ledger)
    BY <2>3 DEF project
  <2> HIDE DEF ledger, t, state
  <2>5. e.kind \in EndingKinds => BeginsIn(ledger, e) /\ \A f \in ledger : EndsTheSame(e, f) => f = e
    BY <2>1, <2>2, CleanEndings DEF ledger
  <2>6. e.kind \in TERMINAL_KINDS =>
          /\ e.id \in DOMAIN state.carveouts
          /\ state.carveouts[e.id].terminal_at = e.at
          /\ state.carveouts[e.id].ratified_at <= e.at
    BY <2>2, <2>4, <2>5, EndedCarveOut DEF EndingKinds, ledger
  <2>7. e.kind = REVIEW_CLOSED =>
          /\ e.id \in DOMAIN state.reviews
          /\ state.reviews[e.id].closed_at = e.at
          /\ state.reviews[e.id].opened_at <= e.at
    BY <2>2, <2>4, <2>5, EndedReview DEF EndingKinds, ledger
  <2> QED
    BY <2>6, <2>7 DEF state, ledger, t
<1> QED
  BY <1>1, StreamIsGiven, PassInit, PassStep, PTL DEF Spec
=============================================================================
