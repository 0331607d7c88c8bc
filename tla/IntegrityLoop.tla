--------------------------- MODULE IntegrityLoop ----------------------------
(***************************************************************************)
(* check_integrity (integrity.py): one pass over the stream with the sets  *)
(* the code keeps, then one pass over the event keys.                      *)
(***************************************************************************)
EXTENDS Integrity

CONSTANTS Streams,   \* the event streams to check
          Declared   \* the non-goals the charter declares

ASSUME StreamsAssumption == Streams \subseteq Seq(ResolvedEvent)
ASSUME DeclaredAssumption == Declared \subseteq NonGoalIds

VARIABLES events,                  \* the argument
          i,                       \* position of the next event
          ratified_ids, carveout_terminal_seen,
          review_opened_ids, review_closed_seen,
          event_keys_seen,         \* key -> positions of the files claiming it
          all_event_keys,
          bag,                     \* the findings so far
          pc

seen == <<ratified_ids, carveout_terminal_seen, review_opened_ids, review_closed_seen>>
vars == <<events, i, seen, event_keys_seen, all_event_keys, bag, pc>>

Init ==
  /\ events \in Streams
  /\ i = 1
  /\ ratified_ids = {} /\ carveout_terminal_seen = {}
  /\ review_opened_ids = {} /\ review_closed_seen = {}
  /\ event_keys_seen = [key \in EventKeys |-> {}]
  /\ all_event_keys = {}
  /\ bag = {}
  /\ pc = "scan"

event == events[i]
Report(code) == bag' = bag \cup {<<code, i>>}

\* The head of the loop body, common to every kind.
\* Mutant: the last event is never visited.
VisitButLast(kinds) ==
  /\ pc = "scan" /\ i < Len(events) /\ event.kind \in kinds
  /\ i' = i + 1
  /\ event_keys_seen' = [event_keys_seen EXCEPT ![event_key(event)] = @ \cup {i}]
  /\ all_event_keys' = all_event_keys \cup {event_key(event)}
  /\ UNCHANGED <<events, pc>>
Visit(kinds) ==
  /\ pc = "scan" /\ i <= Len(events) /\ event.kind \in kinds
  /\ i' = i + 1
  /\ event_keys_seen' = [event_keys_seen EXCEPT ![event_key(event)] = @ \cup {i}]
  /\ all_event_keys' = all_event_keys \cup {event_key(event)}
  /\ UNCHANGED <<events, pc>>

VisitRatified ==
  /\ Visit({CARVEOUT_RATIFIED})
  /\ ratified_ids' = ratified_ids \cup {event.id}
  /\ IF event.non_goal \notin Declared THEN Report(E0501) ELSE UNCHANGED bag
  /\ UNCHANGED <<carveout_terminal_seen, review_opened_ids, review_closed_seen>>

\* Mutant: the origin is not looked up.
VisitTerminalUnchecked ==
  /\ Visit(TERMINAL_KINDS)
  /\ \/ event.id \in carveout_terminal_seen /\ Report(E0503) /\ UNCHANGED carveout_terminal_seen
     \/ /\ event.id \notin carveout_terminal_seen
        /\ carveout_terminal_seen' = carveout_terminal_seen \cup {event.id}
        /\ UNCHANGED bag
  /\ UNCHANGED <<ratified_ids, review_opened_ids, review_closed_seen>>
VisitTerminal ==
  /\ Visit(TERMINAL_KINDS)
  /\ \/ /\ event.id \notin ratified_ids
        /\ Report(E0502) /\ UNCHANGED carveout_terminal_seen
     \/ /\ event.id \in ratified_ids /\ event.id \in carveout_terminal_seen
        /\ Report(E0503) /\ UNCHANGED carveout_terminal_seen
     \/ /\ event.id \in ratified_ids /\ event.id \notin carveout_terminal_seen
        /\ carveout_terminal_seen' = carveout_terminal_seen \cup {event.id}
        /\ UNCHANGED bag
  /\ UNCHANGED <<ratified_ids, review_opened_ids, review_closed_seen>>

\* Mutant: the id goes into the set of the carve-outs.
VisitOpenedMisfiled ==
  /\ Visit({REVIEW_OPENED})
  /\ ratified_ids' = ratified_ids \cup {event.id}
  /\ UNCHANGED <<review_opened_ids, carveout_terminal_seen, review_closed_seen, bag>>
VisitOpened ==
  /\ Visit({REVIEW_OPENED})
  /\ review_opened_ids' = review_opened_ids \cup {event.id}
  /\ UNCHANGED <<ratified_ids, carveout_terminal_seen, review_closed_seen, bag>>

VisitClosed ==
  /\ Visit({REVIEW_CLOSED})
  /\ \/ /\ event.id \notin review_opened_ids
        /\ Report(E0502) /\ UNCHANGED review_closed_seen
     \/ /\ event.id \in review_opened_ids /\ event.id \in review_closed_seen
        /\ Report(E0503) /\ UNCHANGED review_closed_seen
     \/ /\ event.id \in review_opened_ids /\ event.id \notin review_closed_seen
        /\ review_closed_seen' = review_closed_seen \cup {event.id}
        /\ UNCHANGED bag
  /\ UNCHANGED <<ratified_ids, carveout_terminal_seen, review_opened_ids>>

\* Mutant: the correction is checked before its own key is recorded.
VisitCorrectionEarly ==
  /\ Visit({CORRECTION})
  /\ \/ event.corrects \notin all_event_keys /\ Report(E0505)
     \/ event.corrects \in all_event_keys /\ event.corrects[2] = CORRECTION /\ Report(E0307)
     \/ event.corrects \in all_event_keys /\ event.corrects[2] # CORRECTION /\ UNCHANGED bag
  /\ UNCHANGED seen

\* _check_correction, which sees the keys up to and including its own.
VisitCorrection ==
  /\ Visit({CORRECTION})
  /\ \/ event.corrects \notin all_event_keys' /\ Report(E0505)
     \/ event.corrects \in all_event_keys' /\ event.corrects[2] = CORRECTION /\ Report(E0307)
     \/ event.corrects \in all_event_keys' /\ event.corrects[2] # CORRECTION /\ UNCHANGED bag
  /\ UNCHANGED seen

\* The second loop: the keys that more than one file claims.
ReportSharedKeys ==
  /\ pc = "scan" /\ i > Len(events)
  /\ bag' = bag \cup {<<E0504, key>> :
                        key \in {k \in EventKeys : \E p, q \in event_keys_seen[k] : p # q}}
  /\ pc' = "done"
  /\ UNCHANGED <<events, i, seen, event_keys_seen, all_event_keys>>

Next ==
  \/ VisitRatified \/ VisitTerminal \/ VisitOpened \/ VisitClosed \/ VisitCorrection
  \/ ReportSharedKeys

Spec == Init /\ [][Next]_vars /\ WF_vars(Next)

TypeOK ==
  /\ events \in Seq(ResolvedEvent)
  /\ i \in 1 .. Len(events) + 1
  /\ ratified_ids \subseteq CarveOutIds /\ carveout_terminal_seen \subseteq CarveOutIds
  /\ review_opened_ids \subseteq ReviewIds /\ review_closed_seen \subseteq ReviewIds
  /\ event_keys_seen \in [EventKeys -> SUBSET (1 .. Len(events))]
  /\ all_event_keys \subseteq EventKeys
  /\ pc \in {"scan", "done"}

-----------------------------------------------------------------------------
\* The pass reports exactly the violations of the rules: nothing is missed
\* because of what the sets forgot, and nothing harmless is reported.
ReportsExactlyTheFindings == pc = "done" => bag = Findings(Declared, events)

\* The check is total: it finishes on every stream.
Finishes == <>(pc = "done")
=============================================================================
