------------------------------ MODULE MCIntake ------------------------------
(***************************************************************************)
(* The documents the intake run decodes.                                   *)
(***************************************************************************)
EXTENDS IntakeProperties

Plain(kind, path, text) == [kind |-> kind, path |-> path, anchor |-> FALSE, text |-> text]
Scalar(path, text) == Plain("scalar", path, text)
BlockAt(path)      == Plain("mapping_start", path, "")
Mark(kind)         == Plain(kind, <<>>, "")
Start              == Mark("document_start")

Sized(bytes, bom, events) == [bytes |-> bytes, bom |-> bom, events |-> events]
Text(events) == Sized(MAX_DOCUMENT_BYTES, FALSE, events)

AllTexts == DOMAIN CORE_SCHEMA \cup {"'2'", "'0.5'", "no", "yes", "inclusive", "2026-07-30", UNKNOWN_TAG}
FewTexts == {"null", "false", "0", "2", "'2'"}

Config(entries)   == <<Start, BlockAt(<<>>), BlockAt(<<"config">>)>> \o entries
Approval(entries) == Config(<<BlockAt(<<"config", "approval_policy">>)>> \o entries)

\* Every setting with every text, in a config block of its own.
OneSetting ==
  {Text(Config(<<Scalar(<<"config", key>>, text)>>)) : key \in CONFIG_KEYS, text \in AllTexts}
    \cup {Text(Approval(<<Scalar(<<"config", "approval_policy", key>>, text)>>)) :
            key \in APPROVAL_POLICY_KEYS, text \in AllTexts}

\* Two entries, which may be the same key twice, an unknown key, or a scalar
\* where a block belongs.
TwoKeys == {<<"config", key>> : key \in {"density_threshold", "require_review_artifact",
                                         "approval_policy", "last_full_review"}}
Nested  == <<"config", "approval_policy", "min_approvals">>
TwoEntries ==
  {Text(Config(<<Scalar(p, s), Scalar(q, t)>>)) :
     p \in TwoKeys, q \in TwoKeys, s \in FewTexts, t \in FewTexts}
    \cup {Text(Approval(<<Scalar(Nested, s)>> \o rest)) :
            s \in FewTexts,
            rest \in {<<Scalar(Nested, "1")>>, <<Scalar(<<"config", "density_threshold">>, "1")>>,
                      <<BlockAt(<<"config", "approval_policy">>)>>}}

\* Events with a field named like a keyword, which is volatile.
Carveouts ==
  {Text(<<Start, BlockAt(<<>>)>> \o entries) :
     entries \in {<<Scalar(<<"id">>, id), Scalar(<<"title">>, title)>> :
                    id \in {"CO-1", "1", "co-1"}, title \in {"''", "' '", "null", "2", "Exports"}}
                 \cup {<<Scalar(<<"id">>, "CO-1")>>, <<Scalar(<<"title">>, "Exports")>>}}

\* One of the shapes the guards are for, before, inside or after an ordinary block.
Ordinary == Config(<<Scalar(<<"config", "density_threshold">>, "2")>>)
Anchored(events, k) == [events EXCEPT ![k].anchor = TRUE]
Interrupted(k, kind) == SubSeq(Ordinary, 1, k) \o <<Mark(kind)>>
Hostile ==
  {Text(Anchored(Ordinary, k)) : k \in 2 .. Len(Ordinary)}
    \cup {Text(Interrupted(k, kind)) :
            k \in 0 .. Len(Ordinary), kind \in {"alias", "parser_error", "reader_error"}}
    \cup {Text(Ordinary \o Ordinary), Text(Ordinary \o <<Start, Scalar(<<>>, "null")>>)}
    \cup {Sized(MAX_DOCUMENT_BYTES + extra, bom, events) :
            extra \in {0, 1}, bom \in BOOLEAN, events \in {Ordinary, <<>>, Anchored(Ordinary, 4)}}

\* Documents whose root is no mapping, or nothing at all.
Roots == {Text(<<>>), Text(<<Start, Plain("sequence_start", <<>>, "")>>)}
           \cup {Text(<<Start, Scalar(<<>>, text)>>) : text \in {"null", "2", "no", UNKNOWN_TAG}}
           \cup {Text(<<Start, BlockAt(<<>>)>> \o tail) :
                   tail \in {<<>>, <<Scalar(<<"config">>, "null")>>, <<Scalar(<<"config">>, "2")>>,
                             <<Plain("sequence_start", <<"config">>, "")>>}}

MCCorpus == OneSetting \cup TwoEntries \cup Carveouts \cup Hostile \cup Roots
=============================================================================
