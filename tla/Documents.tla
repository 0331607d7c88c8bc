----------------------------- MODULE Documents ------------------------------
(***************************************************************************)
(* Charter and ledger documents as the codec meets them: what the YAML     *)
(* parser makes of a text, and the JSON data model a decoded document      *)
(* stays inside (codec.py and, for the library, how codec.py uses it).     *)
(*                                                                         *)
(* A document is its size, whether it starts with a byte order mark, and   *)
(* the events the parser raises for it.  An event carries the path of the  *)
(* keys and list positions it is the value of (empty for the root and what *)
(* is no value), whether it defines an anchor and, for a scalar, its text. *)
(* What the parser cannot read is an event as well.                        *)
(***************************************************************************)
EXTENDS Integers, Sequences

ANCHORABLE == {"scalar", "mapping_start", "sequence_start"}
EventKinds == ANCHORABLE \cup {"document_start", "alias", "parser_error", "reader_error"}

DocumentEvent(Keys, Texts) ==
  [kind : EventKinds, path : Seq(Keys), anchor : BOOLEAN, text : Texts]

\* Only values have a path, and what holds a value is a block or a list.
WellNested(events) ==
  \A k \in DOMAIN events :
    LET path == events[k].path
    IN  path # <<>> =>
          /\ events[k].kind \in ANCHORABLE \cup {"alias"}
          /\ \E l \in DOMAIN events : /\ events[l].kind \in {"mapping_start", "sequence_start"}
                                     /\ events[l].path = SubSeq(path, 1, Len(path) - 1)

\* What a CodecError names.
Hazards ==
  {"oversize", "bom", "multi_document", "anchor_alias", "malformed", "encoding",
   "duplicate_key", "not_a_mapping"}

-----------------------------------------------------------------------------
(* The JSON data model: <<type, value>>.  A number is <<digits, places>>,  *)
(* that is digits / 10^places; what a block or a list holds is found under *)
(* its path.                                                               *)

Null       == <<"null", 0>>
Boolean(b) == <<"boolean", b>>
Integer(n) == <<"integer", n>>
Number(r)  == <<"number", r>>
String(s)  == <<"string", s>>
Block      == <<"object", 0>>
List       == <<"array", 0>>

\* The scalars of the YAML 1.2 core schema; all other text is a string.
CORE_SCHEMA ==
  [text \in {"null", "true", "false", "-1", "0", "1", "2", "2.0", "2.5", "0.5", "1.5"} |->
     CASE text = "null"  -> Null
       [] text = "true"  -> Boolean(TRUE)
       [] text = "false" -> Boolean(FALSE)
       [] text = "-1"    -> Integer(-1)
       [] text = "0"     -> Integer(0)
       [] text = "1"     -> Integer(1)
       [] text = "2"     -> Integer(2)
       [] text = "2.0"   -> Number(<<20, 1>>)
       [] text = "2.5"   -> Number(<<25, 1>>)
       [] text = "0.5"   -> Number(<<5, 1>>)
       [] text = "1.5"   -> Number(<<15, 1>>)]

UNKNOWN_TAG == "!!custom value"

\* Mutant: the YAML 1.1 resolver, for which no and yes are booleans.
construct_1_1(text) ==
  CASE text = "no"  -> Boolean(FALSE)
    [] text = "yes" -> Boolean(TRUE)
    [] text \in DOMAIN CORE_SCHEMA -> CORE_SCHEMA[text]
    [] OTHER        -> String(text)
\* Timestamps have no JSON counterpart and stay text.
construct(text) == IF text \in DOMAIN CORE_SCHEMA THEN CORE_SCHEMA[text] ELSE String(text)
=============================================================================
