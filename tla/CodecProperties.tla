-------------------------- MODULE CodecProperties ---------------------------
(***************************************************************************)
(* What must hold of decoding.                                             *)
(***************************************************************************)
EXTENDS Codec

\* A document of the safe dialect is decoded, to just the keys and values that
\* it spells out; any other is refused, with a hazard that it has.  The guards,
\* the first parse and the second, with its handlers, do this together, and
\* decoding ends (codec.decode).
Dialect == INSTANCE SafeDialect
ImplementsSafeDialect == Dialect!Spec

\* The second parse, which has neither the alias guard nor a handler for every
\* error, only meets documents it is safe for: one document, nothing shared by
\* reference, all of it readable (codec.decode after _guard_structure).
LoadsOnlyWhatWasInspected ==
  (pc = "load" \/ outcome[1] = "decoded") =>
    LET Met == {document.events[k] : k \in DOMAIN document.events}
    IN  /\ \A e \in Met : /\ e.kind \notin {"alias", "parser_error", "reader_error"}
                          /\ ~(e.kind \in ANCHORABLE /\ e.anchor)
        /\ \A k, l \in DOMAIN document.events :
             document.events[k].kind = "document_start" /\ document.events[l].kind = "document_start"
               => k = l
        /\ document.bytes <= MAX_DOCUMENT_BYTES
=============================================================================
