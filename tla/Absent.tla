------------------------------- MODULE Absent -------------------------------
(***************************************************************************)
(* Python's None: an optional field without a value, a lookup without a    *)
(* result.  Every module that has optional fields shares this one.         *)
(***************************************************************************)
CONSTANT None
=============================================================================
