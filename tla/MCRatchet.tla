----------------------------- MODULE MCRatchet ------------------------------
(* The repository against the abstract ratchet, on small instances. *)
EXTENDS RatchetRefinement, MCValues
=============================================================================
