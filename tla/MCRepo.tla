------------------------------- MODULE MCRepo -------------------------------
(* The repository and its properties, on small instances. *)
EXTENDS RepoProperties, MCValues
=============================================================================
