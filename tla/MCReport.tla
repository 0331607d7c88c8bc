------------------------------ MODULE MCReport ------------------------------
(* Reports over small repositories. *)
EXTENDS ReportProperties, MCValues

\* SemVerStr (models/common.py) keeps malformed versions out of a Charter.
MCSpecVersions == {<<0, 1>>, <<0, 2>>, <<1, 0>>}
MCSupported == {<<0, 1>>}
=============================================================================
