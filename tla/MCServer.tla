------------------------------- MODULE MCServer -------------------------------
(* Small instances of Server for TLC. *)
EXTENDS Server

\* The release with two files, and the older one with the first only.
MCReleases == {{1}, {1, 2}}

\* The middleware asks once before the operation.
MCPlans == {<<"plain">>, <<"plain", "nested">>}
==============================================================================
