------------------------------- MODULE MCPage -------------------------------
(* Small instances of Page for TLC.                                        *)
EXTENDS Page

\* Every record but one matches.
MCMatching == Records \ {<<0, 1>>}
=============================================================================
