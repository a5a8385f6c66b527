------------------------------ MODULE MCResend ------------------------------
(* Small instances of Resend for TLC.                                      *)
EXTENDS Resend

\* The first record, one in the middle, one that is not written yet, and a
\* partition that does not exist.
MCAsked == {<<0, 0>>, <<0, 1>>, <<1, 3>>, <<7, 0>>}
=============================================================================
