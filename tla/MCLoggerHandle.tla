---------------------------- MODULE MCLoggerHandle ----------------------------
(* Model checking of the handles.                                          *)
EXTENDS LoggerHandle, TLC

\* No definition tells one handle from another.
Symmetric == Permutations(Handles)
=============================================================================
