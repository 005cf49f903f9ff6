------------------------------ MODULE MCLogCalls ------------------------------
(* Model checking of the handles and the calls made through them.          *)
EXTENDS LogCalls, TLC

\* No definition tells one handle, or one message variable, from another.
Symmetric == Permutations(Handles) \cup Permutations(Objects) \cup Permutations(Texts)

\* Every enumerator, and a value beyond the last.
AllLevels == 0..9
=============================================================================
