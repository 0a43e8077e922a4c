------------------------------ MODULE MCSession ------------------------------
(* Small instances of SessionStore for TLC.                                   *)
EXTENDS SessionProperties, TLC

CONSTANTS s1, s2

\* Saves are interchangeable.
SaveSymmetry == Permutations(Saves)

=============================================================================
