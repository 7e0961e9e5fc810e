-------------------------- MODULE MCTelnetSession ---------------------------
(* Instances of TelnetSession for TLC.                                     *)
EXTENDS TelnetSession, TLC

CONSTANTS s1, s2

SessOne == {s1}
SessTwo == {s1, s2}

(* Sessions are interchangeable.                                           *)
SymmetryTwo == Permutations(SessTwo)

=============================================================================
