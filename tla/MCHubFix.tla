------------------------------ MODULE MCHubFix ------------------------------
(* Finite instances of HubFix for TLC. *)
EXTENDS HubFix, TLC

CONSTANTS f1, f2

TwoFixers == {f1, f2}
OneFixer  == {f1}

\* Fixers are interchangeable: no definition of HubFix names one of them.
FixerSymmetry == Permutations(TwoFixers)
=============================================================================
