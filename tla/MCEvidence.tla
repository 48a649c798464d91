----------------------------- MODULE MCEvidence -----------------------------
(* Finite instances of Evidence for TLC. *)
EXTENDS Evidence, TLC

CONSTANTS u1, u2, s1, h1

TheUsers == {u1, u2}
TheRoots == {u1}
TheUnits == {s1}
\* u1 is root by the sudo of the person who is u2.
TheHome  == (u1 :> h1) @@ (u2 :> h1)
Tickets  == (u1 :> {"report", "package"}) @@ (u2 :> {"archive", "purge"})
Windows  == (u1 :> {"window", "fix"}) @@ (u2 :> {"archive", "window"})
=============================================================================
