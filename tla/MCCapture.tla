----------------------------- MODULE MCCapture ------------------------------
(* Finite instances of Capture for TLC. *)
EXTENDS Capture, TLC

CONSTANTS c1, c2, g1, g2   \* captures by systemd or the CLI, fixes

TwoFixesOneCapture == {c1, g1, g2}
OneFixOneCapture   == {c1, g1}
TwoCaptures        == {c1, c2}
TwoFixes           == {g1, g2}
OneFix             == {g1}

CaptureSymmetry == Permutations({c1, c2})
FixSymmetry     == Permutations({g1, g2})
=============================================================================
