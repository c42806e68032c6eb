-------------------------- MODULE MCCaptureSession --------------------------
(* Model values for CaptureSession.                                        *)
EXTENDS CaptureClaims, TLC

CONSTANTS s1, s2, resize

MCUserSubmaps == {Default, resize}
Both == {s1, s2}
First == {s1}
JustDefault == {Default}
Alike == Permutations(Both)
=============================================================================
