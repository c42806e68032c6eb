--------------------------- MODULE CaptureClaims ---------------------------
(***************************************************************************)
(* What a comment of the repository says of the Hyprland capture and its   *)
(* code does not do; the README tells the counterexample.                  *)
(***************************************************************************)
EXTENDS CaptureSession

(* HyprlandHookGuard::remove: after a failed cleanup "the Lua timer        *)
(* remains the owner-checked recovery path when the state exists".  The    *)
(* cleanup script disables that timer before it tries to restore.          *)
TimerRemainsRecoveryPath ==
    \A s \in Sessions : pc[s] = "gone" /\ owner = s ~> owner # s

=============================================================================
