--------------------------- MODULE TerminalGuard ---------------------------
(***************************************************************************)
(* What a listening whykey process holds besides its capture backend: the  *)
(* terminal in raw mode (TerminalSession) and the signal handlers          *)
(* (SignalGuard), both of src/listen/terminal.rs.  The listening loops of  *)
(* NativeListen and ObservedListen extend this module.                     *)
(*                                                                         *)
(* Signals only set flags while the guard is installed.  SIGTSTP stops the *)
(* process where its former disposition is back: inside stop_process and   *)
(* after the guard was dropped.                                            *)
(***************************************************************************)
EXTENDS Integers

CONSTANTS
    MaxSignals,    \* bound: SIGTSTPs sent to the process
    MaxTtyFaults   \* bound: terminal operations that fail

ASSUME GuardAssumption == MaxSignals \in Nat /\ MaxTtyFaults \in Nat

VARIABLES
    raw,            \* the terminal is in raw mode
    kitty,          \* the Kitty capture flags are pushed
    interrupted,    \* INTERRUPTED
    stopRequested,  \* STOP_REQUESTED
    guarded,        \* SIGTSTP has whykey's handler
    running,        \* FALSE while the job is stopped
    signals,        \* SIGTSTPs sent so far
    ttyFaults       \* failed terminal operations so far

ttyVars == <<raw, kitty, ttyFaults>>
signalVars == <<interrupted, stopRequested, guarded, running, signals>>
guardVars == <<ttyVars, signalVars>>

GuardTypeOK ==
    /\ raw \in BOOLEAN /\ kitty \in BOOLEAN
    /\ interrupted \in BOOLEAN /\ stopRequested \in BOOLEAN
    /\ guarded \in BOOLEAN /\ running \in BOOLEAN
    /\ signals \in 0 .. MaxSignals
    /\ ttyFaults \in 0 .. MaxTtyFaults

GuardInit ==
    /\ raw = FALSE /\ kitty = FALSE /\ ttyFaults = 0
    /\ interrupted = FALSE /\ stopRequested = FALSE
    /\ guarded = TRUE /\ running = TRUE /\ signals = 0

-----------------------------------------------------------------------------
(* TerminalSession::open                                                   *)
Opens ==
    /\ raw' = TRUE /\ kitty' = TRUE
    /\ UNCHANGED ttyFaults

\* No terminal, or the error paths that put the old settings back.
OpenFails ==
    /\ ttyFaults < MaxTtyFaults
    /\ ttyFaults' = ttyFaults + 1
    /\ UNCHANGED <<raw, kitty>>

\* The two error paths after the flags were pushed put nothing back.
OpenFailsLate ==
    /\ ttyFaults < MaxTtyFaults
    /\ ttyFaults' = ttyFaults + 1
    /\ raw' = TRUE /\ kitty' = TRUE

(* TerminalSession::restore, also run by Drop: the settings are put back   *)
(* even where popping the flags fails.                                     *)
Restores ==
    /\ raw' = FALSE /\ kitty' = FALSE
    /\ UNCHANGED ttyFaults

RestoreFails ==
    /\ ttyFaults < MaxTtyFaults
    /\ ttyFaults' = ttyFaults + 1
    /\ raw' = FALSE
    /\ UNCHANGED kitty

-----------------------------------------------------------------------------
(* SignalGuard                                                             *)

\* take_stop_request
StopRequestTaken ==
    /\ stopRequested
    /\ stopRequested' = FALSE
    /\ UNCHANGED <<interrupted, guarded, running, signals>>

\* Mutant: SIGTSTP is raised with whykey's own handler still in place.
RaisesToItself ==
    /\ stopRequested' = TRUE
    /\ UNCHANGED <<interrupted, guarded, running, signals>>

\* stop_process: the old disposition is put back and SIGTSTP raised ...
Stops ==
    /\ guarded' = FALSE
    /\ running' = FALSE
    /\ UNCHANGED <<interrupted, stopRequested, signals>>

\* ... and after SIGCONT the handler is reclaimed.
Reclaims ==
    /\ guarded' = TRUE
    /\ UNCHANGED <<interrupted, stopRequested, running, signals>>

\* Drop: the old handlers are back, then a deferred stop takes effect.
Unguards ==
    /\ guarded' = FALSE
    /\ running' = ~stopRequested
    /\ stopRequested' = FALSE
    /\ UNCHANGED <<interrupted, signals>>

-----------------------------------------------------------------------------
(* The outside: the user interrupts, stops and continues the job.          *)
Interrupt ==
    /\ ~interrupted
    /\ interrupted' = TRUE
    /\ UNCHANGED <<ttyVars, stopRequested, guarded, running, signals>>

Suspend ==
    /\ running
    /\ signals < MaxSignals
    /\ signals' = signals + 1
    /\ stopRequested' = (stopRequested \/ guarded)
    /\ running' = guarded
    /\ UNCHANGED <<ttyVars, interrupted, guarded>>

Continue ==
    /\ ~running
    /\ running' = TRUE
    /\ UNCHANGED <<ttyVars, interrupted, stopRequested, guarded, signals>>

Outside == Interrupt \/ Suspend \/ Continue

=============================================================================
