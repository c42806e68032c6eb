-------------------------- MODULE DiagnosticBudget --------------------------
(***************************************************************************)
(* with_deadline and its uses in src/command.rs: one thread runs nested    *)
(* diagnostic operations, each under a wall-clock deadline that no inner   *)
(* one can extend, and inside them commands and in-process queries, each   *)
(* under its own timeout and never beyond the deadline.                    *)
(***************************************************************************)
EXTENDS Integers, Sequences

CONSTANTS
    Durations,   \* the durations asked of with_deadline
    Timeout,     \* configured_timeout()
    StartDelay,  \* how long starting a command may take
    MaxDepth,    \* bound: nesting
    MaxTime      \* bound: the clock

ASSUME BudgetAssumption ==
    /\ Durations \subseteq Nat
    /\ {Timeout, StartDelay, MaxDepth, MaxTime} \subseteq Nat

None == -1

VARIABLES
    now,       \* Instant::now()
    active,    \* ACTIVE_DEADLINE
    deadlines, \* the `previous` of each DeadlineGuard on the stack, and the
               \* deadline its operation runs under
    pc,        \* what the thread does
    limit,     \* the command's `timeout`, clamped
    begun,     \* when the clamp was computed
    started    \* the command's `started`

budgetVars == <<now, active, deadlines, pc, limit, begun, started>>

BudgetTypeOK ==
    /\ now \in 0 .. MaxTime
    /\ active \in Nat \cup {None}
    /\ deadlines \in Seq([previous : Nat \cup {None}, deadline : Nat])
    /\ pc \in {"idle", "starting", "running"}
    /\ limit \in 0 .. Timeout
    /\ begun \in 0 .. MaxTime
    /\ started \in 0 .. MaxTime

BudgetInit ==
    /\ now = 0
    /\ active = None
    /\ deadlines = <<>>
    /\ pc = "idle"
    /\ limit = 0 /\ begun = 0 /\ started = 0

-----------------------------------------------------------------------------
AtMost(a, b) == IF a < b THEN a ELSE b

(* deadline_remaining, for an active deadline.                             *)
Remaining == IF active > now THEN active - now ELSE 0

(* deadline_exceeded, and the early return of run_with_limits and          *)
(* query_budget.                                                           *)
Exhausted == active # None /\ Remaining = 0

\* The clamp of run_with_limits and of query_budget.
Budget == IF active = None THEN Timeout ELSE AtMost(Timeout, Remaining)

-----------------------------------------------------------------------------
\* Mutant: an inner operation may outlive the outer one.
Unclamped(asked) == asked

Effective(asked) == IF active = None THEN asked ELSE AtMost(active, asked)

Enter ==
    /\ pc = "idle"
    /\ Len(deadlines) < MaxDepth
    /\ \E d \in Durations :
          /\ active' = Effective(now + d)
          /\ deadlines' = Append(deadlines, [previous |-> active, deadline |-> Effective(now + d)])
    /\ UNCHANGED <<now, pc, limit, begun, started>>

\* DeadlineGuard's Drop: also when the operation panics.
Leave ==
    /\ pc = "idle"
    /\ deadlines # <<>>
    /\ active' = deadlines[Len(deadlines)].previous
    /\ deadlines' = SubSeq(deadlines, 1, Len(deadlines) - 1)
    /\ UNCHANGED <<now, pc, limit, begun, started>>

(* run_with_limits: the timeout is clamped, then the child is started, and *)
(* the wait is measured from `started`.                                    *)
StartCommand ==
    /\ pc = "idle"
    /\ ~Exhausted
    /\ limit' = Budget
    /\ begun' = now
    /\ pc' = "starting"
    /\ UNCHANGED <<now, active, deadlines, started>>

CommandStarted ==
    /\ pc = "starting"
    /\ started' = now
    /\ pc' = "running"
    /\ UNCHANGED <<now, active, deadlines, limit, begun>>

\* It ended, or `timeout` has elapsed.
CommandEnds ==
    /\ pc = "running"
    /\ pc' = "idle"
    /\ UNCHANGED <<now, active, deadlines, limit, begun, started>>

GiveUpAt == started + limit

\* Time stands still only where the thread acts at once.
Tick ==
    /\ now < MaxTime
    /\ pc = "starting" => now < begun + StartDelay
    /\ pc = "running" => now < GiveUpAt
    /\ now' = now + 1
    /\ UNCHANGED <<active, deadlines, pc, limit, begun, started>>

BudgetNext == Enter \/ Leave \/ StartCommand \/ CommandStarted \/ CommandEnds \/ Tick

BudgetSpec == BudgetInit /\ [][BudgetNext]_budgetVars

-----------------------------------------------------------------------------
(* Nested operations never extend an outer deadline: the one in force is   *)
(* that of the innermost operation, and no outer one ends earlier.         *)
InnermostRules ==
    /\ active = IF deadlines = <<>> THEN None ELSE deadlines[Len(deadlines)].deadline
    /\ \A i \in 1 .. Len(deadlines) - 1 : deadlines[i + 1].deadline <= deadlines[i].deadline

(* A command ends within every deadline it runs under, up to the time it   *)
(* took to start it.                                                       *)
CommandsEndInBudget ==
    pc = "running" =>
        \A i \in DOMAIN deadlines : now <= deadlines[i].deadline + (started - begun)

=============================================================================
