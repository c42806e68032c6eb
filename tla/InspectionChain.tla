--------------------------- MODULE InspectionChain ---------------------------
(***************************************************************************)
(* The inspection of a key sequence (src/layers/inspection.rs): which      *)
(* layers are asked about each key, in which order, when the route stops,  *)
(* what the stateful layers are told of the earlier keys, and what an      *)
(* exhausted diagnostic budget cuts off.  The answer of an adapter is any  *)
(* outcome.                                                                *)
(***************************************************************************)
EXTENDS Integers, Sequences, SequencesExt

CONSTANTS
    Steps,             \* bound: keys of the sequence
    Outcomes,          \* the outcomes that layers answer with
    RemapperOutcomes   \* those of the remapper

AllOutcomes == {"Pass", "HandledAndPassed", "Consumed", "Redirected", "HandledUncertain",
                "UncertainContinues", "Unknown", "Unavailable", "UnadaptedTarget"}

ASSUME ChainAssumption ==
    /\ Steps \in Nat \ {0}
    /\ {"Pass"} \subseteq Outcomes \cap RemapperOutcomes
    /\ Outcomes \cup RemapperOutcomes \subseteq AllOutcomes

VARIABLES
    request,    \* what is the same for every key: force_continue, the target,
                \* and whether a multiplexer and an input method are present
    step,       \* the key that is inspected
    pc,         \* the layer that comes next
    remapper,   \* the remapper's row, or NoRow
    downstream, \* the key the other layers inspect
    rows,       \* the accumulator's results
    input,      \* whether the bytes of the key are known
    stopAfter,  \* stop_after_steps
    delivery,   \* StepDelivery
    prefix,     \* SequencePrefix
    asked,      \* how the shell was asked about this key
    spent,      \* the budget is exhausted
    late,       \* adapters asked since
    holes       \* history: keys cut by the budget, or with unknown bytes for the shell

routeVars == <<pc, rows>>
keyVars == <<step, remapper, downstream>>
chainVars == <<request, keyVars, routeVars, input, stopAfter, delivery, prefix, asked, spent,
               late, holes>>

Row(layer, outcome) == [layer |-> layer, outcome |-> outcome]
NoRow == Row("none", "Pass")
BudgetRow == Row("budget", "Unavailable")

Layers == {"compositor", "terminal", "ime", "tty", "session", "application", "shell"}
Rows == [layer : Layers, outcome : Outcomes] \cup {BudgetRow}

NothingDelivered == [multiplexer |-> FALSE, shell |-> "nothing"]

\* A sequence is forced when it has a target (--pid, --focused); a captured
\* key may be forced without one.
Requests ==
    {r \in [force : BOOLEAN, target : {"none", "shell", "program"}, multiplexer : BOOLEAN,
            ime : BOOLEAN] : r.target # "none" => r.force}

ChainInit ==
    /\ request \in Requests
    /\ step = 1 /\ pc = "remapper" /\ remapper = NoRow /\ downstream = "original"
    /\ rows = <<>> /\ input = FALSE /\ stopAfter = FALSE
    /\ delivery = NothingDelivered
    /\ prefix = [multiplexer |-> <<>>, shell |-> <<>>, unknown |-> FALSE]
    /\ asked = "nothing"
    /\ spent = FALSE /\ late = 0 /\ holes = {}

\* The deadline passes, at any time; nothing looks at it between two keys.
Expires ==
    /\ pc \notin {"return", "done"}
    /\ ~spent
    /\ spent' = TRUE
    /\ UNCHANGED <<request, keyVars, routeVars, input, stopAfter, delivery, prefix, asked,
                   late, holes>>

Asks == late' = IF spent THEN late + 1 ELSE late

-----------------------------------------------------------------------------
(* ContinuationPolicy and RouteAccumulator.                                *)
Intercepts(row) == row.outcome \in {"Consumed", "Redirected"}
BlocksChain(row) == Intercepts(row) \/ row.outcome = "Unavailable"

StopsOnInterception(row) == ~request.force /\ Intercepts(row)
StopsOnBlocking(row) == ~request.force /\ BlocksChain(row)

\* Mutant: what came before is not looked at.
NeverIntercepted == FALSE

Intercepted == \E i \in DOMAIN rows : Intercepts(rows[i])

\* check_deadline after `found`, then the next layer
GoesOn(found, next) ==
    IF spent THEN /\ rows' = Append(found, BudgetRow)
                  /\ pc' = "return"
                  /\ holes' = holes \cup {step}
             ELSE rows' = found /\ pc' = next /\ UNCHANGED holes

Stops(found) == rows' = found /\ pc' = "return" /\ UNCHANGED holes

-----------------------------------------------------------------------------
(* route_after_remapper.  A modifier on its own is inspected as far as the *)
(* compositor.                                                             *)
Kept(alone) == IF alone THEN "alone" ELSE "original"

RemapperAsked ==
    /\ pc = "remapper" /\ ~spent
    /\ \E outcome \in RemapperOutcomes, alone \in BOOLEAN : LET row == Row("remapper", outcome) IN
          \/ /\ outcome = "Pass"
             /\ remapper' = NoRow /\ downstream' = Kept(alone) /\ pc' = "compositor"
          \/ /\ outcome = "Redirected"
             /\ remapper' = row /\ pc' = "compositor"
             /\ downstream' \in {IF alone THEN "alone" ELSE "remapped", "conditional"}
          \/ /\ outcome \notin {"Pass", "Redirected"}
             /\ remapper' = row /\ downstream' = Kept(alone)
             /\ pc' = IF StopsOnInterception(row) THEN "return" ELSE "compositor"
    /\ Asks
    /\ UNCHANGED <<request, step, rows, input, stopAfter, delivery, prefix, asked, spent, holes>>

RemapperSkipped ==
    /\ pc = "remapper" /\ spent
    /\ pc' = "compositor"
    /\ UNCHANGED <<request, keyVars, rows, input, stopAfter, delivery, prefix, asked, spent,
                   late, holes>>

-----------------------------------------------------------------------------
(* The layers downstream of the remapper.                                  *)
Answers(layer) == {Row(layer, outcome) : outcome \in Outcomes}

NotBegun ==
    /\ pc = "compositor" /\ spent
    /\ GoesOn(rows, "compositor")
    /\ UNCHANGED <<request, keyVars, input, stopAfter, delivery, prefix, asked, spent, late>>

Compositor ==
    /\ pc = "compositor" /\ ~spent
    /\ \E row \in Answers("compositor") :
          IF StopsOnInterception(row) \/ downstream = "alone"
          THEN Stops(Append(rows, row))
          ELSE GoesOn(Append(rows, row), "terminal")
    /\ Asks
    /\ UNCHANGED <<request, keyVars, input, stopAfter, delivery, prefix, asked, spent>>

\* The input method is a client of the terminal, and asked in any case.
Terminal ==
    /\ pc = "terminal"
    /\ input' \in BOOLEAN
    /\ \E row \in Answers("terminal") :
          IF request.ime THEN rows' = Append(rows, row) /\ pc' = "ime" /\ UNCHANGED holes
          ELSE IF StopsOnInterception(row) THEN Stops(Append(rows, row))
          ELSE GoesOn(Append(rows, row), IF request.multiplexer THEN "session" ELSE "tty")
    /\ Asks
    /\ UNCHANGED <<request, keyVars, stopAfter, delivery, prefix, asked, spent>>

StopsAfterIme(row) == StopsOnInterception(row) \/ StopsOnInterception(Last(rows))

Ime ==
    /\ pc = "ime"
    /\ \E row \in Answers("ime") :
          IF StopsAfterIme(row) THEN Stops(Append(rows, row))
          ELSE GoesOn(Append(rows, row), IF request.multiplexer THEN "session" ELSE "tty")
    /\ Asks
    /\ UNCHANGED <<request, keyVars, input, stopAfter, delivery, prefix, asked, spent>>

\* append_tty_and_session, one step of it.  An unavailable session stops the
\* route only after both steps.
StopsHere(row) == StopsOnBlocking(row) /\ ~(row.layer = "session" /\ row.outcome = "Unavailable")

AfterBoth(halts) == IF halts THEN "return" ELSE "application"

TtyDriver ==
    /\ pc = "tty"
    /\ \E row \in Answers("tty") :
          IF StopsHere(row) THEN Stops(Append(rows, row))
          ELSE GoesOn(Append(rows, row),
                      IF request.multiplexer THEN AfterBoth(stopAfter) ELSE "session")
    /\ Asks
    /\ UNCHANGED <<request, keyVars, input, stopAfter, delivery, prefix, asked, spent>>

Session ==
    /\ pc = "session"
    /\ delivery' = [delivery EXCEPT !.multiplexer = ~Intercepted]
    /\ \E row \in Answers("session") :
          /\ stopAfter' = StopsOnBlocking(row)
          /\ IF StopsHere(row) THEN Stops(Append(rows, row))
             ELSE GoesOn(Append(rows, row),
                         IF request.multiplexer THEN "tty" ELSE AfterBoth(stopAfter'))
    /\ Asks
    /\ UNCHANGED <<request, keyVars, input, prefix, asked, spent>>

\* select_target_endpoint: without a target, an answer means a program.
Endpoint(row) ==
    IF request.target = "none" THEN IF row.outcome # "Pass" THEN "program" ELSE "shell"
    ELSE request.target

Application ==
    /\ pc = "application"
    /\ \E row \in Answers("application") :
          IF StopsOnBlocking(row) THEN Stops(Append(rows, row))
          ELSE GoesOn(Append(rows, row), IF Endpoint(row) = "shell" THEN "shell" ELSE "return")
    /\ Asks
    /\ UNCHANGED <<request, keyVars, input, stopAfter, delivery, prefix, asked, spent>>

\* Mutant: only this key's bytes have to be known.
ShellQuestionHere ==
    IF ~input THEN "unknown" ELSE IF prefix.shell # <<>> THEN "sequence" ELSE "single"

\* inspect_shell: with the earlier input, if there was any
ShellQuestion ==
    IF ~input \/ prefix.unknown THEN "unknown"
    ELSE IF prefix.shell # <<>> THEN "sequence" ELSE "single"

Shell ==
    /\ pc = "shell"
    /\ delivery' = IF Intercepted THEN delivery
                   ELSE [delivery EXCEPT !.shell = IF input THEN "bytes" ELSE "unknown"]
    /\ asked' = ShellQuestion
    /\ \E row \in Answers("shell") : GoesOn(Append(rows, row), "return")
    /\ Asks
    /\ UNCHANGED <<request, keyVars, input, stopAfter, prefix, spent>>

-----------------------------------------------------------------------------
(* The report of a key, and inspect_sequence.                              *)
\* conditional_on_remap
ConditionalOnRemap(row) ==
    [row EXCEPT !.outcome =
        CASE @ = "Pass" -> "UncertainContinues"
          [] @ \in {"HandledAndPassed", "Consumed", "Redirected"} -> "HandledUncertain"
          [] OTHER -> @]

Report ==
    (IF remapper = NoRow THEN <<>> ELSE <<remapper>>)
    \o [i \in DOMAIN rows |->
           IF downstream = "conditional" THEN ConditionalOnRemap(rows[i]) ELSE rows[i]]

\* StepDelivery::record
Recorded ==
    [multiplexer |-> IF delivery.multiplexer THEN Append(prefix.multiplexer, step)
                     ELSE prefix.multiplexer,
     shell |-> IF delivery.shell = "bytes" THEN Append(prefix.shell, step) ELSE prefix.shell,
     unknown |-> prefix.unknown \/ delivery.shell = "unknown"]

\* History for the properties: whether a key came to a layer with nobody
\* having taken it before.
RowOf(layer) == SelectInSeq(rows, LAMBDA row : row.layer = layer)

ReachedBefore(layer) ==
    RowOf(layer) # 0 /\ \A i \in 1 .. RowOf(layer) - 1 : ~Intercepts(rows[i])

\* A captured key is not part of a sequence.
InSequence == step < Steps /\ (request.force => request.target # "none")

NextKey ==
    /\ pc = "return" /\ InSequence
    /\ step' = step + 1
    /\ prefix' = Recorded
    /\ pc' = "remapper" /\ remapper' = NoRow /\ downstream' = "original"
    /\ rows' = <<>> /\ input' = FALSE /\ stopAfter' = FALSE
    /\ delivery' = NothingDelivered /\ asked' = "nothing"
    /\ holes' = IF ReachedBefore("shell") /\ ~input THEN holes \cup {step} ELSE holes
    /\ UNCHANGED <<request, spent, late>>

LastKey ==
    /\ pc = "return" /\ ~InSequence
    /\ prefix' = Recorded
    /\ pc' = "done"
    /\ UNCHANGED <<request, keyVars, rows, input, stopAfter, delivery, asked, spent, late, holes>>

ChainNext ==
    \/ Expires
    \/ RemapperAsked \/ RemapperSkipped \/ NotBegun
    \/ Compositor \/ Terminal \/ Ime \/ TtyDriver \/ Session \/ Application \/ Shell
    \/ NextKey \/ LastKey

ChainSpec == ChainInit /\ [][ChainNext]_chainVars

-----------------------------------------------------------------------------
(* Types.                                                                  *)
ChainTypeOK ==
    /\ request \in Requests /\ step \in 1 .. Steps
    /\ pc \in Layers \cup {"remapper", "return", "done"}
    /\ remapper \in [layer : {"remapper"}, outcome : RemapperOutcomes] \cup {NoRow}
    /\ rows \in Seq(Rows)
    /\ downstream \in {"original", "alone", "remapped", "conditional"}
    /\ {input, stopAfter, spent} \subseteq BOOLEAN
    /\ delivery \in [multiplexer : BOOLEAN, shell : {"nothing", "bytes", "unknown"}]
    /\ prefix.multiplexer \in BoundedSeq(1 .. Steps, Steps)
    /\ prefix.shell \in BoundedSeq(1 .. Steps, Steps) /\ prefix.unknown \in BOOLEAN
    /\ asked \in {"nothing", "single", "sequence", "unknown"}
    /\ late \in Nat /\ holes \subseteq 1 .. Steps

Returned == pc = "return"

\* Once the budget is spent at most one more adapter is asked, whatever is
\* left of the sequence; two when that is the terminal, whose input method
\* is asked with it.
BudgetEndsQueries == late <= IF request.ime THEN 2 ELSE 1

\* Unless forced, nothing is asked about a key that a layer has consumed or
\* redirected, except the input method of a terminal that consumed it.
ConsumedGoesNowhere ==
    ~request.force =>
        \A i, j \in DOMAIN rows : i < j /\ Intercepts(rows[i]) /\ rows[j] # BudgetRow =>
            rows[i].layer = "terminal" /\ rows[j].layer = "ime"

\* The multiplexer and the shell are told, with the next key, of exactly the
\* keys that reached them: no layer after the remapper had taken the key.
DeliveredIffReached ==
    Returned => /\ delivery.multiplexer = ReachedBefore("session")
                /\ (delivery.shell # "nothing") = ReachedBefore("shell")

\* The shell is asked about bytes only if they are the whole of what reached
\* it: no earlier key came to it with unknown bytes, or was cut short.
SequenceHasNoHole == asked \in {"single", "sequence"} => holes \subseteq {step}

\* layers/inspection.rs, StepDelivery: a layer counts as reached only when
\* no earlier layer consumed or redirected the key.
ReachedOnlyUntouched ==
    Returned /\ (delivery.multiplexer \/ delivery.shell # "nothing")
        => remapper.outcome # "Consumed"

=============================================================================
