----------------------------- MODULE DesktopProofs -----------------------------
(***************************************************************************)
(* What holds of the inspections of the desktop for any size of what is    *)
(* inspected: who is asked of a key sequence and what the stateful layers  *)
(* are told, and that what is said of a compositor, the input methods, the *)
(* desktop environment and the bindings is right.                          *)
(***************************************************************************)
EXTENDS MCDesktop, FiniteSetTheorems, SequenceTheorems, TLAPS

\* The place of a first row is the least of a set of places.
LEMMA LeastNatural ==
    ASSUME NEW I \in SUBSET Nat, I # {}
    PROVE  \E x \in I : \A y \in I : x <= y
<1> DEFINE T == {0 .. n : n \in I}
<1>1. T \subseteq FiniteSubsetsOf(Nat) /\ T # {}
  <2>1. \A n \in I : 0 .. n \in SUBSET Nat /\ IsFiniteSet(0 .. n)
    BY FS_Interval
  <2> QED BY <2>1 DEF FiniteSubsetsOf
<1>2. PICK X \in T : \A Y \in T : ~ (<<Y, X>> \in StrictSubsetOrdering(Nat))
  BY <1>1, FS_StrictSubsetOrderingWellFounded, WFMin
<1>3. PICK x \in I : X = 0 .. x
  BY <1>2
<1>4. ASSUME NEW y \in I PROVE x <= y
  <2>1. ~ (<<0 .. y, 0 .. x>> \in StrictSubsetOrdering(Nat))
    BY <1>2, <1>3
  <2>2. ~ (0 .. y \subseteq 0 .. x /\ 0 .. y # 0 .. x)
    BY <2>1 DEF StrictSubsetOrdering
  <2>3. ASSUME y < x PROVE FALSE
    <3>1. 0 .. y \subseteq 0 .. x
      BY <2>3
    <3>2. x \in 0 .. x /\ x \notin 0 .. y
      BY <2>3
    <3> QED BY <2>2, <3>1, <3>2
  <2> QED BY <2>3
<1> QED BY <1>4

-----------------------------------------------------------------------------
(* The inspection chain.                                                   *)
\* The rows of a report.
RowRecords == [layer : Layers \cup {"budget"}, outcome : AllOutcomes]

\* No row took the key; a row of the layer has none before it that took the key.
Untaken(trail) == \A i \in DOMAIN trail : ~Intercepts(trail[i])
Reaches(trail, layer) ==
    \E k \in DOMAIN trail : trail[k].layer = layer /\ \A i \in 1 .. k - 1 : ~Intercepts(trail[i])

\* A key that was taken goes to the input method of the terminal that took it, if to anybody.
TakenEnds(trail) ==
    \A i, j \in DOMAIN trail : i < j /\ Intercepts(trail[i]) /\ trail[j] # BudgetRow =>
        trail[i].layer = "terminal" /\ trail[j].layer = "ime"

ChainTypes ==
    /\ request \in Requests
    /\ rows \in Seq(RowRecords)
    /\ pc \in Layers \cup {"remapper", "return", "done"}
    /\ delivery \in [multiplexer : BOOLEAN, shell : {"nothing", "bytes", "unknown"}]
    /\ late \in Nat /\ spent \in BOOLEAN /\ input \in BOOLEAN /\ stopAfter \in BOOLEAN
    /\ prefix.unknown \in BOOLEAN

\* The layers that were not asked yet have no rows.
NotYetAsked ==
    /\ pc \in {"remapper", "compositor"} => rows = <<>>
    /\ pc \notin {"return", "done"} => \A i \in DOMAIN rows : rows[i].layer # "shell"
    /\ pc \in {"terminal", "ime", "session"} \/ (pc = "tty" /\ ~request.multiplexer) =>
           \A i \in DOMAIN rows : rows[i].layer # "session"

\* The layers that are asked whether or not the budget is spent come one at a time.
InBudget ==
    /\ ~spent => late = 0
    /\ pc \in {"terminal", "tty", "session", "application", "shell"} => late = 0
    /\ pc = "ime" => request.ime /\ late <= 1
    /\ BudgetEndsQueries

\* A route that goes on was not taken, but by a terminal with an input method.
GoesOnUntaken ==
    ~request.force =>
        /\ pc \in Layers \ {"ime"} => Untaken(rows)
        /\ pc = "ime" => \A i \in DOMAIN rows : Intercepts(rows[i]) => i = Len(rows)
        /\ TakenEnds(rows)

\* A terminal with an input method was asked just before it.
ImeFollowsTerminal == pc = "ime" => rows # <<>> /\ rows[Len(rows)].layer = "terminal"

\* What the stateful layers will be told.
ToldIfReached ==
    /\ delivery.multiplexer <=> Reaches(rows, "session")
    /\ delivery.shell # "nothing" <=> Reaches(rows, "shell")
    /\ delivery.shell = "bytes" => input

\* A key is missing from the sequence only after the budget, or if the shell knows of it.
HolesAreKnown ==
    /\ ~prefix.unknown /\ (~spent \/ pc \in Layers \ {"compositor"}) => holes = {}
    /\ SequenceHasNoHole

ChainIInv ==
    /\ ChainTypes /\ NotYetAsked /\ InBudget /\ GoesOnUntaken /\ ImeFollowsTerminal
    /\ ToldIfReached /\ HolesAreKnown

LEMMA ReachedIsReaches ==
    ASSUME rows \in Seq(RowRecords), NEW layer
    PROVE  ReachedBefore(layer) <=> Reaches(rows, layer)
<1> DEFINE I == {i \in 1 .. Len(rows) : rows[i].layer = layer}
<1>1. RowOf(layer) = IF I # {} THEN Min(I) ELSE 0
  BY DEF RowOf, SelectInSeq
<1>2. Len(rows) \in Nat /\ DOMAIN rows = 1 .. Len(rows) /\ I \in SUBSET Nat /\ I \subseteq 1 .. Len(rows)
  OBVIOUS
<1>3. CASE I = {}
  BY <1>1, <1>2, <1>3 DEF ReachedBefore, Reaches
<1>4. CASE I # {}
  <2>1. Min(I) \in I /\ \A y \in I : Min(I) <= y
    <3> HIDE DEF I
    <3>1. \E x \in I : \A y \in I : x <= y
      BY <1>2, <1>4, LeastNatural
    <3> QED BY <3>1 DEF Min
  <2> DEFINE f == RowOf(layer)
  <2>2. f \in 1 .. Len(rows) /\ rows[f].layer = layer /\ f # 0
    BY <1>1, <1>4, <2>1
  <2>3. \A k \in 1 .. Len(rows) : rows[k].layer = layer => f <= k
    BY <1>1, <1>4, <2>1
  <2> HIDE DEF f, I
  <2>4. ReachedBefore(layer) <=> \A i \in 1 .. f - 1 : ~Intercepts(rows[i])
    BY <2>2 DEF ReachedBefore, f
  <2>5. ASSUME Reaches(rows, layer) PROVE \A i \in 1 .. f - 1 : ~Intercepts(rows[i])
    <3>1. PICK k \in 1 .. Len(rows) : rows[k].layer = layer /\ \A i \in 1 .. k - 1 : ~Intercepts(rows[i])
      BY <1>2, <2>5 DEF Reaches
    <3>2. f <= k
      BY <2>3, <3>1
    <3> QED BY <1>2, <2>2, <3>1, <3>2
  <2>6. ASSUME \A i \in 1 .. f - 1 : ~Intercepts(rows[i]) PROVE Reaches(rows, layer)
    BY <1>2, <2>2, <2>6 DEF Reaches
  <2> QED BY <2>4, <2>5, <2>6
<1> QED BY <1>3, <1>4

LEMMA OneRowMore ==
    ASSUME NEW trail \in Seq(RowRecords), NEW row \in RowRecords
    PROVE  /\ Append(trail, row) \in Seq(RowRecords)
           /\ \A layer : Reaches(Append(trail, row), layer) <=>
                  Reaches(trail, layer) \/ (row.layer = layer /\ Untaken(trail))
           /\ Untaken(Append(trail, row)) <=> Untaken(trail) /\ ~Intercepts(row)
           /\ Untaken(trail) => TakenEnds(Append(trail, row))
           /\ TakenEnds(trail) => TakenEnds(Append(trail, BudgetRow))
<1> DEFINE more == Append(trail, row)
           n == Len(trail)
<1>1. n \in Nat /\ more \in Seq(RowRecords) /\ DOMAIN trail = 1 .. n /\ DOMAIN more = 1 .. n + 1
      /\ more[n + 1] = row /\ \A i \in 1 .. n : more[i] = trail[i]
  OBVIOUS
<1> HIDE DEF more, n
<1>2. ASSUME NEW layer
      PROVE  Reaches(more, layer) <=> Reaches(trail, layer) \/ (row.layer = layer /\ Untaken(trail))
  <2>1. ASSUME Reaches(trail, layer) PROVE Reaches(more, layer)
    <3>1. PICK k \in 1 .. n : trail[k].layer = layer /\ \A i \in 1 .. k - 1 : ~Intercepts(trail[i])
      BY <1>1, <2>1 DEF Reaches
    <3>2. k \in 1 .. n + 1 /\ more[k].layer = layer /\ \A i \in 1 .. k - 1 : more[i] = trail[i]
      BY <1>1, <3>1
    <3> QED BY <1>1, <3>1, <3>2 DEF Reaches
  <2>2. ASSUME row.layer = layer, Untaken(trail) PROVE Reaches(more, layer)
    <3>1. n + 1 \in DOMAIN more /\ more[n + 1].layer = layer
      BY <1>1, <2>2
    <3>2. \A i \in 1 .. (n + 1) - 1 : ~Intercepts(more[i])
      BY <1>1, <2>2 DEF Untaken
    <3> QED BY <3>1, <3>2 DEF Reaches
  <2>3. ASSUME Reaches(more, layer) PROVE Reaches(trail, layer) \/ (row.layer = layer /\ Untaken(trail))
    <3>1. PICK k \in 1 .. n + 1 : more[k].layer = layer /\ \A i \in 1 .. k - 1 : ~Intercepts(more[i])
      BY <1>1, <2>3 DEF Reaches
    <3>2. CASE k = n + 1
      BY <1>1, <3>1, <3>2 DEF Untaken
    <3>3. CASE k \in 1 .. n
      <4>1. \A i \in 1 .. k - 1 : ~Intercepts(trail[i])
        BY <1>1, <3>1, <3>3
      <4> QED BY <1>1, <3>1, <3>3, <4>1 DEF Reaches
    <3> QED BY <1>1, <3>2, <3>3
  <2> QED BY <2>1, <2>2, <2>3
<1>3. Untaken(more) <=> Untaken(trail) /\ ~Intercepts(row)
  <2>1. Untaken(more) => Untaken(trail) /\ ~Intercepts(row)
    <3> SUFFICES ASSUME Untaken(more) PROVE Untaken(trail) /\ ~Intercepts(row)
      OBVIOUS
    <3>1. n + 1 \in 1 .. n + 1 /\ \A i \in 1 .. n : i \in 1 .. n + 1
      BY <1>1
    <3> QED BY <1>1, <3>1 DEF Untaken
  <2>2. Untaken(trail) /\ ~Intercepts(row) => Untaken(more)
    BY <1>1 DEF Untaken
  <2> QED BY <2>1, <2>2
<1>4. Untaken(trail) => TakenEnds(more)
  <2> SUFFICES ASSUME Untaken(trail), NEW i \in 1 .. n + 1, NEW j \in 1 .. n + 1, i < j PROVE ~Intercepts(more[i])
    BY <1>1 DEF TakenEnds
  <2>1. i \in 1 .. n
    BY <1>1
  <2> QED BY <1>1, <2>1 DEF Untaken
<1>5. TakenEnds(trail) => TakenEnds(Append(trail, BudgetRow))
  <2> DEFINE last == Append(trail, BudgetRow)
  <2>1. DOMAIN last = 1 .. n + 1 /\ last[n + 1] = BudgetRow /\ \A i \in 1 .. n : last[i] = trail[i]
    BY DEF n
  <2> HIDE DEF last
  <2> SUFFICES ASSUME TakenEnds(trail), NEW i \in 1 .. n + 1, NEW j \in 1 .. n + 1, i < j,
                      Intercepts(last[i]), last[j] # BudgetRow
               PROVE  last[i].layer = "terminal" /\ last[j].layer = "ime"
    BY <1>1, <2>1 DEF TakenEnds, last
  <2>2. i \in 1 .. n /\ j \in 1 .. n
    BY <1>1, <2>1
  <2> QED BY <1>1, <2>1, <2>2 DEF TakenEnds
<1> QED BY <1>1, <1>2, <1>3, <1>4, <1>5 DEF more

\* What an answer changes: one row more, and perhaps that of the budget.
LEMMA AnswerIsAppended ==
    ASSUME ChainTypes, NEW row \in RowRecords, NEW n,
           GoesOn(Append(rows, row), n) \/ Stops(Append(rows, row))
    PROVE  /\ rows' \in Seq(RowRecords)
           /\ \A layer \in Layers : Reaches(rows', layer) <=>
                  Reaches(rows, layer) \/ (row.layer = layer /\ Untaken(rows))
           /\ Untaken(rows) => TakenEnds(rows')
           /\ \/ pc' = "return"
              \/ pc' = n /\ ~spent /\ rows' = Append(rows, row)
           /\ ~spent => holes' = holes
           /\ holes' = holes \/ holes' = holes \cup {step}
<1>1. BudgetRow \in RowRecords /\ ~Intercepts(BudgetRow) /\ \A layer \in Layers : BudgetRow.layer # layer
  BY DEF BudgetRow, Row, RowRecords, AllOutcomes, Intercepts, Layers
<1>2. rows \in Seq(RowRecords)
  BY DEF ChainTypes
<1> DEFINE once == Append(rows, row)
<1>3. /\ once \in Seq(RowRecords)
      /\ \A layer : Reaches(once, layer) <=> Reaches(rows, layer) \/ (row.layer = layer /\ Untaken(rows))
      /\ Untaken(once) <=> Untaken(rows) /\ ~Intercepts(row)
      /\ Untaken(rows) => TakenEnds(once)
  BY <1>2, OneRowMore
<1> HIDE DEF once
<1> DEFINE twice == Append(once, BudgetRow)
<1>4. /\ twice \in Seq(RowRecords)
      /\ \A layer : Reaches(twice, layer) <=> Reaches(once, layer) \/ (BudgetRow.layer = layer /\ Untaken(once))
      /\ TakenEnds(once) => TakenEnds(twice)
  BY <1>1, <1>3, OneRowMore
<1> HIDE DEF twice
<1>5. \/ rows' = once /\ pc' = n /\ ~spent /\ holes' = holes
      \/ rows' = once /\ pc' = "return" /\ holes' = holes
      \/ rows' = twice /\ pc' = "return" /\ spent /\ holes' = holes \cup {step}
  BY DEF GoesOn, Stops, once, twice
<1> QED BY <1>1, <1>3, <1>4, <1>5 DEF once

\* A layer that is asked answers with a row, and the route goes on or stops.
LayerAnswers(layer, next) ==
    \E outcome \in Outcomes :
        \/ Stops(Append(rows, Row(layer, outcome)))
        \/ /\ GoesOn(Append(rows, Row(layer, outcome)), next)
           /\ next # "return" /\ ~request.force => ~Intercepts(Row(layer, outcome))

\* Which layer comes next, and what its answer must leave alone.
LEMMA AnswerKeeps ==
    ASSUME ChainIInv, NEW layer \in Layers \ {"ime"}, NEW next \in (Layers \ {"ime", "compositor"}) \cup {"return"},
           pc = layer, layer = "compositor" => ~spent,
           layer = "shell" => next = "return",
           next = "session" => layer = "terminal" \/ (layer = "tty" /\ ~request.multiplexer),
           next = "tty" /\ ~request.multiplexer => layer = "terminal",
           next = "terminal" => layer = "compositor",
           LayerAnswers(layer, next), Asks, UNCHANGED <<request, step, prefix, spent>>,
           stopAfter' \in BOOLEAN, input' \in BOOLEAN
    PROVE  /\ rows' \in Seq(RowRecords) /\ pc' \in {next, "return"} /\ late' \in Nat
           /\ NotYetAsked' /\ InBudget' /\ GoesOnUntaken' /\ ImeFollowsTerminal'
           /\ \A l \in Layers : Reaches(rows', l) <=> Reaches(rows, l) \/ (layer = l /\ Untaken(rows))
           /\ ~prefix.unknown /\ (~spent \/ pc' \in Layers \ {"compositor"}) => holes' = {}
           /\ ~prefix.unknown /\ layer = "shell" => holes' \subseteq {step}
           /\ holes' \subseteq holes \cup {step}
<1>1. PICK outcome \in Outcomes :
          \/ Stops(Append(rows, Row(layer, outcome)))
          \/ /\ GoesOn(Append(rows, Row(layer, outcome)), next)
             /\ next # "return" /\ ~request.force => ~Intercepts(Row(layer, outcome))
  BY DEF LayerAnswers
<1> DEFINE row == Row(layer, outcome)
<1>2. row \in RowRecords /\ row.layer = layer
  BY ChainAssumption DEF ChainAssumption, Row, RowRecords
<1> HIDE DEF row
<1>3. /\ rows' \in Seq(RowRecords)
      /\ \A l \in Layers : Reaches(rows', l) <=> Reaches(rows, l) \/ (layer = l /\ Untaken(rows))
      /\ Untaken(rows) => TakenEnds(rows')
      /\ pc' = "return" \/ (pc' = next /\ ~spent /\ rows' = Append(rows, row))
      /\ ~spent => holes' = holes
      /\ holes' = holes \/ holes' = holes \cup {step}
  BY <1>1, <1>2, AnswerIsAppended DEF ChainIInv, row
<1>4. InBudget' /\ late' \in Nat
  <2>1. late = 0 /\ late \in Nat /\ BOOLEAN = {TRUE, FALSE}
    BY DEF ChainIInv, InBudget, ChainTypes, Layers
  <2>2. late' = IF spent THEN 1 ELSE 0
    BY <2>1 DEF Asks
  <2>3. pc' # "ime" /\ (pc' # "return" => ~spent)
    BY <1>3
  <2> QED BY <2>2, <2>3 DEF InBudget, BudgetEndsQueries
<1>5. rows \in Seq(RowRecords)
  BY DEF ChainIInv, ChainTypes
<1>6. NotYetAsked'
  <2>1. CASE pc' = "return"
    BY <2>1 DEF NotYetAsked
  <2>2. CASE pc' = next /\ rows' = Append(rows, row) /\ next # "return"
    <3>1. \A i \in DOMAIN rows' : rows'[i] = row \/ (i \in DOMAIN rows /\ rows'[i] = rows[i])
      BY <1>2, <1>5, <2>2
    <3>2. \A i \in DOMAIN rows' : rows'[i].layer # "shell"
      BY <1>2, <2>2, <3>1 DEF ChainIInv, NotYetAsked, Layers
    <3>3. next \in {"terminal", "ime", "session"} \/ (next = "tty" /\ ~request.multiplexer) =>
              \A i \in DOMAIN rows' : rows'[i].layer # "session"
      <4> SUFFICES ASSUME next \in {"terminal", "session"} \/ (next = "tty" /\ ~request.multiplexer)
                   PROVE  \A i \in DOMAIN rows' : rows'[i].layer # "session"
        OBVIOUS
      <4>1. layer # "session"
        OBVIOUS
      <4>2. CASE layer = "compositor"
        <5>1. rows = <<>>
          BY <4>2 DEF ChainIInv, NotYetAsked
        <5> QED BY <1>2, <3>1, <4>1, <5>1
      <4>3. CASE layer # "compositor"
        <5>1. \A i \in DOMAIN rows : rows[i].layer # "session"
          BY <4>3 DEF ChainIInv, NotYetAsked
        <5> QED BY <1>2, <3>1, <4>1, <5>1
      <4> QED BY <4>2, <4>3
    <3> QED BY <2>2, <3>2, <3>3 DEF NotYetAsked, Layers
  <2> QED BY <1>3, <2>1, <2>2
<1>7. GoesOnUntaken'
  <2> SUFFICES ASSUME ~request.force
               PROVE  /\ pc' \in Layers \ {"ime"} => Untaken(rows')
                      /\ pc' = "ime" => \A i \in DOMAIN rows' : Intercepts(rows'[i]) => i = Len(rows')
                      /\ TakenEnds(rows')
    BY DEF GoesOnUntaken
  <2>1. Untaken(rows)
    BY DEF ChainIInv, GoesOnUntaken
  <2>2. TakenEnds(rows')
    BY <1>3, <2>1
  <2>3. CASE pc' = "return"
    BY <2>2, <2>3 DEF Layers
  <2>4. CASE pc' # "return"
    <3>1. pc' = next /\ pc' # "ime" /\ rows' = Append(rows, row) /\ ~Intercepts(row)
      BY <1>1, <1>3, <2>4 DEF Stops, row
    <3>2. Untaken(Append(rows, row))
      BY <1>2, <1>5, <2>1, <3>1, OneRowMore
    <3> QED BY <2>2, <3>1, <3>2
  <2> QED BY <2>3, <2>4
<1>8. ImeFollowsTerminal'
  BY <1>3 DEF ImeFollowsTerminal
<1>9. /\ ~prefix.unknown /\ (~spent \/ pc' \in Layers \ {"compositor"}) => holes' = {}
      /\ ~prefix.unknown /\ layer = "shell" => holes' \subseteq {step}
  <2> SUFFICES ASSUME ~prefix.unknown
               PROVE  /\ ~spent \/ pc' \in Layers \ {"compositor"} => holes' = {}
                      /\ layer = "shell" => holes' \subseteq {step}
    OBVIOUS
  <2>1. holes = {}
    BY DEF ChainIInv, HolesAreKnown
  <2>2. pc' \in Layers => ~spent
    BY <1>3 DEF Layers
  <2> QED BY <1>3, <2>1, <2>2
<1> QED BY <1>3, <1>4, <1>6, <1>7, <1>8, <1>9

\* The key has reached nobody yet that is told of it.
LEMMA NothingToldYet ==
    ASSUME ChainIInv
    PROVE  /\ pc \notin {"return", "done"} => delivery.shell = "nothing" /\ ~Reaches(rows, "shell")
           /\ pc = "session" => ~Reaches(rows, "session")
BY DEF ChainIInv, NotYetAsked, ToldIfReached, Reaches

LEMMA InterceptedIsTaken == Intercepted <=> ~Untaken(rows)
BY DEF Intercepted, Untaken

\* The layers that only answer.
LEMMA AnsweringKeeps ==
    ASSUME ChainIInv,
           Compositor \/ (Terminal /\ ~request.ime) \/ TtyDriver \/ Application
    PROVE  ChainIInv'
<1>1. PICK layer \in {"compositor", "terminal", "tty", "application"},
           next \in {"terminal", "tty", "session", "application", "shell", "return"} :
          /\ pc = layer /\ (layer = "compositor" => ~spent)
          /\ next = "session" => layer = "terminal" \/ (layer = "tty" /\ ~request.multiplexer)
          /\ next = "tty" /\ ~request.multiplexer => layer = "terminal"
          /\ next = "terminal" => layer = "compositor"
          /\ LayerAnswers(layer, next) /\ Asks
          /\ UNCHANGED <<request, step, prefix, spent, delivery, asked, stopAfter>>
          /\ input' \in BOOLEAN /\ (layer # "terminal" => input' = input)
  <2>0. input \in BOOLEAN
    BY DEF ChainIInv, ChainTypes
  <2>1. CASE Compositor
    <3>1. LayerAnswers("compositor", "terminal")
      BY <2>1 DEF Compositor, LayerAnswers, Answers, StopsOnInterception
    <3> QED BY <2>0, <2>1, <3>1 DEF Compositor, keyVars
  <2>2. CASE Terminal /\ ~request.ime
    <3> DEFINE n == IF request.multiplexer THEN "session" ELSE "tty"
    <3>1. LayerAnswers("terminal", n)
      BY <2>2 DEF Terminal, LayerAnswers, Answers, StopsOnInterception
    <3> QED BY <2>0, <2>2, <3>1 DEF Terminal, keyVars
  <2>3. CASE TtyDriver
    <3> DEFINE n == IF request.multiplexer THEN AfterBoth(stopAfter) ELSE "session"
    <3>1. LayerAnswers("tty", n)
      BY <2>3 DEF TtyDriver, LayerAnswers, Answers, StopsHere, StopsOnBlocking, BlocksChain, Row
    <3>2. n \in {"session", "application", "return"} /\ (n = "session" => ~request.multiplexer)
      BY DEF AfterBoth
    <3> HIDE DEF n
    <3> QED BY <2>0, <2>3, <3>1, <3>2 DEF TtyDriver, keyVars
  <2>4. CASE Application
    <3>1. PICK n \in {"shell", "return"} : LayerAnswers("application", n)
      <4>1. PICK row \in Answers("application") :
               IF StopsOnBlocking(row) THEN Stops(Append(rows, row))
               ELSE GoesOn(Append(rows, row), IF Endpoint(row) = "shell" THEN "shell" ELSE "return")
        BY <2>4 DEF Application
      <4>2. ~request.force /\ Intercepts(row) => StopsOnBlocking(row)
        BY DEF StopsOnBlocking, BlocksChain
      <4>3. PICK outcome \in Outcomes : row = Row("application", outcome)
        BY DEF Answers
      <4> DEFINE n == IF Endpoint(row) = "shell" THEN "shell" ELSE "return"
      <4>4. LayerAnswers("application", n)
        BY <4>1, <4>2, <4>3 DEF LayerAnswers
      <4>5. n \in {"shell", "return"}
        OBVIOUS
      <4> QED BY <4>4, <4>5
    <3> QED BY <2>0, <2>4, <3>1 DEF Application, keyVars
  <2> QED BY <2>1, <2>2, <2>3, <2>4
<1>2. layer \in Layers \ {"ime"} /\ next \in (Layers \ {"ime", "compositor"}) \cup {"return"} /\ layer # "shell"
      /\ layer # "session"
  BY DEF Layers
<1>3. stopAfter' \in BOOLEAN
  BY <1>1 DEF ChainIInv, ChainTypes
<1>4. /\ rows' \in Seq(RowRecords) /\ pc' \in {next, "return"} /\ late' \in Nat
      /\ NotYetAsked' /\ InBudget' /\ GoesOnUntaken' /\ ImeFollowsTerminal'
      /\ \A l \in Layers : Reaches(rows', l) <=> Reaches(rows, l) \/ (layer = l /\ Untaken(rows))
      /\ ~prefix.unknown /\ (~spent \/ pc' \in Layers \ {"compositor"}) => holes' = {}
      /\ holes' \subseteq holes \cup {step}
  BY <1>1, <1>2, <1>3, AnswerKeeps
<1>5. ToldIfReached'
  <2>1. delivery' = delivery /\ delivery.shell = "nothing"
    BY <1>1, <1>2, NothingToldYet
  <2>2. Reaches(rows', "session") <=> Reaches(rows, "session")
    BY <1>2, <1>4 DEF Layers
  <2>3. Reaches(rows', "shell") <=> Reaches(rows, "shell")
    BY <1>2, <1>4 DEF Layers
  <2> QED BY <2>1, <2>2, <2>3 DEF ToldIfReached, ChainIInv
<1>6. HolesAreKnown'
  BY <1>1, <1>4 DEF HolesAreKnown, SequenceHasNoHole, ChainIInv
<1>7. ChainTypes'
  BY <1>1, <1>2, <1>3, <1>4 DEF ChainTypes, ChainIInv
<1> QED BY <1>4, <1>5, <1>6, <1>7 DEF ChainIInv

\* The multiplexer is told of the key if nobody took it.
LEMMA SessionKeeps == ASSUME ChainIInv, Session PROVE ChainIInv'
<1> DEFINE next == IF request.multiplexer THEN "tty" ELSE AfterBoth(stopAfter')
<1>1. /\ pc = "session" /\ LayerAnswers("session", next) /\ Asks
      /\ UNCHANGED <<request, step, prefix, spent, asked, input>>
      /\ delivery' = [delivery EXCEPT !.multiplexer = ~Intercepted]
      /\ stopAfter' \in BOOLEAN
  <2>1. PICK outcome \in Outcomes :
          LET row == Row("session", outcome) IN
          /\ stopAfter' = StopsOnBlocking(row)
          /\ IF StopsHere(row) THEN Stops(Append(rows, row)) ELSE GoesOn(Append(rows, row), next)
    BY DEF Session, Answers
  <2> DEFINE row == Row("session", outcome)
  <2>2. ~request.force /\ Intercepts(row) => StopsHere(row)
    BY DEF StopsHere, StopsOnBlocking, BlocksChain, Intercepts, Row
  <2>3. stopAfter' \in BOOLEAN
    BY <2>1 DEF StopsOnBlocking
  <2> HIDE DEF next
  <2>4. LayerAnswers("session", next)
    BY <2>1, <2>2 DEF LayerAnswers
  <2> QED BY <2>3, <2>4 DEF Session, keyVars
<1>2. next \in {"tty", "application", "return"} /\ (next = "tty" => request.multiplexer)
  BY DEF AfterBoth
<1> HIDE DEF next
<1>3. input' \in BOOLEAN /\ next \in (Layers \ {"ime", "compositor"}) \cup {"return"} /\ "session" \in Layers \ {"ime"}
  BY <1>1, <1>2 DEF Layers, ChainIInv, ChainTypes
<1>4. /\ rows' \in Seq(RowRecords) /\ pc' \in {next, "return"} /\ late' \in Nat
      /\ NotYetAsked' /\ InBudget' /\ GoesOnUntaken' /\ ImeFollowsTerminal'
      /\ \A l \in Layers : Reaches(rows', l) <=> Reaches(rows, l) \/ ("session" = l /\ Untaken(rows))
      /\ ~prefix.unknown /\ (~spent \/ pc' \in Layers \ {"compositor"}) => holes' = {}
      /\ holes' \subseteq holes \cup {step}
  BY <1>1, <1>2, <1>3, AnswerKeeps
<1>5. delivery \in [multiplexer : BOOLEAN, shell : {"nothing", "bytes", "unknown"}]
  BY DEF ChainIInv, ChainTypes
<1>6. /\ delivery' \in [multiplexer : BOOLEAN, shell : {"nothing", "bytes", "unknown"}]
      /\ delivery'.shell = delivery.shell /\ (delivery'.multiplexer <=> Untaken(rows))
  BY <1>1, <1>5, InterceptedIsTaken
<1>7. ToldIfReached'
  <2>1. delivery.shell = "nothing" /\ ~Reaches(rows, "shell") /\ ~Reaches(rows, "session")
    BY <1>1, NothingToldYet
  <2>2. Reaches(rows', "session") <=> Untaken(rows)
    BY <1>4, <2>1 DEF Layers
  <2>3. ~Reaches(rows', "shell")
    BY <1>4, <2>1 DEF Layers
  <2> QED BY <1>6, <2>1, <2>2, <2>3 DEF ToldIfReached
<1>8. HolesAreKnown'
  BY <1>1, <1>4 DEF HolesAreKnown, SequenceHasNoHole, ChainIInv
<1>9. ChainTypes'
  BY <1>1, <1>2, <1>3, <1>4, <1>6 DEF ChainTypes, ChainIInv
<1> QED BY <1>4, <1>7, <1>8, <1>9 DEF ChainIInv

\* The shell is told of the key if nobody took it, and asked about bytes if it had them all.
LEMMA ShellKeeps == ASSUME ChainIInv, Shell PROVE ChainIInv'
<1>1. /\ pc = "shell" /\ LayerAnswers("shell", "return") /\ Asks
      /\ UNCHANGED <<request, step, prefix, spent, stopAfter, input>>
      /\ delivery' = IF Intercepted THEN delivery
                     ELSE [delivery EXCEPT !.shell = IF input THEN "bytes" ELSE "unknown"]
      /\ asked' = ShellQuestion
  <2>1. PICK outcome \in Outcomes : GoesOn(Append(rows, Row("shell", outcome)), "return")
    BY DEF Shell, Answers
  <2>2. LayerAnswers("shell", "return")
    BY <2>1 DEF LayerAnswers
  <2> QED BY <2>2 DEF Shell, keyVars
<1>2. input \in BOOLEAN /\ stopAfter \in BOOLEAN /\ "shell" \in Layers
      /\ delivery \in [multiplexer : BOOLEAN, shell : {"nothing", "bytes", "unknown"}]
  BY DEF ChainIInv, ChainTypes, Layers
<1>3. /\ rows' \in Seq(RowRecords) /\ pc' = "return" /\ late' \in Nat
      /\ NotYetAsked' /\ InBudget' /\ GoesOnUntaken' /\ ImeFollowsTerminal'
      /\ \A l \in Layers : Reaches(rows', l) <=> Reaches(rows, l) \/ ("shell" = l /\ Untaken(rows))
      /\ ~prefix.unknown /\ ~spent => holes' = {}
      /\ ~prefix.unknown => holes' \subseteq {step}
  BY <1>1, <1>2, AnswerKeeps
<1>4. delivery.shell = "nothing" /\ ~Reaches(rows, "shell")
  BY <1>1, NothingToldYet
<1>5. /\ delivery' \in [multiplexer : BOOLEAN, shell : {"nothing", "bytes", "unknown"}]
      /\ delivery'.multiplexer = delivery.multiplexer
      /\ delivery'.shell # "nothing" <=> Untaken(rows)
      /\ delivery'.shell = "bytes" => input
  <2>1. CASE Intercepted
    <3>1. delivery' = delivery
      BY <1>1, <2>1
    <3> QED BY <1>2, <1>4, <2>1, <3>1, InterceptedIsTaken
  <2>2. CASE ~Intercepted
    <3>1. delivery' = [delivery EXCEPT !.shell = IF input THEN "bytes" ELSE "unknown"]
      BY <1>1, <2>2
    <3>2. delivery'.multiplexer = delivery.multiplexer
          /\ delivery'.shell = (IF input THEN "bytes" ELSE "unknown")
          /\ delivery' \in [multiplexer : BOOLEAN, shell : {"nothing", "bytes", "unknown"}]
      BY <1>2, <3>1
    <3>3. Untaken(rows)
      BY <2>2, InterceptedIsTaken
    <3> QED BY <3>2, <3>3
  <2> QED BY <2>1, <2>2
<1>6. ToldIfReached'
  <2>1. Reaches(rows', "session") <=> Reaches(rows, "session")
    BY <1>3 DEF Layers
  <2>2. Reaches(rows', "shell") <=> Untaken(rows)
    BY <1>2, <1>3, <1>4
  <2>3. input' = input
    BY <1>1
  <2> QED BY <1>5, <2>1, <2>2, <2>3 DEF ToldIfReached, ChainIInv
<1>7. HolesAreKnown'
  <2>1. asked' \in {"single", "sequence"} => ~prefix.unknown
    BY <1>1 DEF ShellQuestion
  <2>2. prefix' = prefix /\ spent' = spent /\ step' = step
    BY <1>1
  <2>3. "return" \notin Layers \ {"compositor"}
    BY DEF Layers
  <2> QED BY <1>3, <2>1, <2>2, <2>3 DEF HolesAreKnown, SequenceHasNoHole
<1>8. ChainTypes'
  BY <1>1, <1>2, <1>3, <1>5 DEF ChainTypes, ChainIInv
<1> QED BY <1>3, <1>6, <1>7, <1>8 DEF ChainIInv

\* The terminal of an input method: what it took still goes to the method.
LEMMA TerminalKeeps == ASSUME ChainIInv, Terminal, request.ime PROVE ChainIInv'
<1>1. PICK row \in Answers("terminal") : rows' = Append(rows, row) /\ pc' = "ime" /\ UNCHANGED holes
  BY DEF Terminal
<1>2. row \in RowRecords /\ row.layer = "terminal"
  BY ChainAssumption DEF ChainAssumption, Answers, Row, RowRecords, Layers
<1>3. /\ pc = "terminal" /\ Asks /\ input' \in BOOLEAN
      /\ UNCHANGED <<request, step, stopAfter, delivery, prefix, asked, spent>>
  BY DEF Terminal, keyVars
<1>4. rows \in Seq(RowRecords)
  BY DEF ChainIInv, ChainTypes
<1>5. /\ rows' \in Seq(RowRecords)
      /\ \A layer : Reaches(rows', layer) <=> Reaches(rows, layer) \/ (row.layer = layer /\ Untaken(rows))
      /\ Untaken(rows) => TakenEnds(rows')
  BY <1>1, <1>2, <1>4, OneRowMore
<1>6. PICK n \in Nat : n = Len(rows)
  BY <1>4
<1>7. /\ Len(rows') = n + 1 /\ rows' # <<>> /\ DOMAIN rows = 1 .. n /\ DOMAIN rows' = 1 .. n + 1
      /\ rows'[n + 1] = row /\ \A i \in 1 .. n : rows'[i] = rows[i]
  BY <1>1, <1>4, <1>6
<1>8. ChainTypes'
  <2>1. late' \in Nat
    BY <1>3 DEF Asks, ChainIInv, ChainTypes
  <2> QED BY <1>1, <1>3, <1>5, <2>1 DEF ChainTypes, ChainIInv, Layers
<1>9. NotYetAsked'
  <2>1. \A i \in 1 .. n : rows[i].layer # "shell" /\ rows[i].layer # "session"
    BY <1>3, <1>7 DEF ChainIInv, NotYetAsked
  <2>2. \A i \in 1 .. n + 1 : rows'[i].layer # "shell" /\ rows'[i].layer # "session"
    BY <1>2, <1>6, <1>7, <2>1
  <2> QED BY <1>1, <1>7, <2>2 DEF NotYetAsked
<1>10. InBudget'
  <2>1. late = 0 /\ request' = request /\ spent' = spent
    BY <1>3 DEF ChainIInv, InBudget
  <2>2. late' = IF spent THEN 1 ELSE 0
    BY <1>3, <2>1 DEF Asks
  <2> QED BY <1>1, <2>1, <2>2 DEF InBudget, BudgetEndsQueries
<1>11. GoesOnUntaken'
  <2> SUFFICES ASSUME ~request.force
               PROVE  TakenEnds(rows') /\ \A i \in DOMAIN rows' : Intercepts(rows'[i]) => i = Len(rows')
    BY <1>1, <1>3 DEF GoesOnUntaken
  <2>1. Untaken(rows)
    BY <1>3 DEF ChainIInv, GoesOnUntaken, Layers
  <2>2. \A i \in 1 .. n + 1 : i # n + 1 => i \in 1 .. n
    BY <1>6
  <2> QED BY <1>5, <1>7, <2>1, <2>2 DEF Untaken
<1>12. ImeFollowsTerminal'
  BY <1>2, <1>7 DEF ImeFollowsTerminal
<1>13. ToldIfReached'
  <2>1. delivery' = delivery /\ delivery.shell = "nothing"
    BY <1>3, NothingToldYet
  <2>2. (Reaches(rows', "session") <=> Reaches(rows, "session")) /\ (Reaches(rows', "shell") <=> Reaches(rows, "shell"))
    BY <1>2, <1>5
  <2> QED BY <2>1, <2>2 DEF ToldIfReached, ChainIInv
<1>14. HolesAreKnown'
  BY <1>1, <1>3 DEF HolesAreKnown, SequenceHasNoHole, ChainIInv, Layers
<1> QED BY <1>8, <1>9, <1>10, <1>11, <1>12, <1>13, <1>14 DEF ChainIInv

\* The input method is asked after its terminal, whose row is the last one yet.
LEMMA ImeKeeps == ASSUME ChainIInv, Ime PROVE ChainIInv'
<1> DEFINE next == IF request.multiplexer THEN "session" ELSE "tty"
<1>1. PICK row \in Answers("ime") : IF StopsAfterIme(row) THEN Stops(Append(rows, row))
                                   ELSE GoesOn(Append(rows, row), next)
  BY DEF Ime
<1>2. row \in RowRecords /\ row.layer = "ime"
  BY ChainAssumption DEF ChainAssumption, Answers, Row, RowRecords, Layers
<1>3. /\ pc = "ime" /\ Asks
      /\ UNCHANGED <<request, step, input, stopAfter, delivery, prefix, asked, spent>>
  BY DEF Ime, keyVars
<1>4. rows \in Seq(RowRecords)
  BY DEF ChainIInv, ChainTypes
<1>5. next \in {"session", "tty"} /\ (next = "tty" => ~request.multiplexer)
  OBVIOUS
<1> HIDE DEF next
<1>6. /\ rows' \in Seq(RowRecords)
      /\ \A layer \in Layers : Reaches(rows', layer) <=> Reaches(rows, layer) \/ (row.layer = layer /\ Untaken(rows))
      /\ pc' = "return" \/ (pc' = next /\ ~spent /\ rows' = Append(rows, row))
      /\ ~spent => holes' = holes
      /\ holes' = holes \/ holes' = holes \cup {step}
  BY <1>1, <1>2, AnswerIsAppended DEF ChainIInv
<1>7. PICK n \in Nat : n = Len(rows)
  BY <1>4
<1>8. n \in 1 .. n /\ rows[n].layer = "terminal" /\ DOMAIN rows = 1 .. n
  <2>1. rows # <<>> /\ rows[n].layer = "terminal"
    BY <1>3, <1>7 DEF ChainIInv, ImeFollowsTerminal
  <2>2. n # 0
    BY <1>4, <1>7, <2>1
  <2> QED BY <1>4, <1>7, <2>1, <2>2
<1> DEFINE once == Append(rows, row)
<1>9. /\ once \in Seq(RowRecords) /\ DOMAIN once = 1 .. n + 1 /\ once[n + 1] = row
      /\ \A i \in 1 .. n : once[i] = rows[i]
  BY <1>2, <1>4, <1>7
<1> HIDE DEF once
<1>10. ChainTypes'
  <2>1. late' \in Nat
    BY <1>3 DEF Asks, ChainIInv, ChainTypes
  <2> QED BY <1>3, <1>5, <1>6, <2>1 DEF ChainTypes, ChainIInv, Layers
<1>11. NotYetAsked'
  <2>1. CASE pc' = "return"
    BY <2>1 DEF NotYetAsked
  <2>2. CASE pc' = next /\ rows' = once
    <3>1. \A i \in 1 .. n : rows[i].layer # "shell" /\ rows[i].layer # "session"
      BY <1>3, <1>8 DEF ChainIInv, NotYetAsked
    <3>2. \A i \in 1 .. n + 1 : once[i].layer # "shell" /\ once[i].layer # "session"
      BY <1>2, <1>7, <1>9, <3>1
    <3> QED BY <1>5, <1>9, <2>2, <3>2 DEF NotYetAsked
  <2> QED BY <1>6, <2>1, <2>2 DEF once
<1>12. InBudget'
  <2>1. late \in Nat /\ late <= 1 /\ request.ime /\ (~spent => late = 0) /\ request' = request /\ spent' = spent
    BY <1>3 DEF ChainIInv, InBudget, ChainTypes
  <2>2. late' = IF spent THEN late + 1 ELSE late
    BY <1>3 DEF Asks
  <2>3. pc' # "ime" /\ (pc' # "return" => ~spent)
    BY <1>5, <1>6
  <2> QED BY <2>1, <2>2, <2>3 DEF InBudget, BudgetEndsQueries
<1>13. GoesOnUntaken'
  <2> SUFFICES ASSUME ~request.force
               PROVE  (pc' \in Layers => Untaken(rows')) /\ TakenEnds(rows')
    <3>1. pc' # "ime"
      BY <1>5, <1>6
    <3> QED BY <1>3, <3>1 DEF GoesOnUntaken
  <2>1. \A i \in 1 .. n : Intercepts(rows[i]) => i = n
    BY <1>3, <1>7, <1>8 DEF ChainIInv, GoesOnUntaken
  <2>2. TakenEnds(once)
    <3> SUFFICES ASSUME NEW i \in 1 .. n + 1, NEW j \in 1 .. n + 1, i < j, Intercepts(once[i])
                 PROVE  once[i].layer = "terminal" /\ once[j].layer = "ime"
      BY <1>9 DEF TakenEnds
    <3>1. i \in 1 .. n
      BY <1>7
    <3>2. i = n
      BY <1>9, <2>1, <3>1
    <3>3. j = n + 1
      BY <1>7, <3>2
    <3> QED BY <1>2, <1>8, <1>9, <3>1, <3>2, <3>3
  <2>3. TakenEnds(Append(once, BudgetRow))
    <3>1. BudgetRow \in RowRecords
      BY DEF BudgetRow, Row, RowRecords, AllOutcomes
    <3> QED BY <1>9, <2>2, <3>1, OneRowMore
  <2>4. TakenEnds(rows')
    BY <1>1, <2>2, <2>3 DEF GoesOn, Stops, once
  <2>5. ASSUME pc' \in Layers PROVE Untaken(rows')
    <3>1. rows' = once /\ ~StopsAfterIme(row)
      BY <1>1, <1>6, <2>5 DEF Stops, once, Layers
    <3>2. ~Intercepts(row) /\ ~Intercepts(rows[n])
      BY <1>7, <3>1 DEF StopsAfterIme, StopsOnInterception, Last
    <3>3. \A i \in 1 .. n + 1 : i = n + 1 \/ i \in 1 .. n
      BY <1>7
    <3> QED BY <1>9, <2>1, <3>1, <3>2, <3>3 DEF Untaken
  <2> QED BY <2>4, <2>5
<1>14. ImeFollowsTerminal'
  BY <1>5, <1>6 DEF ImeFollowsTerminal
<1>15. ToldIfReached'
  <2>1. delivery' = delivery /\ delivery.shell = "nothing" /\ input' = input
    BY <1>3, NothingToldYet
  <2>2. (Reaches(rows', "session") <=> Reaches(rows, "session")) /\ (Reaches(rows', "shell") <=> Reaches(rows, "shell"))
    BY <1>2, <1>6 DEF Layers
  <2> QED BY <2>1, <2>2 DEF ToldIfReached, ChainIInv
<1>16. HolesAreKnown'
  <2>1. pc' \in Layers => ~spent
    BY <1>6 DEF Layers
  <2>2. ~prefix.unknown => holes = {}
    BY <1>3 DEF HolesAreKnown, ChainIInv, Layers
  <2>3. /\ ~prefix'.unknown /\ (~spent' \/ pc' \in Layers \ {"compositor"}) => holes' = {}
    BY <1>3, <1>6, <2>1, <2>2
  <2> QED BY <1>3, <1>6, <2>3 DEF HolesAreKnown, SequenceHasNoHole, ChainIInv
<1> QED BY <1>10, <1>11, <1>12, <1>13, <1>14, <1>15, <1>16 DEF ChainIInv

LEMMA NoRowsYet ==
    /\ \A layer : ~Reaches(<<>>, layer)
    /\ Untaken(<<>>) /\ TakenEnds(<<>>) /\ <<>> \in Seq(RowRecords)
BY DEF Reaches, Untaken, TakenEnds

\* The deadline passes.
LEMMA ExpiresKeeps == ASSUME ChainIInv, Expires PROVE ChainIInv'
<1>1. /\ UNCHANGED <<request, pc, rows, input, stopAfter, delivery, prefix, asked, late, holes, step>>
      /\ ~spent /\ spent' = TRUE
  BY DEF Expires, keyVars, routeVars
<1>2. ChainTypes' /\ NotYetAsked' /\ GoesOnUntaken' /\ ImeFollowsTerminal'
  BY <1>1 DEF ChainIInv, ChainTypes, NotYetAsked, GoesOnUntaken, ImeFollowsTerminal, TakenEnds, Untaken
<1>3. InBudget'
  BY <1>1 DEF ChainIInv, InBudget, BudgetEndsQueries
<1>4. ToldIfReached' /\ HolesAreKnown'
  BY <1>1 DEF ChainIInv, ToldIfReached, HolesAreKnown, SequenceHasNoHole, Reaches
<1> QED BY <1>2, <1>3, <1>4 DEF ChainIInv

\* Before the first of the layers there are no rows.
LEMMA RemapperKeeps == ASSUME ChainIInv, RemapperAsked \/ RemapperSkipped PROVE ChainIInv'
<1>1. /\ pc = "remapper" /\ pc' \in {"compositor", "return"} /\ (pc' = "return" => ~spent)
      /\ UNCHANGED <<request, step, rows, input, stopAfter, delivery, prefix, asked, spent, holes>>
  <2>1. CASE RemapperAsked
    BY <2>1 DEF RemapperAsked
  <2>2. CASE RemapperSkipped
    BY <2>2 DEF RemapperSkipped, keyVars
  <2> QED BY <2>1, <2>2
<1>2. late' = late
  <2>1. CASE RemapperAsked
    BY <2>1 DEF RemapperAsked, Asks
  <2>2. CASE RemapperSkipped
    BY <2>2 DEF RemapperSkipped
  <2> QED BY <2>1, <2>2
<1>3. rows = <<>>
  BY <1>1 DEF ChainIInv, NotYetAsked
<1>4. ChainTypes' /\ NotYetAsked' /\ ImeFollowsTerminal'
  BY <1>1, <1>2, <1>3 DEF ChainIInv, ChainTypes, NotYetAsked, ImeFollowsTerminal, Layers
<1>5. GoesOnUntaken'
  BY <1>1, <1>3, NoRowsYet DEF GoesOnUntaken
<1>6. InBudget'
  BY <1>1, <1>2 DEF ChainIInv, InBudget, BudgetEndsQueries
<1>7. ToldIfReached'
  BY <1>1 DEF ChainIInv, ToldIfReached
<1>8. HolesAreKnown'
  BY <1>1 DEF ChainIInv, HolesAreKnown, SequenceHasNoHole
<1> QED BY <1>4, <1>5, <1>6, <1>7, <1>8 DEF ChainIInv

\* A key that the budget leaves out is missing in the sequence.
LEMMA NotBegunKeeps == ASSUME ChainIInv, NotBegun PROVE ChainIInv'
<1>1. /\ pc = "compositor" /\ spent /\ pc' = "return" /\ rows' = Append(rows, BudgetRow)
      /\ holes' = holes \cup {step}
      /\ UNCHANGED <<request, step, input, stopAfter, delivery, prefix, asked, spent, late>>
  BY DEF NotBegun, GoesOn, keyVars
<1>2. rows = <<>> /\ BudgetRow \in RowRecords /\ BudgetRow.layer = "budget" /\ rows \in Seq(RowRecords)
  BY <1>1 DEF ChainIInv, ChainTypes, NotYetAsked, BudgetRow, Row, RowRecords, AllOutcomes
<1>3. /\ rows' \in Seq(RowRecords)
      /\ \A layer : Reaches(rows', layer) <=> Reaches(rows, layer) \/ (BudgetRow.layer = layer /\ Untaken(rows))
      /\ TakenEnds(rows')
  BY <1>1, <1>2, OneRowMore, NoRowsYet
<1>4. ChainTypes' /\ NotYetAsked' /\ ImeFollowsTerminal'
  BY <1>1, <1>3 DEF ChainIInv, ChainTypes, NotYetAsked, ImeFollowsTerminal, Layers
<1>5. GoesOnUntaken'
  BY <1>1, <1>3 DEF GoesOnUntaken, Layers
<1>6. InBudget'
  BY <1>1 DEF ChainIInv, InBudget, BudgetEndsQueries
<1>7. ToldIfReached'
  <2>1. (Reaches(rows', "session") <=> Reaches(rows, "session")) /\ (Reaches(rows', "shell") <=> Reaches(rows, "shell"))
    BY <1>2, <1>3
  <2> QED BY <1>1, <2>1 DEF ChainIInv, ToldIfReached
<1>8. HolesAreKnown'
  BY <1>1 DEF ChainIInv, HolesAreKnown, SequenceHasNoHole, Layers
<1> QED BY <1>4, <1>5, <1>6, <1>7, <1>8 DEF ChainIInv

\* The shell is told when the bytes of a key it was reached by are unknown.
LEMMA NextKeyKeeps == ASSUME ChainIInv, NextKey PROVE ChainIInv'
<1>1. /\ pc = "return" /\ pc' = "remapper" /\ rows' = <<>> /\ input' = FALSE /\ stopAfter' = FALSE
      /\ delivery' = NothingDelivered /\ asked' = "nothing" /\ prefix' = Recorded
      /\ holes' = IF ReachedBefore("shell") /\ ~input THEN holes \cup {step} ELSE holes
      /\ UNCHANGED <<request, spent, late>>
  BY DEF NextKey
<1>2. prefix'.unknown = (prefix.unknown \/ delivery.shell = "unknown")
  BY <1>1 DEF Recorded
<1>3. ChainTypes' /\ NotYetAsked' /\ ImeFollowsTerminal'
  <2>1. prefix'.unknown \in BOOLEAN
    BY <1>2 DEF ChainIInv, ChainTypes
  <2>2. delivery' \in [multiplexer : BOOLEAN, shell : {"nothing", "bytes", "unknown"}]
    BY <1>1 DEF NothingDelivered
  <2>3. ChainTypes'
    BY <1>1, <2>1, <2>2, NoRowsYet DEF ChainIInv, ChainTypes
  <2> QED BY <1>1, <2>3 DEF NotYetAsked, ImeFollowsTerminal
<1>4. GoesOnUntaken'
  BY <1>1, NoRowsYet DEF GoesOnUntaken, Layers
<1>5. InBudget'
  BY <1>1 DEF ChainIInv, InBudget, BudgetEndsQueries
<1>6. ToldIfReached'
  BY <1>1, NoRowsYet DEF ToldIfReached, NothingDelivered
<1>7. HolesAreKnown'
  <2> SUFFICES ASSUME ~prefix'.unknown, ~spent PROVE holes' = {}
    BY <1>1 DEF HolesAreKnown, SequenceHasNoHole, Layers
  <2>1. ~prefix.unknown /\ delivery.shell # "unknown"
    BY <1>2
  <2>2. holes = {}
    BY <2>1 DEF ChainIInv, HolesAreKnown
  <2>3. ~(ReachedBefore("shell") /\ ~input)
    <3> SUFFICES ASSUME ReachedBefore("shell"), ~input PROVE FALSE
      OBVIOUS
    <3>1. Reaches(rows, "shell")
      BY ReachedIsReaches DEF ChainIInv, ChainTypes
    <3>2. delivery.shell # "nothing" /\ delivery.shell # "bytes"
      BY <3>1 DEF ChainIInv, ToldIfReached
    <3> QED BY <2>1, <3>2 DEF ChainIInv, ChainTypes
  <2> QED BY <1>1, <2>2, <2>3
<1> QED BY <1>3, <1>4, <1>5, <1>6, <1>7 DEF ChainIInv

LEMMA LastKeyKeeps == ASSUME ChainIInv, LastKey PROVE ChainIInv'
<1>1. /\ pc = "return" /\ pc' = "done" /\ prefix' = Recorded
      /\ UNCHANGED <<request, step, rows, input, stopAfter, delivery, asked, spent, late, holes>>
  BY DEF LastKey, keyVars
<1>2. prefix'.unknown = (prefix.unknown \/ delivery.shell = "unknown")
  BY <1>1 DEF Recorded
<1>3. ChainTypes' /\ NotYetAsked' /\ ImeFollowsTerminal'
  <2>1. prefix'.unknown \in BOOLEAN
    BY <1>2 DEF ChainIInv, ChainTypes
  <2> QED BY <1>1, <2>1 DEF ChainIInv, ChainTypes, NotYetAsked, ImeFollowsTerminal, Layers
<1>4. GoesOnUntaken'
  BY <1>1 DEF ChainIInv, GoesOnUntaken, Layers
<1>5. InBudget'
  BY <1>1 DEF ChainIInv, InBudget, BudgetEndsQueries
<1>6. ToldIfReached'
  BY <1>1 DEF ChainIInv, ToldIfReached
<1>7. HolesAreKnown'
  BY <1>1, <1>2 DEF ChainIInv, HolesAreKnown, SequenceHasNoHole, Layers
<1> QED BY <1>3, <1>4, <1>5, <1>6, <1>7 DEF ChainIInv

\* A step of another part.
LEMMA ChainStays == ASSUME ChainIInv, UNCHANGED chainVars PROVE ChainIInv'
BY DEF ChainIInv, ChainTypes, NotYetAsked, InBudget, BudgetEndsQueries, GoesOnUntaken, Untaken, TakenEnds,
       ImeFollowsTerminal, ToldIfReached, Reaches, HolesAreKnown, SequenceHasNoHole,
       chainVars, keyVars, routeVars

LEMMA ChainBegins == ChainInit => ChainIInv
<1> SUFFICES ASSUME ChainInit PROVE ChainIInv
  OBVIOUS
<1> USE DEF ChainInit
<1>1. ChainTypes /\ NotYetAsked /\ ImeFollowsTerminal
  <2>1. delivery \in [multiplexer : BOOLEAN, shell : {"nothing", "bytes", "unknown"}]
    BY DEF NothingDelivered
  <2>2. ChainTypes
    BY <2>1, NoRowsYet DEF ChainTypes
  <2> QED BY <2>2 DEF NotYetAsked, ImeFollowsTerminal
<1>2. GoesOnUntaken /\ ToldIfReached
  BY NoRowsYet DEF GoesOnUntaken, ToldIfReached, NothingDelivered
<1>3. InBudget /\ HolesAreKnown
  BY DEF InBudget, BudgetEndsQueries, HolesAreKnown, SequenceHasNoHole
<1> QED BY <1>1, <1>2, <1>3 DEF ChainIInv

LEMMA ChainSteps == ChainIInv /\ [ChainNext]_chainVars => ChainIInv'
BY ExpiresKeeps, RemapperKeeps, NotBegunKeeps, AnsweringKeeps, TerminalKeeps, ImeKeeps, SessionKeeps,
   ShellKeeps, NextKeyKeeps, LastKeyKeeps, ChainStays DEF ChainNext

LEMMA SameTruth == ASSUME NEW a \in BOOLEAN, NEW b \in BOOLEAN, a <=> b PROVE a = b
<1>1. CASE a
  BY <1>1, Zenon
<1>2. CASE ~a
  BY <1>2, Zenon
<1> QED BY <1>1, <1>2

LEMMA RouteIsKept ==
    ChainIInv => ConsumedGoesNowhere /\ BudgetEndsQueries /\ DeliveredIffReached /\ SequenceHasNoHole
<1> SUFFICES ASSUME ChainIInv
             PROVE  ConsumedGoesNowhere /\ BudgetEndsQueries /\ DeliveredIffReached /\ SequenceHasNoHole
  OBVIOUS
<1>1. ConsumedGoesNowhere
  BY DEF ChainIInv, GoesOnUntaken, TakenEnds, ConsumedGoesNowhere
<1>2. BudgetEndsQueries /\ SequenceHasNoHole
  BY DEF ChainIInv, InBudget, HolesAreKnown
<1>3. DeliveredIffReached
  <2>1. \A layer : ReachedBefore(layer) <=> Reaches(rows, layer)
    BY ReachedIsReaches DEF ChainIInv, ChainTypes
  <2>2. delivery.multiplexer <=> ReachedBefore("session")
    BY <2>1 DEF ChainIInv, ToldIfReached
  <2>3. delivery.shell # "nothing" <=> ReachedBefore("shell")
    BY <2>1 DEF ChainIInv, ToldIfReached
  <2>4. delivery.multiplexer \in BOOLEAN /\ ReachedBefore("session") \in BOOLEAN /\ ReachedBefore("shell") \in BOOLEAN
    BY DEF ChainIInv, ChainTypes, ReachedBefore
  <2>5. delivery.multiplexer = ReachedBefore("session")
    BY <2>2, <2>4, SameTruth
  <2>6. (delivery.shell # "nothing") = ReachedBefore("shell")
    BY <2>3, <2>4, Zenon
  <2> QED BY <2>5, <2>6 DEF DeliveredIffReached
<1> QED BY <1>1, <1>2, <1>3

-----------------------------------------------------------------------------
ChainPart == part = "chain" => ChainIInv

LEMMA OtherPartsLeaveChain ==
    ASSUME HyprlandStep \/ CompositorStep \/ DesktopStep \/ MethodStep \/ BindingsStep \/ AppStep
    PROVE  part # "chain" /\ part' = part
BY DEF HyprlandStep, CompositorStep, DesktopStep, MethodStep, BindingsStep, AppStep

LEMMA ChainPartSteps == ChainPart /\ [Next]_mcVars => ChainPart'
<1> SUFFICES ASSUME ChainPart, [Next]_mcVars, part' = "chain" PROVE ChainIInv'
  BY DEF ChainPart
<1>1. CASE ChainStep
  BY <1>1, ChainSteps DEF ChainStep, ChainPart
<1>2. CASE Next /\ ~ChainStep
  BY <1>2, OtherPartsLeaveChain DEF Next
<1>3. CASE UNCHANGED mcVars
  BY <1>3, ChainStays DEF mcVars, ChainPart
<1> QED BY <1>1, <1>2, <1>3

\* InspectionChain: of the layers of a key nobody is asked after one that took it, or
\* after the budget; the multiplexer and the shell are told of exactly the keys that
\* came to them; and the shell is asked about bytes only if none is missing, however
\* long the sequence is and whatever the layers answer.
THEOREM RouteKept == Spec => []Chain_RouteIsKept
<1>1. Init => ChainPart
  BY ChainBegins DEF Init, ChainPart
<1>2. ChainPart => Chain_RouteIsKept
  BY RouteIsKept DEF ChainPart, Chain_RouteIsKept
<1> QED BY <1>1, <1>2, ChainPartSteps, PTL DEF Spec

-----------------------------------------------------------------------------
(* The input methods.  What was heard of a daemon need not be of the       *)
(* moment another one was asked: that somebody composed the key all along  *)
(* follows from who can have been switched.                                *)
\* A daemon that has composed keys all along, and what whykey heard of it.
EngineHeard(r) ==
    /\ r.name \in {"unasked", "engine", "none"} /\ r.state \in {"unasked", "active", "none"}
    /\ r.noEngine = FALSE

Composes(d) ==
    /\ method[d] = "active engine"
    /\ imePc # "detect" => d \in detected
    /\ EngineHeard(heard[d])

ImeAnswers ==
    [name : {"unasked", "engine", "keyboard", "none"},
     state : {"unasked", "active", "inactive", "closed", "none"}, error : BOOLEAN, noEngine : BOOLEAN]

\* One switch spares one of the daemons that compose, if a key is composed after it too.
ImeIInv ==
    /\ DOMAIN method = ImeNames /\ heard \in [ImeNames -> ImeAnswers] /\ switches \in Nat
    /\ composed \subseteq BOOLEAN
    /\ FALSE \notin composed =>
           /\ ~remote
           /\ \E d \in ImeNames : Composes(d)
           /\ switches = 0 => \A d \in ImeNames : method[d] = "active engine" => Composes(d)

LEMMA ImeBegins == ImeInit => ImeIInv
<1> SUFFICES ASSUME ImeInit PROVE ImeIInv
  OBVIOUS
<1>1. DOMAIN method = ImeNames /\ switches \in Nat /\ switches = 0
  BY DEF ImeInit, ImeNames
<1>2. TransformsNow \in BOOLEAN
  BY DEF TransformsNow, ImeInit
<1>3. composed = {TransformsNow} /\ imePc = "detect" /\ \A d \in ImeNames : heard[d] = Unheard
  BY DEF ImeInit
<1>4. \A d \in ImeNames : EngineHeard(heard[d])
  BY <1>3 DEF EngineHeard, Unheard
<1>5. ASSUME FALSE \notin composed PROVE ~remote /\ \E d \in ImeNames : method[d] = "active engine"
  BY <1>2, <1>3, <1>5 DEF TransformsNow
<1>6. heard \in [ImeNames -> ImeAnswers]
  BY DEF ImeInit, Unheard, ImeAnswers
<1> QED BY <1>1, <1>2, <1>3, <1>4, <1>5, <1>6 DEF ImeIInv, Composes

\* What a daemon answers while it composes.
LEMMA ComposerIsHeard ==
    ASSUME ImeIInv, DetectMethods \/ AskIbus \/ AskFcitxEngine \/ AskFcitxState \/ FinishIme,
           NEW d \in ImeNames, Composes(d), ~remote
    PROVE  Composes(d)'
<1>0. heard \in [ImeNames -> ImeAnswers] /\ EngineHeard(heard[d]) /\ method[d] = "active engine" /\ d \in {"ibus", "fcitx5"}
  BY DEF ImeIInv, Composes, ImeNames
<1>1. CASE DetectMethods
  BY <1>0, <1>1 DEF DetectMethods, Composes, Unmoved, EngineHeard
<1>2. CASE AskIbus
  <2>1. /\ imePc' = imePc /\ detected' = detected /\ method' = method
        /\ heard' = [heard EXCEPT !["ibus"] = Heard(CurrentName(method["ibus"]), "none", FALSE, method["ibus"] = "no engine")]
           \/ heard' = [heard EXCEPT !["ibus"] = Heard("none", "none", TRUE, FALSE)]
    BY <1>2 DEF AskIbus, Unmoved
  <2>2. d = "ibus" => EngineHeard(Heard(CurrentName(method["ibus"]), "none", FALSE, method["ibus"] = "no engine"))
    BY <1>0 DEF EngineHeard, Heard, CurrentName
  <2>3. EngineHeard(Heard("none", "none", TRUE, FALSE))
    BY DEF EngineHeard, Heard
  <2>4. EngineHeard(heard'[d])
    BY <1>0, <2>1, <2>2, <2>3 DEF ImeNames
  <2> QED BY <1>0, <2>1, <2>4 DEF Composes, EngineHeard
<1>3. CASE AskFcitxEngine
  <2>1. /\ imePc' = imePc /\ detected' = detected /\ method' = method
        /\ heard' = [heard EXCEPT !["fcitx5"] = Heard(CurrentName(method["fcitx5"]), "unasked", FALSE, FALSE)]
           \/ heard' = [heard EXCEPT !["fcitx5"] = Heard("none", "none", TRUE, FALSE)]
    BY <1>3 DEF AskFcitxEngine, Unmoved
  <2>2. d = "fcitx5" => EngineHeard(Heard(CurrentName(method["fcitx5"]), "unasked", FALSE, FALSE))
    BY <1>0 DEF EngineHeard, Heard, CurrentName
  <2>3. EngineHeard(Heard("none", "none", TRUE, FALSE))
    BY DEF EngineHeard, Heard
  <2>4. EngineHeard(heard'[d])
    BY <1>0, <2>1, <2>2, <2>3 DEF ImeNames
  <2> QED BY <1>0, <2>1, <2>4 DEF Composes, EngineHeard
<1>4. CASE AskFcitxState
  <2>1. /\ imePc' = imePc /\ detected' = detected /\ method' = method
        /\ heard' = [heard EXCEPT !["fcitx5"].state = StateCode(method["fcitx5"])]
           \/ heard' = [heard EXCEPT !["fcitx5"] = [@ EXCEPT !.state = "none", !.error = TRUE]]
    BY <1>4 DEF AskFcitxState, Unmoved
  <2>2. d = "fcitx5" => StateCode(method["fcitx5"]) = "active"
    BY <1>0 DEF StateCode
  <2>3. EngineHeard(heard'[d])
    <3>1. CASE heard' = [heard EXCEPT !["fcitx5"].state = StateCode(method["fcitx5"])]
      <4>1. heard'[d] = IF d = "fcitx5" THEN [heard[d] EXCEPT !.state = "active"] ELSE heard[d]
        BY <1>0, <2>2, <3>1 DEF ImeNames
      <4> QED BY <1>0, <4>1 DEF EngineHeard, ImeAnswers
    <3>2. CASE heard' = [heard EXCEPT !["fcitx5"] = [@ EXCEPT !.state = "none", !.error = TRUE]]
      <4>1. heard'[d] = IF d = "fcitx5" THEN [heard[d] EXCEPT !.state = "none", !.error = TRUE] ELSE heard[d]
        BY <1>0, <3>2 DEF ImeNames
      <4> QED BY <1>0, <4>1, ZenonT(30) DEF EngineHeard, ImeAnswers
    <3> QED BY <2>1, <3>1, <3>2
  <2> QED BY <1>0, <2>1, <2>3 DEF Composes, EngineHeard
<1>5. CASE FinishIme
  BY <1>5 DEF FinishIme, Composes, Unmoved, EngineHeard, ImeIInv
<1> QED BY <1>1, <1>2, <1>3, <1>4, <1>5

LEMMA AnswersTyped ==
    ASSUME ImeIInv, DetectMethods \/ AskIbus \/ AskFcitxEngine \/ AskFcitxState \/ FinishIme
    PROVE  heard' \in [ImeNames -> ImeAnswers]
<1>1. heard \in [ImeNames -> ImeAnswers]
  BY DEF ImeIInv
<1>2. CASE DetectMethods \/ FinishIme
  BY <1>1, <1>2 DEF DetectMethods, FinishIme
<1>3. CASE AskIbus
  <2>1. Heard(CurrentName(method["ibus"]), "none", FALSE, method["ibus"] = "no engine") \in ImeAnswers
        /\ Heard("none", "none", TRUE, FALSE) \in ImeAnswers
    BY DEF Heard, CurrentName, ImeAnswers
  <2> QED BY <1>1, <1>3, <2>1 DEF AskIbus
<1>4. CASE AskFcitxEngine
  <2>1. Heard(CurrentName(method["fcitx5"]), "unasked", FALSE, FALSE) \in ImeAnswers
        /\ Heard("none", "none", TRUE, FALSE) \in ImeAnswers
    BY DEF Heard, CurrentName, ImeAnswers
  <2> QED BY <1>1, <1>4, <2>1 DEF AskFcitxEngine
<1>5. CASE AskFcitxState
  <2>1. StateCode(method["fcitx5"]) \in {"closed", "inactive", "active"}
    BY DEF StateCode
  <2>2. [heard["fcitx5"] EXCEPT !.state = StateCode(method["fcitx5"])] \in ImeAnswers
        /\ [heard["fcitx5"] EXCEPT !.state = "none", !.error = TRUE] \in ImeAnswers
    BY <1>1, <2>1 DEF ImeAnswers, ImeNames
  <2> QED BY <1>1, <1>5, <2>2 DEF AskFcitxState
<1> QED BY <1>2, <1>3, <1>4, <1>5

LEMMA ImeSteps == ASSUME MaxSwitches <= 1, ImeIInv, [ImeNext]_imeVars PROVE ImeIInv'
<1>1. CASE Switch
  <2>1. PICK d \in ImeNames, s \in FcitxStates \union IbusStates :
           s # method[d] /\ method' = [method EXCEPT ![d] = s]
    BY <1>1 DEF Switch
  <2>2. /\ switches = 0 /\ switches' = 1 /\ composed' = composed \union {TransformsNow'}
        /\ UNCHANGED <<remote, detected, heard, imePc>>
    <3>1. switches \in Nat /\ switches < MaxSwitches /\ switches' = switches + 1
      BY <1>1 DEF Switch, ImeIInv
    <3>2. switches = 0 /\ switches' = 1
      BY <3>1, InputMethodsAssumption DEF InputMethodsAssumption
    <3> QED BY <1>1, <3>2 DEF Switch
  <2>3. TransformsNow' \in BOOLEAN
    BY DEF TransformsNow
  <2>4. ASSUME FALSE \notin composed' PROVE ~remote' /\ \E e \in ImeNames : Composes(e)'
    <3>1. TransformsNow' /\ FALSE \notin composed
      BY <2>2, <2>3, <2>4
    <3>2. PICK e \in ImeNames : method'[e] = "active engine"
      BY <3>1 DEF TransformsNow
    <3>3. CASE e # d
      <4>1. method[e] = "active engine"
        BY <2>1, <3>2, <3>3 DEF ImeIInv
      <4>2. Composes(e)
        BY <2>2, <3>1, <4>1 DEF ImeIInv
      <4> QED BY <2>2, <3>1, <3>2, <4>2, ZenonT(30) DEF Composes, EngineHeard, ImeIInv
    <3>4. CASE e = d
      <4>1. PICK f \in ImeNames : Composes(f)
        BY <3>1 DEF ImeIInv
      <4>2. f # d
        BY <2>1, <3>2, <3>4, <4>1 DEF ImeIInv, Composes
      <4>3. method'[f] = "active engine"
        BY <2>1, <4>1, <4>2 DEF ImeIInv, Composes
      <4>4. Composes(f)'
        BY <2>2, <4>1, <4>3 DEF Composes, EngineHeard
      <4> QED BY <2>2, <3>1, <4>4 DEF ImeIInv
    <3> QED BY <3>3, <3>4
  <2>5. DOMAIN method' = ImeNames /\ heard' \in [ImeNames -> ImeAnswers] /\ switches' \in Nat /\ switches' # 0
    <3>1. DOMAIN method' = ImeNames
      BY <2>1 DEF ImeIInv
    <3>2. heard' \in [ImeNames -> ImeAnswers]
      BY <2>2 DEF ImeIInv
    <3> QED BY <2>2, <3>1, <3>2
  <2>6. composed' \subseteq BOOLEAN
    BY <2>2, <2>3 DEF ImeIInv
  <2> QED BY <2>4, <2>5, <2>6 DEF ImeIInv
<1>2. CASE DetectMethods \/ AskIbus \/ AskFcitxEngine \/ AskFcitxState \/ FinishIme
  <2>1. UNCHANGED <<method, remote, switches, composed>>
    BY <1>2 DEF DetectMethods, AskIbus, AskFcitxEngine, AskFcitxState, FinishIme, Unmoved
  <2>3. heard' \in [ImeNames -> ImeAnswers]
    BY <1>2, AnswersTyped
  <2>2. ASSUME FALSE \notin composed
        PROVE  /\ ~remote'
               /\ \E d \in ImeNames : Composes(d)'
               /\ switches' = 0 => \A d \in ImeNames : method'[d] = "active engine" => Composes(d)'
    <3>1. ~remote
      BY <2>2 DEF ImeIInv
    <3>2. \A d \in ImeNames : Composes(d) => Composes(d)'
      BY <1>2, <3>1, ComposerIsHeard
    <3> QED BY <2>1, <2>2, <3>1, <3>2 DEF ImeIInv
  <2> QED BY <2>1, <2>2, <2>3 DEF ImeIInv
<1>3. CASE UNCHANGED imeVars
  BY <1>3, ZenonT(30) DEF imeVars, ImeIInv, Composes, EngineHeard
<1> QED BY <1>1, <1>2, <1>3 DEF ImeNext

LEMMA ComposedIsNotForwarded == ImeIInv => ForwardingIsSound
<1> SUFFICES ASSUME ImeIInv, imePc = "done", ImeVerdict = "pass", FALSE \notin composed PROVE FALSE
  BY DEF ForwardingIsSound
<1>1. PICK d \in ImeNames : Composes(d)
  BY DEF ImeIInv
<1>2. runtime_mode(heard[d]) = "forwarding"
  BY <1>1 DEF Composes, ImeVerdict
<1> QED BY <1>1, <1>2 DEF Composes, EngineHeard, runtime_mode

MethodPart == part = "method" => ImeIInv

LEMMA OtherPartsLeaveMethod ==
    ASSUME HyprlandStep \/ CompositorStep \/ DesktopStep \/ BindingsStep \/ AppStep \/ ChainStep
    PROVE  part # "method" /\ part' = part
BY DEF HyprlandStep, CompositorStep, DesktopStep, BindingsStep, AppStep, ChainStep

LEMMA MethodPartSteps == ASSUME MaxSwitches <= 1, MethodPart, [Next]_mcVars PROVE MethodPart'
<1> SUFFICES ASSUME part' = "method" PROVE ImeIInv'
  BY DEF MethodPart
<1>1. CASE MethodStep
  BY <1>1, ImeSteps DEF MethodStep, MethodPart
<1>2. CASE Next /\ ~MethodStep
  BY <1>2, OtherPartsLeaveMethod DEF Next
<1>3. CASE UNCHANGED mcVars
  BY <1>3, ImeSteps DEF mcVars, MethodPart
<1> QED BY <1>1, <1>2, <1>3

\* InputMethods: if the user switches at most once while whykey asks, a key that is said
\* to be forwarded was composed by no engine at some moment, although the daemons are
\* asked one after the other and may not answer.
THEOREM ForwardedWithOneSwitch == MaxSwitches <= 1 => (Spec => []Method_ForwardingIsSound)
<1> SUFFICES ASSUME MaxSwitches <= 1 PROVE Spec => []Method_ForwardingIsSound
  OBVIOUS
<1>1. Init => MethodPart
  BY ImeBegins DEF Init, MethodPart
<1>2. MethodPart => Method_ForwardingIsSound
  BY ComposedIsNotForwarded DEF MethodPart, Method_ForwardingIsSound
<1>3. MethodPart /\ [Next]_mcVars => MethodPart'
  BY MethodPartSteps
<1> QED BY <1>1, <1>2, <1>3, PTL DEF Spec

-----------------------------------------------------------------------------
(* Folds over sequences, by induction over the positions. *)
\* What holds of 0 and passes from a number to the next one holds of all numbers.
LEMMA AllNaturals ==
    ASSUME NEW S, 0 \in S, \A n \in Nat : n \in S => n + 1 \in S
    PROVE  Nat \subseteq S
<1> DEFINE R == {p \in Nat \X Nat : p[1] < p[2]}
           T == Nat \ S
<1>1. IsWellFoundedOn(R, Nat)
  <2>1. IsWellFoundedOn(OpToRel(<, Nat), Nat)
    BY NatLessThanWellFounded
  <2> QED BY <2>1 DEF OpToRel
<1>2. SUFFICES ASSUME T # {} PROVE FALSE
  BY <1>2
<1>3. PICK x \in T : \A y \in T : ~ (<<y, x>> \in R)
  <2>1. T \subseteq Nat
    OBVIOUS
  <2> HIDE DEF R, T
  <2> QED BY <1>1, <1>2, <2>1, WFMin
<1>4. x \in Nat /\ x # 0 /\ x - 1 \in Nat /\ (x - 1) + 1 = x /\ x - 1 < x
  OBVIOUS
<1>5. x - 1 \notin T
  BY <1>3, <1>4
<1> QED BY <1>4, <1>5

\* The greatest of a set of numbers is its greatest element.
LEMMA MaxIs ==
    ASSUME NEW t \in SUBSET Nat, NEW m \in t, \A y \in t : y <= m
    PROVE  Max(t) = m
<1>1. \E x \in t : \A y \in t : x >= y
  OBVIOUS
<1>2. Max(t) \in t /\ \A y \in t : Max(t) >= y
  BY <1>1 DEF Max
<1>3. Max(t) \in Nat /\ m \in Nat /\ Max(t) <= m /\ Max(t) >= m
  BY <1>2
<1> QED BY <1>3

\* A set of positions has a greatest one.
LEMMA MaxIn ==
    ASSUME NEW N \in Nat, NEW t \in SUBSET (1 .. N), t # {}
    PROVE  Max(t) \in t
<1> DEFINE S == {n \in Nat : \A u \in SUBSET (1 .. n) : u # {} => Max(u) \in u}
<1>1. 0 \in S
  <2>1. 1 .. 0 = {}
    OBVIOUS
  <2> QED BY <2>1
<1>2. ASSUME NEW n \in Nat, n \in S PROVE n + 1 \in S
  <2>1. \A u \in SUBSET (1 .. n) : u # {} => Max(u) \in u
    BY <1>2
  <2>2. ASSUME NEW u \in SUBSET (1 .. n + 1), u # {} PROVE Max(u) \in u
    <3>1. CASE n + 1 \in u
      <4>1. u \in SUBSET Nat /\ \A y \in u : y <= n + 1
        OBVIOUS
      <4>2. Max(u) = n + 1
        BY <3>1, <4>1, MaxIs
      <4> QED BY <3>1, <4>2
    <3>2. CASE n + 1 \notin u
      <4>1. u \in SUBSET (1 .. n)
        BY <3>2
      <4> QED BY <2>1, <2>2, <4>1
    <3> QED BY <3>1, <3>2
  <2> QED BY <2>2
<1>3. Nat \subseteq S
  <2> HIDE DEF S
  <2> QED BY <1>1, <1>2, AllNaturals
<1> QED BY <1>3

\* A step op of N positions that keeps to the set A.
Foldable(A, base, op, N) == N \in Nat /\ base \in A /\ op \in [A \X (1 .. N) -> A]

\* f solves the recursion of FoldLeft over N positions.
Solved(f, A, base, op, N) ==
    /\ f \in [SUBSET (1 .. N) -> A]
    /\ f = [t \in SUBSET (1 .. N) |-> IF t = {} THEN base ELSE op[<<f[t \ {Max(t)}], Max(t)>>]]

\* The recursion of FoldLeft, on the sets of positions of a sequence, has a solution.
LEMMA FoldExists ==
    ASSUME NEW N, NEW A, NEW base, NEW op, Foldable(A, base, op, N)
    PROVE  \E f : Solved(f, A, base, op, N)
<1>0. N \in Nat /\ base \in A /\ op \in [A \X (1 .. N) -> A]
  BY DEF Foldable
<1> USE <1>0
<1> DEFINE Solves(f, n) == \A t \in SUBSET (1 .. n) :
               f[t] = IF t = {} THEN base ELSE op[<<f[t \ {Max(t)}], Max(t)>>]
           Good(n) == /\ \A t \in SUBSET (1 .. n) : t # {} => Max(t) \in t
                      /\ \E f \in [SUBSET (1 .. n) -> A] : Solves(f, n)
           S == {n \in Nat : n <= N => Good(n)}
<1>1. 0 \in S
  <2>1. SUBSET (1 .. 0) = {{}}
    OBVIOUS
  <2>2. [t \in SUBSET (1 .. 0) |-> base] \in [SUBSET (1 .. 0) -> A]
        /\ Solves([t \in SUBSET (1 .. 0) |-> base], 0)
    BY <2>1
  <2> QED BY <2>1, <2>2
<1>2. ASSUME NEW n \in Nat, n \in S PROVE n + 1 \in S
  <2> HIDE DEF Good
  <2>1. SUFFICES ASSUME n + 1 <= N PROVE Good(n + 1)
    OBVIOUS
  <2>0. Good(n)
    BY <1>2, <2>1
  <2> USE DEF Good
  <2> HIDE DEF Solves
  <2>2. PICK f \in [SUBSET (1 .. n) -> A] : Solves(f, n)
    BY <2>0
  <2>3. \A t \in SUBSET (1 .. n) : t # {} => Max(t) \in t
    BY <2>0
  <2> USE DEF Solves
  <2>4. \A t \in SUBSET (1 .. n + 1) : n + 1 \in t => Max(t) = n + 1
    <3>1. TAKE t \in SUBSET (1 .. n + 1)
    <3>2. HAVE n + 1 \in t
    <3> QED BY <3>2, MaxIs
  <2>5. \A t \in SUBSET (1 .. n + 1) : n + 1 \notin t => t \in SUBSET (1 .. n)
    OBVIOUS
  <2>6. \A t \in SUBSET (1 .. n + 1) : t # {} => Max(t) \in t
    BY <2>3, <2>4, <2>5
  <2> DEFINE g == [t \in SUBSET (1 .. n + 1) |->
                     IF n + 1 \in t THEN op[<<f[t \ {n + 1}], n + 1>>] ELSE f[t]]
  <2>7. g \in [SUBSET (1 .. n + 1) -> A]
    <3>1. ASSUME NEW t \in SUBSET (1 .. n + 1) PROVE g[t] \in A
      <4>1. CASE n + 1 \in t
        <5>1. t \ {n + 1} \in SUBSET (1 .. n)
          BY <2>5
        <5> QED BY <2>1, <4>1, <5>1
      <4>2. CASE n + 1 \notin t
        BY <2>5, <4>2
      <4> QED BY <4>1, <4>2
    <3> QED BY <3>1
  <2>8. ASSUME NEW t \in SUBSET (1 .. n + 1)
        PROVE  g[t] = IF t = {} THEN base ELSE op[<<g[t \ {Max(t)}], Max(t)>>]
    <3>1. CASE n + 1 \in t
      <4>1. Max(t) = n + 1 /\ t # {}
        BY <2>4, <3>1
      <4>2. t \ {n + 1} \in SUBSET (1 .. n + 1) /\ n + 1 \notin t \ {n + 1}
        OBVIOUS
      <4>3. g[t \ {n + 1}] = f[t \ {n + 1}]
        BY <4>2
      <4> HIDE DEF g
      <4>4. g[t] = op[<<f[t \ {n + 1}], n + 1>>]
        BY <3>1 DEF g
      <4> QED BY <4>1, <4>3, <4>4
    <3>2. CASE n + 1 \notin t
      <4>1. t \in SUBSET (1 .. n)
        BY <2>5, <3>2
      <4>2. t \ {Max(t)} \in SUBSET (1 .. n + 1) /\ n + 1 \notin t \ {Max(t)}
        BY <3>2
      <4>3. g[t] = f[t] /\ g[t \ {Max(t)}] = f[t \ {Max(t)}]
        BY <3>2, <4>2
      <4> HIDE DEF g
      <4> QED BY <2>2, <4>1, <4>3
    <3> QED BY <3>1, <3>2
  <2> HIDE DEF g
  <2>9. Solves(g, n + 1)
    BY <2>8
  <2> HIDE DEF Solves
  <2> QED BY <2>6, <2>7, <2>9
<1>3. N \in S
  <2> HIDE DEF S
  <2> QED BY <1>1, <1>2, AllNaturals
<1>4. Good(N)
  <2> HIDE DEF Good
  <2>1. N <= N
    OBVIOUS
  <2> QED BY <1>3, <2>1
<1>5. PICK f \in [SUBSET (1 .. N) -> A] : Solves(f, N)
  <2> HIDE DEF Solves
  <2> QED BY <1>4
<1> QED BY <1>5 DEF Solved

\* F solves that recursion wherever its values are in A.
Folds(F, A, base, op, N) ==
    /\ Foldable(A, base, op, N)
    /\ F[{}] = base
    /\ \A t \in SUBSET (1 .. N) : t # {} /\ F[t \ {Max(t)}] \in A
          => F[t] = op[<<F[t \ {Max(t)}], Max(t)>>]

\* What solves that recursion takes its values in A, one position after the other.
LEMMA FoldSteps ==
    ASSUME NEW N, NEW A, NEW base, NEW op, NEW F, Folds(F, A, base, op, N)
    PROVE  /\ \A n \in 0 .. N : F[1 .. n] \in A
           /\ \A n \in 1 .. N : F[1 .. n] = op[<<F[1 .. n - 1], n>>]
<1> USE DEF Folds, Foldable
<1> DEFINE S == {n \in Nat : n <= N => F[1 .. n] \in A}
<1>1. \A n \in 1 .. N : F[1 .. n - 1] \in A => F[1 .. n] = op[<<F[1 .. n - 1], n>>]
  <2>1. TAKE n \in 1 .. N
  <2>2. Max(1 .. n) = n
    <3>1. 1 .. n \in SUBSET Nat /\ n \in 1 .. n /\ \A y \in 1 .. n : y <= n
      OBVIOUS
    <3> QED BY <3>1, MaxIs
  <2>3. (1 .. n) \ {n} = 1 .. n - 1
    OBVIOUS
  <2>4. 1 .. n \in SUBSET (1 .. N) /\ 1 .. n # {}
    OBVIOUS
  <2>5. (F[(1 .. n) \ {Max(1 .. n)}] \in A
            => F[1 .. n] = op[<<F[(1 .. n) \ {Max(1 .. n)}], Max(1 .. n)>>])
    BY <2>4
  <2> QED BY <2>2, <2>3, <2>5
<1>2. 0 \in S
  <2>1. 1 .. 0 = {}
    OBVIOUS
  <2> QED BY <2>1
<1>3. ASSUME NEW n \in Nat, n \in S PROVE n + 1 \in S
  <2>1. SUFFICES ASSUME n + 1 <= N PROVE F[1 .. n + 1] \in A
    OBVIOUS
  <2>2. F[1 .. n] \in A /\ n + 1 \in 1 .. N /\ (n + 1) - 1 = n
    BY <1>3, <2>1
  <2>3. F[1 .. n + 1] = op[<<F[1 .. n], n + 1>>]
    BY <1>1, <2>2
  <2> QED BY <2>2, <2>3
<1>4. Nat \subseteq S
  <2> HIDE DEF S
  <2> QED BY <1>2, <1>3, AllNaturals
<1>5. \A n \in 0 .. N : F[1 .. n] \in A
  BY <1>4
<1>6. ASSUME NEW n \in 1 .. N PROVE F[1 .. n] = op[<<F[1 .. n - 1], n>>]
  <2>1. n - 1 \in 0 .. N
    OBVIOUS
  <2> QED BY <1>1, <1>5, <2>1
<1> QED BY <1>5, <1>6

\* Two sequences that agree up to N are folded alike up to N.
LEMMA FoldsAlike ==
    ASSUME NEW N, NEW A, NEW base, NEW op, NEW F, Folds(F, A, base, op, N),
           NEW M, NEW more, NEW G, Folds(G, A, base, more, M),
           N <= M, \A a \in A, n \in 1 .. N : more[<<a, n>>] = op[<<a, n>>]
    PROVE  F[1 .. N] \in A /\ G[1 .. N] = F[1 .. N]
<1>0. N \in Nat /\ M \in Nat
  BY DEF Folds, Foldable
<1> DEFINE S == {n \in Nat : n <= N => G[1 .. n] = F[1 .. n]}
<1>1. /\ \A n \in 0 .. N : F[1 .. n] \in A
      /\ \A n \in 1 .. N : F[1 .. n] = op[<<F[1 .. n - 1], n>>]
  BY FoldSteps
<1>2. \A n \in 1 .. M : G[1 .. n] = more[<<G[1 .. n - 1], n>>]
  BY FoldSteps
<1>3. 0 \in S
  <2>1. 1 .. 0 = {}
    OBVIOUS
  <2> QED BY <2>1 DEF Folds, Foldable
<1>4. ASSUME NEW n \in Nat, n \in S PROVE n + 1 \in S
  <2>1. SUFFICES ASSUME n + 1 <= N PROVE G[1 .. n + 1] = F[1 .. n + 1]
    OBVIOUS
  <2>2. n + 1 \in 1 .. N /\ n + 1 \in 1 .. M /\ (n + 1) - 1 = n /\ n \in 0 .. N
    BY <1>0, <2>1
  <2>3. G[1 .. n] = F[1 .. n] /\ F[1 .. n] \in A
    BY <1>1, <1>4, <2>1, <2>2
  <2>4. G[1 .. n + 1] = more[<<F[1 .. n], n + 1>>]
    BY <1>2, <2>2, <2>3
  <2>5. F[1 .. n + 1] = op[<<F[1 .. n], n + 1>>]
    BY <1>1, <2>2
  <2> QED BY <2>2, <2>3, <2>4, <2>5
<1>5. Nat \subseteq S
  <2> HIDE DEF S
  <2> QED BY <1>3, <1>4, AllNaturals
<1>6. N \in 0 .. N /\ N <= N
  BY <1>0
<1> QED BY <1>1, <1>5, <1>6

\* One more position is one more step.
LEMMA FoldMore ==
    ASSUME NEW N, NEW A, NEW base, NEW op, NEW F, Folds(F, A, base, op, N),
           NEW more, NEW G, Folds(G, A, base, more, N + 1),
           \A a \in A, n \in 1 .. N : more[<<a, n>>] = op[<<a, n>>]
    PROVE  G[1 .. N + 1] = more[<<F[1 .. N], N + 1>>]
<1>1. N \in Nat /\ N <= N + 1 /\ N + 1 \in 1 .. N + 1 /\ (N + 1) - 1 = N
  BY DEF Folds, Foldable
<1>2. G[1 .. N] = F[1 .. N]
  BY <1>1, FoldsAlike
<1>3. \A n \in 1 .. N + 1 : G[1 .. n] = more[<<G[1 .. n - 1], n>>]
  BY FoldSteps
<1> QED BY <1>1, <1>2, <1>3

-----------------------------------------------------------------------------
(* Hyprland. *)
\* The binds a configuration can have, the modifiers of their lines in mods.
BindsOver(mods) ==
    [kind : {"bind"}, flow : Flows, key : {"k"}, mods : mods, ignore : BOOLEAN,
     mode : {"default", "mode"}, device : Devices]
    \cup [kind : {"bind"}, flow : Flows, key : {"catchall", "hidden k", "hidden other"},
          mods : {"same"}, ignore : {FALSE}, mode : {"universal"}, device : {"any"}]
\* The lines of a configuration of Hyprland.
BindLines == BindsOver({"same", "other", "$m"})
HyprLines ==
    BindLines \cup [kind : {"unbind"}, mods : {"same", "other", "$m"}]
    \cup [kind : {"set"}, value : {"same", "other"}] \cup [kind : {"source"}]
\* What Hyprland has, what is said of it, and the states of its walk.
RealBinds == BindsOver({"same", "other"})
Certainties == {"no", "unresolved key", "possible device", "exact", "insensitive", "possible ignore"}
MatchRecords == [bind : RealBinds, certainty : Certainties]
Places == [found : BOOLEAN, last : {"kept", "redirected"}, processing : BOOLEAN]
PlaceSets == SUBSET Places
WalkSets == SUBSET [state : Places, marked : BOOLEAN]
MatchLists == Seq(MatchRecords)
ReachStates == [reached : Seq(MatchRecords), stopped : BOOLEAN, found : BOOLEAN]

\* The walks of whykey and of Hyprland over a list of binds.
ReachWalk(l) == FoldLeft(Reach, [reached |-> <<>>, stopped |-> FALSE, found |-> FALSE], l)
States(l) == FoldLeft(AfterBind, {Start}, l)
Walks(l, mode) ==
    FoldLeft(LAMBDA walks, b : HandleBind(walks, b, mode), {[state |-> Start, marked |-> FALSE]}, l)

\* A bind leaves the walk in a state of it.
LEMMA RunTyped ==
    ASSUME NEW s \in Places, NEW b \in RealBinds
    PROVE  Run(s, b) \subseteq Places /\ Run(s, b) # {}
<1>1. CASE RunsOnPress(b)
  <2> DEFINE After(success) ==
          [found |-> CASE b.flow.consumes = "no" -> s.found
                       [] b.flow.consumes = "auto" -> s.found \/ success
                       [] OTHER -> TRUE,
           last |-> IF b.flow.dispatcher = "pass" THEN "redirected" ELSE "kept",
           processing |-> b.flow.dispatcher # "submap"]
  <2>1. Successes(b) \subseteq BOOLEAN /\ TRUE \in Successes(b)
    BY DEF Successes
  <2>2. Run(s, b) = {After(success) : success \in Successes(b)}
    BY <1>1 DEF Run
  <2>3. \A success \in BOOLEAN : After(success) \in Places
    <3>1. \A success \in BOOLEAN :
            (CASE b.flow.consumes = "no" -> s.found
               [] b.flow.consumes = "auto" -> s.found \/ success
               [] OTHER -> TRUE) \in BOOLEAN
      BY DEF Places
    <3> QED BY <3>1 DEF Places
  <2> HIDE DEF After
  <2> QED BY <2>1, <2>2, <2>3
<1>2. CASE ~RunsOnPress(b)
  <2>1. Run(s, b) = {[s EXCEPT !.found = @ \/ (b.flow.how = "release" /\ b.flow.consumes = "yes")]}
    BY <1>2 DEF Run
  <2>2. (s.found \/ (b.flow.how = "release" /\ b.flow.consumes = "yes")) \in BOOLEAN
    OBVIOUS
  <2> QED BY <2>1, <2>2 DEF Places
<1> QED BY <1>1, <1>2

\* What takes the key stays where it is taken.
LEMMA RunStops ==
    ASSUME NEW s, NEW b, RunsOnPress(b), NEW r \in Run(s, b)
    PROVE  r.processing = (b.flow.dispatcher # "submap")
<1> DEFINE Found(success) == CASE b.flow.consumes = "no" -> s.found
                       [] b.flow.consumes = "auto" -> s.found \/ success
                       [] OTHER -> TRUE
           After(success) == [found |-> Found(success),
                              last |-> IF b.flow.dispatcher = "pass" THEN "redirected" ELSE "kept",
                              processing |-> b.flow.dispatcher # "submap"]
<1>1. Run(s, b) = {After(success) : success \in Successes(b)}
  BY DEF Run
<1> HIDE DEF Found
<1> QED BY <1>1

\* Every bind has a certainty.
LEMMA CertaintyTyped == ASSUME NEW b PROVE Certainty(b) \in Certainties
  BY DEF Certainty, Certainties

\* The states of the walk, one match after the other.
LEMMA StatesFold ==
    ASSUME NEW l \in Seq(MatchRecords)
    PROVE  /\ States(<<>>) = {Start}
           /\ States(l) \in PlaceSets
           /\ \A x \in MatchRecords : States(Append(l, x)) = AfterBind(States(l), x)
<1> DEFINE op(s) == [p \in PlaceSets \X (1 .. Len(s)) |-> AfterBind(p[1], s[p[2]])]
           Solves(s, F) == F = [t \in SUBSET DOMAIN s |->
               IF t = {} THEN {Start} ELSE AfterBind(F[t \ {Max(t)}], s[Max(t)])]
           Sol(s) == CHOOSE F : Solves(s, F)
<1>1. \A a \in PlaceSets, y \in MatchRecords : AfterBind(a, y) \in PlaceSets
  BY RunTyped DEF PlaceSets, AfterBind, MatchRecords
<1>2. {Start} \in PlaceSets
  BY DEF PlaceSets, Places, Start
<1>3. ASSUME NEW s \in Seq(MatchRecords)
      PROVE  Folds(Sol(s), PlaceSets, {Start}, op(s), Len(s))
  <2>1. Len(s) \in Nat /\ DOMAIN s = 1 .. Len(s) /\ \A i \in 1 .. Len(s) : s[i] \in MatchRecords
    OBVIOUS
  <2>2. op(s) \in [PlaceSets \X (1 .. Len(s)) -> PlaceSets]
    BY <1>1, <2>1
  <2>0. PICK f : Solved(f, PlaceSets, {Start}, op(s), Len(s))
    <3>1. Foldable(PlaceSets, {Start}, op(s), Len(s))
      <4> HIDE DEF op
      <4> QED BY <1>2, <2>1, <2>2 DEF Foldable
    <3> HIDE DEF op
    <3> QED BY <3>1, FoldExists
  <2>3. /\ f \in [SUBSET (1 .. Len(s)) -> PlaceSets]
        /\ f = [t \in SUBSET (1 .. Len(s)) |->
                     IF t = {} THEN {Start} ELSE op(s)[<<f[t \ {Max(t)}], Max(t)>>]]
    <3> HIDE DEF op
    <3> QED BY <2>0 DEF Solved
  <2>4. \A t \in SUBSET (1 .. Len(s)) : t # {} => Max(t) \in t
    BY <2>1, MaxIn
  <2>5. Solves(s, f)
    <3>1. ASSUME NEW t \in SUBSET (1 .. Len(s)), t # {}
          PROVE  op(s)[<<f[t \ {Max(t)}], Max(t)>>] = AfterBind(f[t \ {Max(t)}], s[Max(t)])
      <4>1. Max(t) \in 1 .. Len(s) /\ t \ {Max(t)} \in SUBSET (1 .. Len(s))
        BY <2>4, <3>1
      <4>2. f[t \ {Max(t)}] \in PlaceSets
        BY <2>3, <4>1
      <4> QED BY <4>1, <4>2
    <3> HIDE DEF op
    <3> QED BY <2>1, <2>3, <3>1
  <2>6. Solves(s, Sol(s))
    <3> HIDE DEF Solves
    <3> QED BY <2>5
  <2> DEFINE F == Sol(s)
  <2> HIDE DEF F
  <2>7. Solves(s, F)
    BY <2>6 DEF F
  <2>8. Folds(F, PlaceSets, {Start}, op(s), Len(s))
    <3>1. ASSUME NEW t \in SUBSET (1 .. Len(s)), t # {}, F[t \ {Max(t)}] \in PlaceSets
          PROVE  F[t] = op(s)[<<F[t \ {Max(t)}], Max(t)>>]
      <4>1. Max(t) \in 1 .. Len(s)
        BY <2>4, <3>1
      <4>2. F[t] = AfterBind(F[t \ {Max(t)}], s[Max(t)])
        BY <2>1, <2>7, <3>1
      <4> QED BY <3>1, <4>1, <4>2
    <3>2. F[{}] = {Start}
      BY <2>1, <2>7
    <3> HIDE DEF op, Solves
    <3> QED BY <1>2, <2>1, <2>2, <3>1, <3>2 DEF Folds, Foldable
  <2> QED BY <2>8 DEF F
<1>4. \A s \in Seq(MatchRecords) : States(s) = Sol(s)[DOMAIN s]
  BY DEF States, FoldLeft, MapThenFoldSet
<1>5. States(<<>>) = {Start}
  <2>1. <<>> \in Seq(MatchRecords) /\ DOMAIN <<>> = {}
    OBVIOUS
  <2>2. Sol(<<>>)[{}] = {Start}
    <3>1. Folds(Sol(<<>>), PlaceSets, {Start}, op(<<>>), Len(<<>>))
      <4> HIDE DEF Sol, op
      <4> QED BY <1>3, <2>1
    <3> HIDE DEF Sol, op
    <3> QED BY <3>1 DEF Folds
  <2> HIDE DEF Sol
  <2> QED BY <1>4, <2>1, <2>2
<1>6. States(l) \in PlaceSets
  <2>1. Len(l) \in Nat /\ DOMAIN l = 1 .. Len(l) /\ Len(l) \in 0 .. Len(l)
    OBVIOUS
  <2> DEFINE F == Sol(l)
  <2> HIDE DEF Sol, op
  <2>2. Folds(F, PlaceSets, {Start}, op(l), Len(l))
    BY <1>3
  <2> HIDE DEF F
  <2>3. F[1 .. Len(l)] \in PlaceSets
    BY <2>1, <2>2, FoldSteps
  <2> QED BY <1>4, <2>1, <2>3 DEF F
<1>7. ASSUME NEW x \in MatchRecords
      PROVE  States(Append(l, x)) = AfterBind(States(l), x)
  <2>1. l \in Seq(MatchRecords) /\ Append(l, x) \in Seq(MatchRecords) /\ Len(l) \in Nat /\ Len(Append(l, x)) = Len(l) + 1
        /\ DOMAIN l = 1 .. Len(l) /\ DOMAIN Append(l, x) = 1 .. Len(l) + 1
        /\ Append(l, x)[Len(l) + 1] = x /\ Len(l) <= Len(l) + 1
        /\ \A i \in 1 .. Len(l) : Append(l, x)[i] = l[i]
    OBVIOUS
  <2>2. \A a \in PlaceSets, n \in 1 .. Len(l) : op(Append(l, x))[<<a, n>>] = op(l)[<<a, n>>]
    BY <2>1
  <2>3. op(Append(l, x))[<<States(l), Len(l) + 1>>] = AfterBind(States(l), x)
    BY <1>6, <2>1
  <2> DEFINE F == Sol(l)
             G == Sol(Append(l, x))
  <2> HIDE DEF Sol, op
  <2>4. Folds(F, PlaceSets, {Start}, op(l), Len(l)) /\ Folds(G, PlaceSets, {Start}, op(Append(l, x)), Len(l) + 1)
    BY <1>3, <2>1
  <2> HIDE DEF F, G
  <2>5. G[1 .. Len(l) + 1] = op(Append(l, x))[<<F[1 .. Len(l)], Len(l) + 1>>]
    BY <2>1, <2>2, <2>4, FoldMore
  <2>6. States(l) = F[1 .. Len(l)] /\ States(Append(l, x)) = G[1 .. Len(l) + 1]
    BY <1>4, <2>1 DEF F, G
  <2> QED BY <2>3, <2>5, <2>6
<1> QED BY <1>5, <1>6, <1>7

\* The matches a walk can reach.
LEMMA ReachFold ==
    ASSUME NEW l \in Seq(MatchRecords)
    PROVE  /\ ReachWalk(<<>>) = [reached |-> <<>>, stopped |-> FALSE, found |-> FALSE]
           /\ ReachWalk(l) \in ReachStates
           /\ \A x \in MatchRecords : ReachWalk(Append(l, x)) = Reach(ReachWalk(l), x)
<1> DEFINE op(s) == [p \in ReachStates \X (1 .. Len(s)) |-> Reach(p[1], s[p[2]])]
           Solves(s, F) == F = [t \in SUBSET DOMAIN s |->
               IF t = {} THEN [reached |-> <<>>, stopped |-> FALSE, found |-> FALSE] ELSE Reach(F[t \ {Max(t)}], s[Max(t)])]
           Sol(s) == CHOOSE F : Solves(s, F)
<1>1. \A a \in ReachStates, y \in MatchRecords : Reach(a, y) \in ReachStates
  <2>1. \A m \in MatchRecords : Marks(m) \in BOOLEAN /\ IsCertain(m.certainty) \in BOOLEAN /\ RunsOnPress(m.bind) \in BOOLEAN
    BY DEF Marks, IsCertain, RunsOnPress
  <2> QED BY <2>1 DEF ReachStates, Reach
<1>2. [reached |-> <<>>, stopped |-> FALSE, found |-> FALSE] \in ReachStates
  BY DEF ReachStates
<1>3. ASSUME NEW s \in Seq(MatchRecords)
      PROVE  Folds(Sol(s), ReachStates, [reached |-> <<>>, stopped |-> FALSE, found |-> FALSE], op(s), Len(s))
  <2>1. Len(s) \in Nat /\ DOMAIN s = 1 .. Len(s) /\ \A i \in 1 .. Len(s) : s[i] \in MatchRecords
    OBVIOUS
  <2>2. op(s) \in [ReachStates \X (1 .. Len(s)) -> ReachStates]
    BY <1>1, <2>1
  <2>0. PICK f : Solved(f, ReachStates, [reached |-> <<>>, stopped |-> FALSE, found |-> FALSE], op(s), Len(s))
    <3>1. Foldable(ReachStates, [reached |-> <<>>, stopped |-> FALSE, found |-> FALSE], op(s), Len(s))
      <4> HIDE DEF op
      <4> QED BY <1>2, <2>1, <2>2 DEF Foldable
    <3> HIDE DEF op
    <3> QED BY <3>1, FoldExists
  <2>3. /\ f \in [SUBSET (1 .. Len(s)) -> ReachStates]
        /\ f = [t \in SUBSET (1 .. Len(s)) |->
                     IF t = {} THEN [reached |-> <<>>, stopped |-> FALSE, found |-> FALSE] ELSE op(s)[<<f[t \ {Max(t)}], Max(t)>>]]
    <3> HIDE DEF op
    <3> QED BY <2>0 DEF Solved
  <2>4. \A t \in SUBSET (1 .. Len(s)) : t # {} => Max(t) \in t
    BY <2>1, MaxIn
  <2>5. Solves(s, f)
    <3>1. ASSUME NEW t \in SUBSET (1 .. Len(s)), t # {}
          PROVE  op(s)[<<f[t \ {Max(t)}], Max(t)>>] = Reach(f[t \ {Max(t)}], s[Max(t)])
      <4>1. Max(t) \in 1 .. Len(s) /\ t \ {Max(t)} \in SUBSET (1 .. Len(s))
        BY <2>4, <3>1
      <4>2. f[t \ {Max(t)}] \in ReachStates
        BY <2>3, <4>1
      <4> QED BY <4>1, <4>2
    <3> HIDE DEF op
    <3> QED BY <2>1, <2>3, <3>1
  <2>6. Solves(s, Sol(s))
    <3> HIDE DEF Solves
    <3> QED BY <2>5
  <2> DEFINE F == Sol(s)
  <2> HIDE DEF F
  <2>7. Solves(s, F)
    BY <2>6 DEF F
  <2>8. Folds(F, ReachStates, [reached |-> <<>>, stopped |-> FALSE, found |-> FALSE], op(s), Len(s))
    <3>1. ASSUME NEW t \in SUBSET (1 .. Len(s)), t # {}, F[t \ {Max(t)}] \in ReachStates
          PROVE  F[t] = op(s)[<<F[t \ {Max(t)}], Max(t)>>]
      <4>1. Max(t) \in 1 .. Len(s)
        BY <2>4, <3>1
      <4>2. F[t] = Reach(F[t \ {Max(t)}], s[Max(t)])
        BY <2>1, <2>7, <3>1
      <4> QED BY <3>1, <4>1, <4>2
    <3>2. F[{}] = [reached |-> <<>>, stopped |-> FALSE, found |-> FALSE]
      BY <2>1, <2>7
    <3> HIDE DEF op, Solves
    <3> QED BY <1>2, <2>1, <2>2, <3>1, <3>2 DEF Folds, Foldable
  <2> QED BY <2>8 DEF F
<1>4. \A s \in Seq(MatchRecords) : ReachWalk(s) = Sol(s)[DOMAIN s]
  BY DEF ReachWalk, FoldLeft, MapThenFoldSet
<1>5. ReachWalk(<<>>) = [reached |-> <<>>, stopped |-> FALSE, found |-> FALSE]
  <2>1. <<>> \in Seq(MatchRecords) /\ DOMAIN <<>> = {}
    OBVIOUS
  <2>2. Sol(<<>>)[{}] = [reached |-> <<>>, stopped |-> FALSE, found |-> FALSE]
    <3>1. Folds(Sol(<<>>), ReachStates, [reached |-> <<>>, stopped |-> FALSE, found |-> FALSE], op(<<>>), Len(<<>>))
      <4> HIDE DEF Sol, op
      <4> QED BY <1>3, <2>1
    <3> HIDE DEF Sol, op
    <3> QED BY <3>1 DEF Folds
  <2> HIDE DEF Sol
  <2> QED BY <1>4, <2>1, <2>2
<1>6. ReachWalk(l) \in ReachStates
  <2>1. Len(l) \in Nat /\ DOMAIN l = 1 .. Len(l) /\ Len(l) \in 0 .. Len(l)
    OBVIOUS
  <2> DEFINE F == Sol(l)
  <2> HIDE DEF Sol, op
  <2>2. Folds(F, ReachStates, [reached |-> <<>>, stopped |-> FALSE, found |-> FALSE], op(l), Len(l))
    BY <1>3
  <2> HIDE DEF F
  <2>3. F[1 .. Len(l)] \in ReachStates
    BY <2>1, <2>2, FoldSteps
  <2> QED BY <1>4, <2>1, <2>3 DEF F
<1>7. ASSUME NEW x \in MatchRecords
      PROVE  ReachWalk(Append(l, x)) = Reach(ReachWalk(l), x)
  <2>1. l \in Seq(MatchRecords) /\ Append(l, x) \in Seq(MatchRecords) /\ Len(l) \in Nat /\ Len(Append(l, x)) = Len(l) + 1
        /\ DOMAIN l = 1 .. Len(l) /\ DOMAIN Append(l, x) = 1 .. Len(l) + 1
        /\ Append(l, x)[Len(l) + 1] = x /\ Len(l) <= Len(l) + 1
        /\ \A i \in 1 .. Len(l) : Append(l, x)[i] = l[i]
    OBVIOUS
  <2>2. \A a \in ReachStates, n \in 1 .. Len(l) : op(Append(l, x))[<<a, n>>] = op(l)[<<a, n>>]
    BY <2>1
  <2>3. op(Append(l, x))[<<ReachWalk(l), Len(l) + 1>>] = Reach(ReachWalk(l), x)
    BY <1>6, <2>1
  <2> DEFINE F == Sol(l)
             G == Sol(Append(l, x))
  <2> HIDE DEF Sol, op
  <2>4. Folds(F, ReachStates, [reached |-> <<>>, stopped |-> FALSE, found |-> FALSE], op(l), Len(l)) /\ Folds(G, ReachStates, [reached |-> <<>>, stopped |-> FALSE, found |-> FALSE], op(Append(l, x)), Len(l) + 1)
    BY <1>3, <2>1
  <2> HIDE DEF F, G
  <2>5. G[1 .. Len(l) + 1] = op(Append(l, x))[<<F[1 .. Len(l)], Len(l) + 1>>]
    BY <2>1, <2>2, <2>4, FoldMore
  <2>6. ReachWalk(l) = F[1 .. Len(l)] /\ ReachWalk(Append(l, x)) = G[1 .. Len(l) + 1]
    BY <1>4, <2>1 DEF F, G
  <2> QED BY <2>3, <2>5, <2>6
<1> QED BY <1>5, <1>6, <1>7

\* The binds that may take the key.
LEMMA CandidatesFold ==
    ASSUME NEW mode,
           NEW l \in Seq(RealBinds)
    PROVE  /\ BindCandidates(<<>>, mode) = <<>>
           /\ BindCandidates(l, mode) \in MatchLists
           /\ \A x \in RealBinds : BindCandidates(Append(l, x), mode) = (IF IsCandidate(x, mode) THEN Append(BindCandidates(l, mode), [bind |-> x, certainty |-> Certainty(x)]) ELSE BindCandidates(l, mode))
<1> DEFINE op(s) == [p \in MatchLists \X (1 .. Len(s)) |-> (IF IsCandidate(s[p[2]], mode) THEN Append(p[1], [bind |-> s[p[2]], certainty |-> Certainty(s[p[2]])]) ELSE p[1])]
           Solves(s, F) == F = [t \in SUBSET DOMAIN s |->
               IF t = {} THEN <<>> ELSE (IF IsCandidate(s[Max(t)], mode) THEN Append(F[t \ {Max(t)}], [bind |-> s[Max(t)], certainty |-> Certainty(s[Max(t)])]) ELSE F[t \ {Max(t)}])]
           Sol(s) == CHOOSE F : Solves(s, F)
<1>1. \A a \in MatchLists, y \in RealBinds : (IF IsCandidate(y, mode) THEN Append(a, [bind |-> y, certainty |-> Certainty(y)]) ELSE a) \in MatchLists
  <2>1. \A y \in RealBinds : [bind |-> y, certainty |-> Certainty(y)] \in MatchRecords
    BY CertaintyTyped DEF MatchRecords
  <2> QED BY <2>1 DEF MatchLists
<1>2. <<>> \in MatchLists
  BY DEF MatchLists
<1>3. ASSUME NEW s \in Seq(RealBinds)
      PROVE  Folds(Sol(s), MatchLists, <<>>, op(s), Len(s))
  <2>1. Len(s) \in Nat /\ DOMAIN s = 1 .. Len(s) /\ \A i \in 1 .. Len(s) : s[i] \in RealBinds
    OBVIOUS
  <2>2. op(s) \in [MatchLists \X (1 .. Len(s)) -> MatchLists]
    BY <1>1, <2>1
  <2>0. PICK f : Solved(f, MatchLists, <<>>, op(s), Len(s))
    <3>1. Foldable(MatchLists, <<>>, op(s), Len(s))
      <4> HIDE DEF op
      <4> QED BY <1>2, <2>1, <2>2 DEF Foldable
    <3> HIDE DEF op
    <3> QED BY <3>1, FoldExists
  <2>3. /\ f \in [SUBSET (1 .. Len(s)) -> MatchLists]
        /\ f = [t \in SUBSET (1 .. Len(s)) |->
                     IF t = {} THEN <<>> ELSE op(s)[<<f[t \ {Max(t)}], Max(t)>>]]
    <3> HIDE DEF op
    <3> QED BY <2>0 DEF Solved
  <2>4. \A t \in SUBSET (1 .. Len(s)) : t # {} => Max(t) \in t
    BY <2>1, MaxIn
  <2>5. Solves(s, f)
    <3>1. ASSUME NEW t \in SUBSET (1 .. Len(s)), t # {}
          PROVE  op(s)[<<f[t \ {Max(t)}], Max(t)>>] = (IF IsCandidate(s[Max(t)], mode) THEN Append(f[t \ {Max(t)}], [bind |-> s[Max(t)], certainty |-> Certainty(s[Max(t)])]) ELSE f[t \ {Max(t)}])
      <4>1. Max(t) \in 1 .. Len(s) /\ t \ {Max(t)} \in SUBSET (1 .. Len(s))
        BY <2>4, <3>1
      <4>2. f[t \ {Max(t)}] \in MatchLists
        BY <2>3, <4>1
      <4> QED BY <4>1, <4>2
    <3> HIDE DEF op
    <3> QED BY <2>1, <2>3, <3>1
  <2>6. Solves(s, Sol(s))
    <3> HIDE DEF Solves
    <3> QED BY <2>5
  <2> DEFINE F == Sol(s)
  <2> HIDE DEF F
  <2>7. Solves(s, F)
    BY <2>6 DEF F
  <2>8. Folds(F, MatchLists, <<>>, op(s), Len(s))
    <3>1. ASSUME NEW t \in SUBSET (1 .. Len(s)), t # {}, F[t \ {Max(t)}] \in MatchLists
          PROVE  F[t] = op(s)[<<F[t \ {Max(t)}], Max(t)>>]
      <4>1. Max(t) \in 1 .. Len(s)
        BY <2>4, <3>1
      <4>2. F[t] = (IF IsCandidate(s[Max(t)], mode) THEN Append(F[t \ {Max(t)}], [bind |-> s[Max(t)], certainty |-> Certainty(s[Max(t)])]) ELSE F[t \ {Max(t)}])
        BY <2>1, <2>7, <3>1
      <4> QED BY <3>1, <4>1, <4>2
    <3>2. F[{}] = <<>>
      BY <2>1, <2>7
    <3> HIDE DEF op, Solves
    <3> QED BY <1>2, <2>1, <2>2, <3>1, <3>2 DEF Folds, Foldable
  <2> QED BY <2>8 DEF F
<1>4. \A s \in Seq(RealBinds) : BindCandidates(s, mode) = Sol(s)[DOMAIN s]
  BY DEF BindCandidates, FoldLeft, MapThenFoldSet
<1>5. BindCandidates(<<>>, mode) = <<>>
  <2>1. <<>> \in Seq(RealBinds) /\ DOMAIN <<>> = {}
    OBVIOUS
  <2>2. Sol(<<>>)[{}] = <<>>
    <3>1. Folds(Sol(<<>>), MatchLists, <<>>, op(<<>>), Len(<<>>))
      <4> HIDE DEF Sol, op
      <4> QED BY <1>3, <2>1
    <3> HIDE DEF Sol, op
    <3> QED BY <3>1 DEF Folds
  <2> HIDE DEF Sol
  <2> QED BY <1>4, <2>1, <2>2
<1>6. BindCandidates(l, mode) \in MatchLists
  <2>1. Len(l) \in Nat /\ DOMAIN l = 1 .. Len(l) /\ Len(l) \in 0 .. Len(l)
    OBVIOUS
  <2> DEFINE F == Sol(l)
  <2> HIDE DEF Sol, op
  <2>2. Folds(F, MatchLists, <<>>, op(l), Len(l))
    BY <1>3
  <2> HIDE DEF F
  <2>3. F[1 .. Len(l)] \in MatchLists
    BY <2>1, <2>2, FoldSteps
  <2> QED BY <1>4, <2>1, <2>3 DEF F
<1>7. ASSUME NEW x \in RealBinds
      PROVE  BindCandidates(Append(l, x), mode) = (IF IsCandidate(x, mode) THEN Append(BindCandidates(l, mode), [bind |-> x, certainty |-> Certainty(x)]) ELSE BindCandidates(l, mode))
  <2>1. l \in Seq(RealBinds) /\ Append(l, x) \in Seq(RealBinds) /\ Len(l) \in Nat /\ Len(Append(l, x)) = Len(l) + 1
        /\ DOMAIN l = 1 .. Len(l) /\ DOMAIN Append(l, x) = 1 .. Len(l) + 1
        /\ Append(l, x)[Len(l) + 1] = x /\ Len(l) <= Len(l) + 1
        /\ \A i \in 1 .. Len(l) : Append(l, x)[i] = l[i]
    OBVIOUS
  <2>2. \A a \in MatchLists, n \in 1 .. Len(l) : op(Append(l, x))[<<a, n>>] = op(l)[<<a, n>>]
    BY <2>1
  <2>3. op(Append(l, x))[<<BindCandidates(l, mode), Len(l) + 1>>] = (IF IsCandidate(x, mode) THEN Append(BindCandidates(l, mode), [bind |-> x, certainty |-> Certainty(x)]) ELSE BindCandidates(l, mode))
    BY <1>6, <2>1
  <2> DEFINE F == Sol(l)
             G == Sol(Append(l, x))
  <2> HIDE DEF Sol, op
  <2>4. Folds(F, MatchLists, <<>>, op(l), Len(l)) /\ Folds(G, MatchLists, <<>>, op(Append(l, x)), Len(l) + 1)
    BY <1>3, <2>1
  <2> HIDE DEF F, G
  <2>5. G[1 .. Len(l) + 1] = op(Append(l, x))[<<F[1 .. Len(l)], Len(l) + 1>>]
    BY <2>1, <2>2, <2>4, FoldMore
  <2>6. BindCandidates(l, mode) = F[1 .. Len(l)] /\ BindCandidates(Append(l, x), mode) = G[1 .. Len(l) + 1]
    BY <1>4, <2>1 DEF F, G
  <2> QED BY <2>3, <2>5, <2>6
<1> QED BY <1>5, <1>6, <1>7

\* The walks of handleKeybinds.
LEMMA WalksFold ==
    ASSUME NEW mode,
           NEW l \in Seq(RealBinds)
    PROVE  /\ Walks(<<>>, mode) = {[state |-> Start, marked |-> FALSE]}
           /\ Walks(l, mode) \in WalkSets
           /\ \A x \in RealBinds : Walks(Append(l, x), mode) = HandleBind(Walks(l, mode), x, mode)
<1> DEFINE op(s) == [p \in WalkSets \X (1 .. Len(s)) |-> HandleBind(p[1], s[p[2]], mode)]
           Solves(s, F) == F = [t \in SUBSET DOMAIN s |->
               IF t = {} THEN {[state |-> Start, marked |-> FALSE]} ELSE HandleBind(F[t \ {Max(t)}], s[Max(t)], mode)]
           Sol(s) == CHOOSE F : Solves(s, F)
<1>1. \A a \in WalkSets, y \in RealBinds : HandleBind(a, y, mode) \in WalkSets
  <2>1. \A b : Marks([bind |-> b]) \in BOOLEAN
    BY DEF Marks
  <2>2. ASSUME NEW a \in WalkSets, NEW y \in RealBinds, NEW w \in a
        PROVE  {[state |-> s, marked |-> w.marked \/ Marks([bind |-> y])] : s \in Run(w.state, y)}
                   \in WalkSets
    <3>1. w \in [state : Places, marked : BOOLEAN]
      BY DEF WalkSets
    <3>2. (w.marked \/ Marks([bind |-> y])) \in BOOLEAN
      OBVIOUS
    <3>3. w.state \in Places
      BY <3>1
    <3> DEFINE marked == w.marked \/ Marks([bind |-> y])
    <3> HIDE DEF marked
    <3>4. \A s \in Run(w.state, y) :
            [state |-> s, marked |-> marked] \in [state : Places, marked : BOOLEAN]
      <4>1. marked \in BOOLEAN
        BY <3>2 DEF marked
      <4>2. \A s \in Run(w.state, y) : s \in Places
        BY <3>3, RunTyped
      <4> QED BY <4>1, <4>2
    <3>5. {[state |-> s, marked |-> marked] : s \in Run(w.state, y)} \in WalkSets
      BY <3>4 DEF WalkSets
    <3> QED BY <3>5 DEF marked
  <2> QED BY <2>2 DEF WalkSets, HandleBind
<1>2. {[state |-> Start, marked |-> FALSE]} \in WalkSets
  BY DEF WalkSets, Places, Start
<1>3. ASSUME NEW s \in Seq(RealBinds)
      PROVE  Folds(Sol(s), WalkSets, {[state |-> Start, marked |-> FALSE]}, op(s), Len(s))
  <2>1. Len(s) \in Nat /\ DOMAIN s = 1 .. Len(s) /\ \A i \in 1 .. Len(s) : s[i] \in RealBinds
    OBVIOUS
  <2>2. op(s) \in [WalkSets \X (1 .. Len(s)) -> WalkSets]
    BY <1>1, <2>1
  <2>0. PICK f : Solved(f, WalkSets, {[state |-> Start, marked |-> FALSE]}, op(s), Len(s))
    <3>1. Foldable(WalkSets, {[state |-> Start, marked |-> FALSE]}, op(s), Len(s))
      <4> HIDE DEF op
      <4> QED BY <1>2, <2>1, <2>2 DEF Foldable
    <3> HIDE DEF op
    <3> QED BY <3>1, FoldExists
  <2>3. /\ f \in [SUBSET (1 .. Len(s)) -> WalkSets]
        /\ f = [t \in SUBSET (1 .. Len(s)) |->
                     IF t = {} THEN {[state |-> Start, marked |-> FALSE]} ELSE op(s)[<<f[t \ {Max(t)}], Max(t)>>]]
    <3> HIDE DEF op
    <3> QED BY <2>0 DEF Solved
  <2>4. \A t \in SUBSET (1 .. Len(s)) : t # {} => Max(t) \in t
    BY <2>1, MaxIn
  <2>5. Solves(s, f)
    <3>1. ASSUME NEW t \in SUBSET (1 .. Len(s)), t # {}
          PROVE  op(s)[<<f[t \ {Max(t)}], Max(t)>>] = HandleBind(f[t \ {Max(t)}], s[Max(t)], mode)
      <4>1. Max(t) \in 1 .. Len(s) /\ t \ {Max(t)} \in SUBSET (1 .. Len(s))
        BY <2>4, <3>1
      <4>2. f[t \ {Max(t)}] \in WalkSets
        BY <2>3, <4>1
      <4> QED BY <4>1, <4>2
    <3> HIDE DEF op
    <3> QED BY <2>1, <2>3, <3>1
  <2>6. Solves(s, Sol(s))
    <3> HIDE DEF Solves
    <3> QED BY <2>5
  <2> DEFINE F == Sol(s)
  <2> HIDE DEF F
  <2>7. Solves(s, F)
    BY <2>6 DEF F
  <2>8. Folds(F, WalkSets, {[state |-> Start, marked |-> FALSE]}, op(s), Len(s))
    <3>1. ASSUME NEW t \in SUBSET (1 .. Len(s)), t # {}, F[t \ {Max(t)}] \in WalkSets
          PROVE  F[t] = op(s)[<<F[t \ {Max(t)}], Max(t)>>]
      <4>1. Max(t) \in 1 .. Len(s)
        BY <2>4, <3>1
      <4>2. F[t] = HandleBind(F[t \ {Max(t)}], s[Max(t)], mode)
        BY <2>1, <2>7, <3>1
      <4> QED BY <3>1, <4>1, <4>2
    <3>2. F[{}] = {[state |-> Start, marked |-> FALSE]}
      BY <2>1, <2>7
    <3> HIDE DEF op, Solves
    <3> QED BY <1>2, <2>1, <2>2, <3>1, <3>2 DEF Folds, Foldable
  <2> QED BY <2>8 DEF F
<1>4. \A s \in Seq(RealBinds) : Walks(s, mode) = Sol(s)[DOMAIN s]
  BY DEF Walks, FoldLeft, MapThenFoldSet
<1>5. Walks(<<>>, mode) = {[state |-> Start, marked |-> FALSE]}
  <2>1. <<>> \in Seq(RealBinds) /\ DOMAIN <<>> = {}
    OBVIOUS
  <2>2. Sol(<<>>)[{}] = {[state |-> Start, marked |-> FALSE]}
    <3>1. Folds(Sol(<<>>), WalkSets, {[state |-> Start, marked |-> FALSE]}, op(<<>>), Len(<<>>))
      <4> HIDE DEF Sol, op
      <4> QED BY <1>3, <2>1
    <3> HIDE DEF Sol, op
    <3> QED BY <3>1 DEF Folds
  <2> HIDE DEF Sol
  <2> QED BY <1>4, <2>1, <2>2
<1>6. Walks(l, mode) \in WalkSets
  <2>1. Len(l) \in Nat /\ DOMAIN l = 1 .. Len(l) /\ Len(l) \in 0 .. Len(l)
    OBVIOUS
  <2> DEFINE F == Sol(l)
  <2> HIDE DEF Sol, op
  <2>2. Folds(F, WalkSets, {[state |-> Start, marked |-> FALSE]}, op(l), Len(l))
    BY <1>3
  <2> HIDE DEF F
  <2>3. F[1 .. Len(l)] \in WalkSets
    BY <2>1, <2>2, FoldSteps
  <2> QED BY <1>4, <2>1, <2>3 DEF F
<1>7. ASSUME NEW x \in RealBinds
      PROVE  Walks(Append(l, x), mode) = HandleBind(Walks(l, mode), x, mode)
  <2>1. l \in Seq(RealBinds) /\ Append(l, x) \in Seq(RealBinds) /\ Len(l) \in Nat /\ Len(Append(l, x)) = Len(l) + 1
        /\ DOMAIN l = 1 .. Len(l) /\ DOMAIN Append(l, x) = 1 .. Len(l) + 1
        /\ Append(l, x)[Len(l) + 1] = x /\ Len(l) <= Len(l) + 1
        /\ \A i \in 1 .. Len(l) : Append(l, x)[i] = l[i]
    OBVIOUS
  <2>2. \A a \in WalkSets, n \in 1 .. Len(l) : op(Append(l, x))[<<a, n>>] = op(l)[<<a, n>>]
    BY <2>1
  <2>3. op(Append(l, x))[<<Walks(l, mode), Len(l) + 1>>] = HandleBind(Walks(l, mode), x, mode)
    BY <1>6, <2>1
  <2> DEFINE F == Sol(l)
             G == Sol(Append(l, x))
  <2> HIDE DEF Sol, op
  <2>4. Folds(F, WalkSets, {[state |-> Start, marked |-> FALSE]}, op(l), Len(l)) /\ Folds(G, WalkSets, {[state |-> Start, marked |-> FALSE]}, op(Append(l, x)), Len(l) + 1)
    BY <1>3, <2>1
  <2> HIDE DEF F, G
  <2>5. G[1 .. Len(l) + 1] = op(Append(l, x))[<<F[1 .. Len(l)], Len(l) + 1>>]
    BY <2>1, <2>2, <2>4, FoldMore
  <2>6. Walks(l, mode) = F[1 .. Len(l)] /\ Walks(Append(l, x), mode) = G[1 .. Len(l) + 1]
    BY <1>4, <2>1 DEF F, G
  <2> QED BY <2>3, <2>5, <2>6
<1> QED BY <1>5, <1>6, <1>7

\* Every walk of handleKeybinds is in a state that whykey counts with.
IsFollowed(l, mode) ==
    LET sofar == ReachWalk(BindCandidates(l, mode)) IN
    /\ Walks(l, mode) # {}
    /\ \A w \in Walks(l, mode) :
          /\ w.state \in States(sofar.reached)
          /\ sofar.stopped => ~w.state.processing
          /\ sofar.found => w.marked \/ ~w.state.processing
          /\ w.marked => \/ sofar.found \/ sofar.stopped
                         \/ \E i \in DOMAIN l : Marks([bind |-> l[i]]) /\ ~IsCertain(Certainty(l[i]))

\* A bind that takes the key may take it, and one that certainly may does.
IsJudged(b, mode) ==
    /\ ReallyTakes(b, mode) => IsCandidate(b, mode)
    /\ IsActive(b, mode) /\ IsCertain(Certainty(b)) => ReallyTakes(b, mode)

\* One bind more is followed too.
LEMMA FollowedStep ==
    ASSUME NEW mode, NEW l \in Seq(RealBinds), NEW b \in RealBinds,
           IsFollowed(l, mode), IsJudged(b, mode),
           b.key = "catchall" => \A i \in DOMAIN l :
               ~ (Marks([bind |-> l[i]]) /\ ~IsCertain(Certainty(l[i])))
    PROVE  IsFollowed(Append(l, b), mode)
<1> DEFINE C == BindCandidates(l, mode)
           R == ReachWalk(C)
           m == [bind |-> b, certainty |-> Certainty(b)]
           W == Walks(l, mode)
           V == Walks(Append(l, b), mode)
           Q == ReachWalk(BindCandidates(Append(l, b), mode))
           Unsure(k) == \E i \in DOMAIN k : Marks([bind |-> k[i]]) /\ ~IsCertain(Certainty(k[i]))
<1>1. /\ C \in Seq(MatchRecords) /\ m \in MatchRecords
      /\ BindCandidates(Append(l, b), mode) = IF IsCandidate(b, mode) THEN Append(C, m) ELSE C
  BY CandidatesFold, CertaintyTyped DEF MatchLists, MatchRecords
<1>2. /\ R \in ReachStates
      /\ Q = IF IsCandidate(b, mode) THEN Reach(R, m) ELSE R
  BY <1>1, ReachFold
<1>3. W \in WalkSets /\ V = HandleBind(W, b, mode)
  BY WalksFold
<1>4. /\ R.reached \in Seq(MatchRecords)
      /\ States(R.reached) \in PlaceSets
      /\ States(Append(R.reached, m)) = AfterBind(States(R.reached), m)
  BY <1>1, <1>2, StatesFold DEF ReachStates
<1>5. Marks(m) = Marks([bind |-> b]) /\ m.bind = b /\ m.certainty = Certainty(b)
  BY DEF Marks
<1>6. Unsure(l) => Unsure(Append(l, b))
  <2>1. \A i \in DOMAIN l : i \in DOMAIN Append(l, b) /\ Append(l, b)[i] = l[i]
    OBVIOUS
  <2> QED BY <2>1
<1>7. Marks([bind |-> b]) /\ ~IsCertain(Certainty(b)) => Unsure(Append(l, b))
  <2>1. Len(l) + 1 \in DOMAIN Append(l, b) /\ Append(l, b)[Len(l) + 1] = b
    OBVIOUS
  <2> QED BY <2>1
<1> DEFINE Told(w, r, k) ==
        /\ w.state \in States(r.reached)
        /\ r.stopped => ~w.state.processing
        /\ r.found => w.marked \/ ~w.state.processing
        /\ w.marked => r.found \/ r.stopped \/ k
<1>8. W # {} /\ \A w \in W : Told(w, R, Unsure(l))
  BY DEF IsFollowed
<1>9. SUFFICES V # {} /\ \A w \in V : Told(w, Q, Unsure(Append(l, b)))
  BY DEF IsFollowed
<1> HIDE DEF C, R, m, W, V, Q, Unsure
<1>10. \A w \in W : w \in [state : Places, marked : BOOLEAN]
  BY <1>3 DEF WalkSets
<1>11. CASE ~IsCandidate(b, mode)
  <2>1. V = W /\ Q = R
    BY <1>2, <1>3, <1>11 DEF IsJudged, HandleBind
  <2> QED BY <1>6, <1>8, <2>1
<1>12. CASE IsCandidate(b, mode) /\ (R.stopped \/ (R.found /\ b.key = "catchall"))
  <2>1. Q = R
    BY <1>2, <1>5, <1>12 DEF Reach
  <2>2. \A w \in W : (w.marked /\ b.key = "catchall") \/ ~w.state.processing
    BY <1>8, <1>12
  <2>3. V = W
    BY <1>3, <2>2 DEF HandleBind
  <2> QED BY <1>6, <1>8, <2>1, <2>3
<1>13. CASE IsCandidate(b, mode) /\ ~ (R.stopped \/ (R.found /\ b.key = "catchall"))
  <2>1. /\ Q.reached = Append(R.reached, m)
        /\ Q.stopped = (IsCertain(Certainty(b)) /\ b.flow.dispatcher = "submap" /\ RunsOnPress(b))
        /\ Q.found = (R.found \/ (IsCertain(Certainty(b)) /\ Marks([bind |-> b])))
    BY <1>2, <1>5, <1>13 DEF Reach
  <2> DEFINE S == States(R.reached)
             T == States(Q.reached)
  <2>2. T = (IF IsCertain(Certainty(b)) THEN {} ELSE S)
            \cup UNION {IF s.processing THEN Run(s, b) ELSE {s} : s \in S}
    BY <1>4, <1>5, <2>1 DEF AfterBind
  <2>3. IsActive(b, mode)
    BY <1>13 DEF IsCandidate
  <2> HIDE DEF S, T
  <2>4. CASE ~ReallyTakes(b, mode)
    <3>1. ~IsCertain(Certainty(b))
      BY <2>3, <2>4 DEF IsJudged
    <3>2. V = W /\ S \subseteq T /\ (Q.found <=> R.found) /\ ~Q.stopped /\ ~R.stopped
      <4>1. V = W
        BY <1>3, <2>4 DEF HandleBind
      <4>2. S \subseteq T
        BY <2>2, <3>1
      <4>3. (Q.found <=> R.found) /\ ~Q.stopped /\ ~R.stopped
        BY <1>13, <2>1, <3>1
      <4> QED BY <4>1, <4>2, <4>3
    <3> QED BY <1>6, <1>8, <3>2 DEF S, T
  <2>5. CASE ReallyTakes(b, mode)
    <3>1. \A w \in W : b.key = "catchall" => ~w.marked
      BY <1>8, <1>13 DEF Unsure
    <3> DEFINE NextOf(w) == IF ~w.state.processing THEN {w}
                 ELSE {[state |-> s, marked |-> w.marked \/ Marks([bind |-> b])] : s \in Run(w.state, b)}
    <3>2. V = UNION {NextOf(w) : w \in W}
      BY <1>3, <2>5, <3>1 DEF HandleBind
    <3>3. ASSUME NEW w \in W
          PROVE  NextOf(w) # {} /\ \A v \in NextOf(w) : Told(v, Q, Unsure(Append(l, b)))
      <4>1. w.state \in S /\ w.state \in Places /\ w.marked \in BOOLEAN
        BY <1>8, <1>10 DEF S
      <4>2. CASE ~w.state.processing
        <5>1. NextOf(w) = {w}
          BY <4>2
        <5>2. w.state \in T
          BY <2>2, <4>1, <4>2
        <5> HIDE DEF NextOf
        <5> QED BY <1>6, <1>8, <1>13, <2>1, <4>2, <5>1, <5>2 DEF T
      <4>3. CASE w.state.processing
        <5>1. Run(w.state, b) # {} /\ Run(w.state, b) \subseteq T
          BY <2>2, <4>1, <4>3, RunTyped
        <5>2. NextOf(w) = {[state |-> s, marked |-> w.marked \/ Marks([bind |-> b])] : s \in Run(w.state, b)}
          BY <4>3
        <5> HIDE DEF NextOf
        <5>3. ASSUME NEW s \in Run(w.state, b)
              PROVE  Told([state |-> s, marked |-> w.marked \/ Marks([bind |-> b])], Q, Unsure(Append(l, b)))
          <6>1. Q.stopped => ~s.processing
            <7>1. RunsOnPress(b) => s.processing = (b.flow.dispatcher # "submap")
              BY RunStops
            <7>2. Q.stopped => RunsOnPress(b) /\ b.flow.dispatcher = "submap"
              BY <2>1
            <7> QED BY <7>1, <7>2
          <6>2. Q.found => w.marked \/ Marks([bind |-> b])
            BY <1>8, <2>1, <4>3
          <6>3. w.marked \/ Marks([bind |-> b]) => Q.found \/ Q.stopped \/ Unsure(Append(l, b))
            BY <1>6, <1>7, <1>8, <1>13, <2>1
          <6> QED BY <5>1, <6>1, <6>2, <6>3 DEF T
        <5> QED BY <5>1, <5>2, <5>3
      <4> QED BY <4>2, <4>3
    <3> HIDE DEF NextOf
    <3> QED BY <1>8, <3>2, <3>3
  <2> QED BY <2>4, <2>5
<1> QED BY <1>11, <1>12, <1>13

\* The walk of whykey follows the walks of Hyprland over all binds.
LEMMA AllFollowed ==
    ASSUME NEW mode, NEW P \in Seq(RealBinds),
           \A i \in DOMAIN P : IsJudged(P[i], mode),
           \A i, j \in DOMAIN P : i < j /\ P[j].key = "catchall" =>
               ~ (Marks([bind |-> P[i]]) /\ ~IsCertain(Certainty(P[i])))
    PROVE  IsFollowed(P, mode)
<1> DEFINE S == {n \in Nat : n <= Len(P) => IsFollowed(SubSeq(P, 1, n), mode)}
<1>1. Len(P) \in Nat /\ DOMAIN P = 1 .. Len(P) /\ \A i \in 1 .. Len(P) : P[i] \in RealBinds
  OBVIOUS
<1>2. 0 \in S
  <2>1. SubSeq(P, 1, 0) = <<>>
    OBVIOUS
  <2>2. <<>> \in Seq(RealBinds) /\ <<>> \in Seq(MatchRecords)
    OBVIOUS
  <2>3. Walks(<<>>, mode) = {[state |-> Start, marked |-> FALSE]}
    BY <2>2, WalksFold
  <2>4. ReachWalk(BindCandidates(<<>>, mode)) = [reached |-> <<>>, stopped |-> FALSE, found |-> FALSE]
    BY <2>2, CandidatesFold, ReachFold
  <2>5. States(<<>>) = {Start}
    BY <2>2, StatesFold
  <2>6. IsFollowed(<<>>, mode)
    <3> DEFINE R == ReachWalk(BindCandidates(<<>>, mode))
    <3>1. R.reached = <<>> /\ ~R.stopped /\ ~R.found
      BY <2>4
    <3> HIDE DEF R
    <3>2. \A w \in Walks(<<>>, mode) : w.state = Start /\ ~w.marked
      BY <2>3
    <3>3. \A w \in Walks(<<>>, mode) : w.state \in States(R.reached)
      BY <2>5, <3>1, <3>2
    <3>4. Walks(<<>>, mode) # {}
      BY <2>3
    <3> QED BY <3>1, <3>2, <3>3, <3>4 DEF IsFollowed, R
  <2> QED BY <2>1, <2>6
<1>3. ASSUME NEW n \in Nat, n \in S PROVE n + 1 \in S
  <2>1. SUFFICES ASSUME n + 1 <= Len(P) PROVE IsFollowed(SubSeq(P, 1, n + 1), mode)
    OBVIOUS
  <2> DEFINE l == SubSeq(P, 1, n)
             b == P[n + 1]
  <2>2. l \in Seq(RealBinds) /\ b \in RealBinds /\ SubSeq(P, 1, n + 1) = Append(l, b)
        /\ n + 1 \in DOMAIN P /\ DOMAIN l = 1 .. n
        /\ \A i \in 1 .. n : l[i] = P[i] /\ i \in DOMAIN P /\ i < n + 1
    BY <1>1, <2>1
  <2>3. IsFollowed(l, mode)
    BY <1>1, <1>3, <2>1
  <2> HIDE DEF l, b
  <2>4. IsJudged(b, mode)
    BY <2>2 DEF b
  <2>5. b.key = "catchall" => \A i \in DOMAIN l :
            ~ (Marks([bind |-> l[i]]) /\ ~IsCertain(Certainty(l[i])))
    BY <2>2 DEF b
  <2>6. IsFollowed(Append(l, b), mode)
    BY <2>2, <2>3, <2>4, <2>5, FollowedStep
  <2> QED BY <2>2, <2>6
<1>4. Nat \subseteq S
  <2> HIDE DEF S
  <2> QED BY <1>2, <1>3, AllNaturals
<1>5. SubSeq(P, 1, Len(P)) = P
  BY <1>1
<1>6. Len(P) \in S /\ Len(P) <= Len(P)
  <2> HIDE DEF S
  <2> QED BY <1>1, <1>4
<1> QED BY <1>5, <1>6

\* A single outcome of the states whykey counts with is what Hyprland does.
LEMMA FollowedIsSound ==
    ASSUME NEW mode, NEW P \in Seq(RealBinds), IsFollowed(P, mode),
           probe.binds = P, probe.submap = mode
    PROVE  CASE Verdict = "Indeterminate" -> TRUE
             [] Verdict = "Pass" -> HandleKeybinds(P, mode) = {"Continues"}
             [] OTHER -> HandleKeybinds(P, mode) = {Verdict}
<1> DEFINE R == ReachWalk(BindCandidates(P, mode))
           outcomes == {Propagates(s) : s \in States(R.reached)}
<1>1. /\ Walks(P, mode) # {}
      /\ \A w \in Walks(P, mode) : w.state \in States(R.reached)
  BY DEF IsFollowed
<1>2. HandleKeybinds(P, mode) = {Propagates(w.state) : w \in Walks(P, mode)}
  BY DEF HandleKeybinds, Walks
<1>3. ReachableMatches(BindCandidates(P, mode)) = R.reached
  BY DEF ReachableMatches, ReachWalk
<1>4. BindingPropagation(R.reached) =
        IF Cardinality(outcomes) = 1 THEN CHOOSE o \in outcomes : TRUE ELSE "Indeterminate"
  BY DEF BindingPropagation, States
<1>5. Verdict = IF R.reached = <<>> THEN "Pass" ELSE BindingPropagation(R.reached)
  BY <1>3 DEF Verdict
<1> HIDE DEF R
<1>6. outcomes \subseteq {"Redirected", "Continues", "Stops"}
  BY DEF Propagates
<1>7. HandleKeybinds(P, mode) # {} /\ HandleKeybinds(P, mode) \subseteq outcomes
  BY <1>1, <1>2
<1>8. CASE R.reached = <<>>
  <2>1. States(<<>>) = {Start}
    <3>1. <<>> \in Seq(MatchRecords)
      OBVIOUS
    <3> QED BY <3>1, StatesFold
  <2>2. outcomes = {"Continues"}
    <3>1. Propagates(Start) = "Continues"
      BY DEF Propagates, Start
    <3> QED BY <1>8, <2>1, <3>1
  <2> QED BY <1>5, <1>7, <1>8, <2>2
<1>9. CASE R.reached # <<>> /\ Cardinality(outcomes) = 1
  <2> HIDE DEF outcomes
  <2>1. IsFiniteSet(outcomes)
    <3>1. IsFiniteSet({"Redirected"}) /\ IsFiniteSet({"Continues"}) /\ IsFiniteSet({"Stops"})
      BY FS_Singleton
    <3>2. IsFiniteSet({"Redirected"} \cup {"Continues"} \cup {"Stops"})
      BY <3>1, FS_Union
    <3>3. outcomes \subseteq {"Redirected"} \cup {"Continues"} \cup {"Stops"}
      BY <1>6
    <3> QED BY <3>2, <3>3, FS_Subset
  <2>2. PICK o : outcomes = {o}
    BY <1>9, <2>1, FS_Singleton
  <2>3. Verdict = o /\ o # "Indeterminate" /\ o # "Pass"
    BY <1>4, <1>5, <1>6, <1>9, <2>2
  <2> QED BY <1>7, <2>2, <2>3
<1>10. CASE R.reached # <<>> /\ Cardinality(outcomes) # 1
  BY <1>4, <1>5, <1>10
<1> QED BY <1>8, <1>9, <1>10

\* A set of numbers has a least one.
LEMMA MinIn ==
    ASSUME NEW t \in SUBSET Nat, t # {}
    PROVE  Min(t) \in t /\ \A y \in t : Min(t) <= y
BY LeastNatural DEF Min

\* The elements of two sequences, one after the other.
LEMMA ConcatElements ==
    ASSUME NEW X, NEW a \in Seq(X), NEW b \in Seq(X)
    PROVE  /\ a \o b \in Seq(X)
           /\ ToSet(a \o b) = ToSet(a) \cup ToSet(b)
<1> DEFINE c == a \o b
<1>1. /\ c \in Seq(X) /\ Len(a) \in Nat /\ Len(b) \in Nat /\ DOMAIN a = 1 .. Len(a) /\ DOMAIN b = 1 .. Len(b)
      /\ DOMAIN c = 1 .. Len(a) + Len(b)
      /\ \A i \in 1 .. Len(a) + Len(b) : c[i] = IF i <= Len(a) THEN a[i] ELSE b[i - Len(a)]
  OBVIOUS
<1> HIDE DEF c
<1>2. ASSUME NEW i \in DOMAIN a PROVE i \in DOMAIN c /\ c[i] = a[i]
  BY <1>1
<1>3. ASSUME NEW i \in DOMAIN b PROVE Len(a) + i \in DOMAIN c /\ c[Len(a) + i] = b[i]
  <2>1. Len(a) + i \in 1 .. Len(a) + Len(b) /\ ~ (Len(a) + i <= Len(a)) /\ (Len(a) + i) - Len(a) = i
    BY <1>1
  <2> QED BY <1>1, <2>1
<1>4. ASSUME NEW i \in DOMAIN c
      PROVE  (\E j \in DOMAIN a : a[j] = c[i]) \/ (\E j \in DOMAIN b : b[j] = c[i])
  <2>1. CASE i <= Len(a)
    BY <1>1, <2>1
  <2>2. CASE ~ (i <= Len(a))
    <3>1. i - Len(a) \in 1 .. Len(b)
      BY <1>1, <2>2
    <3> QED BY <1>1, <2>2, <3>1
  <2> QED BY <2>1, <2>2
<1>5. ToSet(c) = ToSet(a) \cup ToSet(b)
  BY <1>2, <1>3, <1>4 DEF ToSet
<1> QED BY <1>1, <1>5 DEF c

\* The elements of a sequence that is cut in two.
LEMMA CutElements ==
    ASSUME NEW X, NEW c \in Seq(X), NEW f \in 0 .. Len(c)
    PROVE  LET A == SubSeq(c, 1, f)
               B == SubSeq(c, f + 1, Len(c)) IN
           /\ A \in Seq(X) /\ B \in Seq(X)
           /\ ToSet(c) \subseteq ToSet(A) \cup ToSet(B)
<1> DEFINE A == SubSeq(c, 1, f)
           B == SubSeq(c, f + 1, Len(c))
<1>1. Len(c) \in Nat /\ DOMAIN c = 1 .. Len(c) /\ f \in Nat /\ f <= Len(c)
  OBVIOUS
<1>2. A \in Seq(X) /\ DOMAIN A = 1 .. f /\ \A i \in 1 .. f : A[i] = c[i]
  BY <1>1
<1>3. B \in Seq(X) /\ DOMAIN B = 1 .. Len(c) - f /\ \A i \in 1 .. Len(c) - f : B[i] = c[f + i]
  <2> DEFINE m == f + 1
  <2>1. m \in Int /\ Len(c) \in Int /\ \A i \in m .. Len(c) : c[i] \in X
    BY <1>1
  <2>2. /\ (IF m <= Len(c) THEN Len(c) - m + 1 ELSE 0) = Len(c) - f
        /\ Len(c) - m + 1 = Len(c) - f /\ \A i \in 1 .. Len(c) - f : m + i - 1 = f + i
    <3>1. Len(c) - m + 1 = Len(c) - f
      BY <1>1
    <3>2. \A i \in 1 .. Len(c) - f : m + i - 1 = f + i
      BY <1>1
    <3>3. CASE m <= Len(c)
      BY <3>1, <3>2, <3>3
    <3>4. CASE ~ (m <= Len(c))
      <4> DEFINE n == Len(c)
      <4>0. n \in Nat /\ f \in Nat /\ f <= n /\ ~ (f + 1 <= n)
        BY <1>1, <3>4
      <4> HIDE DEF n
      <4>2. n - f = 0
        BY <4>0
      <4>1. Len(c) - f = 0
        BY <4>2 DEF n
      <4> QED BY <3>1, <3>2, <3>4, <4>1
    <3> QED BY <3>3, <3>4
  <2> HIDE DEF m
  <2>3. /\ SubSeq(c, m, Len(c)) \in Seq(X)
        /\ Len(SubSeq(c, m, Len(c))) = IF m <= Len(c) THEN Len(c) - m + 1 ELSE 0
        /\ \A i \in 1 .. Len(c) - m + 1 : SubSeq(c, m, Len(c))[i] = c[m + i - 1]
    BY <2>1, SubSeqProperties
  <2>4. SubSeq(c, m, Len(c)) = B
    BY DEF m
  <2> HIDE DEF B
  <2>5. B \in Seq(X) /\ Len(B) = Len(c) - f /\ \A i \in 1 .. Len(c) - f : B[i] = c[f + i]
    BY <2>2, <2>3, <2>4
  <2> QED BY <2>5
<1> HIDE DEF A, B
<1>4. ASSUME NEW i \in DOMAIN c
      PROVE  (\E j \in DOMAIN A : A[j] = c[i]) \/ (\E j \in DOMAIN B : B[j] = c[i])
  <2>1. CASE i <= f
    BY <1>1, <1>2, <2>1
  <2>2. CASE i > f
    <3>1. i - f \in 1 .. Len(c) - f /\ f + (i - f) = i
      BY <1>1, <2>2
    <3> QED BY <1>3, <3>1
  <2> QED BY <1>1, <2>1, <2>2
<1> QED BY <1>2, <1>3, <1>4 DEF A, B, ToSet

\* What a configuration and its hints are made of, if the binds that ignore modifiers are in I.
BindsWith(mods, I) == {b \in BindsOver(mods) : b.ignore \in I}
AllMods == {"same", "other", "$m"}
RealMods == {"same", "other"}
OtherLines == [kind : {"unbind"}, mods : AllMods] \cup [kind : {"set"}, value : RealMods]
LinesOver(I) ==
    BindsWith(AllMods, I) \cup OtherLines
    \cup {l \in {[kind |-> "source"]} : extra \in Seq(BindsWith(RealMods, I))}
Entries(I) == BindsWith(AllMods, I) \cup OtherLines \cup {[kind |-> "source"]}
BindLists(I) == Seq(BindsWith(RealMods, I))
ConfigStates(I) == [value : {"unset"} \cup RealMods, binds : BindLists(I)]
HintLists(value, I) == Seq([mods : RealMods \cup {value}, ignore : I])
\* The state after the lines of a configuration, and the hints of lines.
ConfigWalk(lines) == FoldLeft(WithLine, [value |-> "unset", binds |-> <<>>], lines)
HintsOf(value, lines) == FoldLeft(LAMBDA hints, line : WithHint(value, hints, line), <<>>, lines)

\* Some elements are left out of a sequence.
LEMMA WithoutFold ==
    ASSUME NEW removed,
           NEW H,
           NEW l \in Seq(H)
    PROVE  /\ Without(<<>>, removed) = <<>>
           /\ Without(l, removed) \in Seq(H)
           /\ \A x \in H : Without(Append(l, x), removed) = (IF x \in removed THEN Without(l, removed) ELSE Append(Without(l, removed), x))
<1> DEFINE op(s) == [p \in Seq(H) \X (1 .. Len(s)) |-> (IF s[p[2]] \in removed THEN p[1] ELSE Append(p[1], s[p[2]]))]
           Solves(s, F) == F = [t \in SUBSET DOMAIN s |->
               IF t = {} THEN <<>> ELSE (IF s[Max(t)] \in removed THEN F[t \ {Max(t)}] ELSE Append(F[t \ {Max(t)}], s[Max(t)]))]
           Sol(s) == CHOOSE F : Solves(s, F)
<1>1. \A a \in Seq(H), y \in H : (IF y \in removed THEN a ELSE Append(a, y)) \in Seq(H)
  OBVIOUS
<1>2. <<>> \in Seq(H)
  OBVIOUS
<1>3. ASSUME NEW s \in Seq(H)
      PROVE  Folds(Sol(s), Seq(H), <<>>, op(s), Len(s))
  <2>1. Len(s) \in Nat /\ DOMAIN s = 1 .. Len(s) /\ \A i \in 1 .. Len(s) : s[i] \in H
    OBVIOUS
  <2>2. op(s) \in [Seq(H) \X (1 .. Len(s)) -> Seq(H)]
    BY <1>1, <2>1
  <2>0. PICK f : Solved(f, Seq(H), <<>>, op(s), Len(s))
    <3>1. Foldable(Seq(H), <<>>, op(s), Len(s))
      <4> HIDE DEF op
      <4> QED BY <1>2, <2>1, <2>2 DEF Foldable
    <3> HIDE DEF op
    <3> QED BY <3>1, FoldExists
  <2>3. /\ f \in [SUBSET (1 .. Len(s)) -> Seq(H)]
        /\ f = [t \in SUBSET (1 .. Len(s)) |->
                     IF t = {} THEN <<>> ELSE op(s)[<<f[t \ {Max(t)}], Max(t)>>]]
    <3> HIDE DEF op
    <3> QED BY <2>0 DEF Solved
  <2>4. \A t \in SUBSET (1 .. Len(s)) : t # {} => Max(t) \in t
    BY <2>1, MaxIn
  <2>5. Solves(s, f)
    <3>1. ASSUME NEW t \in SUBSET (1 .. Len(s)), t # {}
          PROVE  op(s)[<<f[t \ {Max(t)}], Max(t)>>] = (IF s[Max(t)] \in removed THEN f[t \ {Max(t)}] ELSE Append(f[t \ {Max(t)}], s[Max(t)]))
      <4>1. Max(t) \in 1 .. Len(s) /\ t \ {Max(t)} \in SUBSET (1 .. Len(s))
        BY <2>4, <3>1
      <4>2. f[t \ {Max(t)}] \in Seq(H)
        BY <2>3, <4>1
      <4> QED BY <4>1, <4>2
    <3> HIDE DEF op
    <3> QED BY <2>1, <2>3, <3>1
  <2>6. Solves(s, Sol(s))
    <3> HIDE DEF Solves
    <3> QED BY <2>5
  <2> DEFINE F == Sol(s)
  <2> HIDE DEF F
  <2>7. Solves(s, F)
    BY <2>6 DEF F
  <2>8. Folds(F, Seq(H), <<>>, op(s), Len(s))
    <3>1. ASSUME NEW t \in SUBSET (1 .. Len(s)), t # {}, F[t \ {Max(t)}] \in Seq(H)
          PROVE  F[t] = op(s)[<<F[t \ {Max(t)}], Max(t)>>]
      <4>1. Max(t) \in 1 .. Len(s)
        BY <2>4, <3>1
      <4>2. F[t] = (IF s[Max(t)] \in removed THEN F[t \ {Max(t)}] ELSE Append(F[t \ {Max(t)}], s[Max(t)]))
        BY <2>1, <2>7, <3>1
      <4> QED BY <3>1, <4>1, <4>2
    <3>2. F[{}] = <<>>
      BY <2>1, <2>7
    <3> HIDE DEF op, Solves
    <3> QED BY <1>2, <2>1, <2>2, <3>1, <3>2 DEF Folds, Foldable
  <2> QED BY <2>8 DEF F
<1>4. \A s \in Seq(H) : Without(s, removed) = Sol(s)[DOMAIN s]
  BY DEF Without, FoldLeft, MapThenFoldSet
<1>5. Without(<<>>, removed) = <<>>
  <2>1. <<>> \in Seq(H) /\ DOMAIN <<>> = {}
    OBVIOUS
  <2>2. Sol(<<>>)[{}] = <<>>
    <3>1. Folds(Sol(<<>>), Seq(H), <<>>, op(<<>>), Len(<<>>))
      <4> HIDE DEF Sol, op
      <4> QED BY <1>3, <2>1
    <3> HIDE DEF Sol, op
    <3> QED BY <3>1 DEF Folds
  <2> HIDE DEF Sol
  <2> QED BY <1>4, <2>1, <2>2
<1>6. Without(l, removed) \in Seq(H)
  <2>1. Len(l) \in Nat /\ DOMAIN l = 1 .. Len(l) /\ Len(l) \in 0 .. Len(l)
    OBVIOUS
  <2> DEFINE F == Sol(l)
  <2> HIDE DEF Sol, op
  <2>2. Folds(F, Seq(H), <<>>, op(l), Len(l))
    BY <1>3
  <2> HIDE DEF F
  <2>3. F[1 .. Len(l)] \in Seq(H)
    BY <2>1, <2>2, FoldSteps
  <2> QED BY <1>4, <2>1, <2>3 DEF F
<1>7. ASSUME NEW x \in H
      PROVE  Without(Append(l, x), removed) = (IF x \in removed THEN Without(l, removed) ELSE Append(Without(l, removed), x))
  <2>1. l \in Seq(H) /\ Append(l, x) \in Seq(H) /\ Len(l) \in Nat /\ Len(Append(l, x)) = Len(l) + 1
        /\ DOMAIN l = 1 .. Len(l) /\ DOMAIN Append(l, x) = 1 .. Len(l) + 1
        /\ Append(l, x)[Len(l) + 1] = x /\ Len(l) <= Len(l) + 1
        /\ \A i \in 1 .. Len(l) : Append(l, x)[i] = l[i]
    OBVIOUS
  <2>2. \A a \in Seq(H), n \in 1 .. Len(l) : op(Append(l, x))[<<a, n>>] = op(l)[<<a, n>>]
    BY <2>1
  <2>3. op(Append(l, x))[<<Without(l, removed), Len(l) + 1>>] = (IF x \in removed THEN Without(l, removed) ELSE Append(Without(l, removed), x))
    BY <1>6, <2>1
  <2> DEFINE F == Sol(l)
             G == Sol(Append(l, x))
  <2> HIDE DEF Sol, op
  <2>4. Folds(F, Seq(H), <<>>, op(l), Len(l)) /\ Folds(G, Seq(H), <<>>, op(Append(l, x)), Len(l) + 1)
    BY <1>3, <2>1
  <2> HIDE DEF F, G
  <2>5. G[1 .. Len(l) + 1] = op(Append(l, x))[<<F[1 .. Len(l)], Len(l) + 1>>]
    BY <2>1, <2>2, <2>4, FoldMore
  <2>6. Without(l, removed) = F[1 .. Len(l)] /\ Without(Append(l, x), removed) = G[1 .. Len(l) + 1]
    BY <1>4, <2>1 DEF F, G
  <2> QED BY <2>3, <2>5, <2>6
<1> QED BY <1>5, <1>6, <1>7

\* A line leaves a state of the configuration.
LEMMA LineTyped ==
    ASSUME NEW I, NEW a \in ConfigStates(I), NEW y \in LinesOver(I)
    PROVE  WithLine(a, y) \in ConfigStates(I)
<1>1. a.value \in {"unset"} \cup RealMods /\ a.binds \in BindLists(I)
      /\ a = [value |-> a.value, binds |-> a.binds]
  BY DEF ConfigStates
<1>2. CASE y \in BindsWith(AllMods, I)
  <2>1. y.kind = "bind"
    BY <1>2 DEF BindsWith, BindsOver
  <2>2. CASE Resolve(y.mods, a.value) = "unset"
    BY <2>1, <2>2 DEF WithLine
  <2>3. CASE Resolve(y.mods, a.value) # "unset"
    <3>1. Resolve(y.mods, a.value) \in RealMods
      BY <1>1, <1>2, <2>3 DEF Resolve, BindsWith, BindsOver, AllMods, RealMods
    <3>2. y.key # "k" => Resolve(y.mods, a.value) = "same"
      BY <1>2 DEF Resolve, BindsWith, BindsOver
    <3> DEFINE b == [y EXCEPT !.mods = Resolve(y.mods, a.value)]
    <3>3. b \in BindsOver(RealMods) /\ b.ignore = y.ignore
      BY <1>2, <3>1, <3>2 DEF BindsWith, BindsOver, RealMods
    <3>4. b \in BindsWith(RealMods, I)
      BY <1>2, <3>3 DEF BindsWith
    <3> HIDE DEF b
    <3>5. Append(a.binds, b) \in BindLists(I)
      BY <1>1, <3>4 DEF BindLists
    <3>6. WithLine(a, y) = [a EXCEPT !.binds = Append(a.binds, b)]
      BY <2>1, <2>3 DEF WithLine, b
    <3> QED BY <1>1, <3>5, <3>6 DEF ConfigStates
  <2> QED BY <2>2, <2>3
<1>3. CASE y \in [kind : {"unbind"}, mods : AllMods]
  <2>1. \A R : Without(a.binds, R) \in BindLists(I)
    BY <1>1, WithoutFold DEF BindLists
  <2> QED BY <1>1, <1>3, <2>1 DEF WithLine, ConfigStates
<1>4. CASE y \in [kind : {"set"}, value : RealMods]
  BY <1>1, <1>4 DEF WithLine, ConfigStates
<1>5. CASE y = [kind |-> "source"] /\ extra \in BindLists(I)
  <2>1. a.binds \o extra \in BindLists(I)
    BY <1>1, <1>5 DEF BindLists
  <2> QED BY <1>1, <1>5, <2>1 DEF WithLine, ConfigStates
<1> QED BY <1>2, <1>3, <1>4, <1>5 DEF LinesOver, OtherLines, BindLists

\* A line leaves a list of hints.
LEMMA HintTyped ==
    ASSUME NEW I, NEW value, NEW a \in HintLists(value, I), NEW y \in Entries(I)
    PROVE  WithHint(value, a, y) \in HintLists(value, I)
<1>2. CASE y \in BindsWith(AllMods, I)
  <2>1. y.kind = "bind" /\ y.ignore \in I
    BY <1>2 DEF BindsWith, BindsOver
  <2>2. Resolve(y.mods, value) \in RealMods \cup {value}
    BY <1>2 DEF Resolve, BindsWith, BindsOver, AllMods, RealMods
  <2> DEFINE h == [mods |-> Resolve(y.mods, value), ignore |-> y.ignore]
  <2>3. h \in [mods : RealMods \cup {value}, ignore : I]
    BY <2>1, <2>2
  <2> HIDE DEF h
  <2>4. WithHint(value, a, y) \in {a, Append(a, h)}
    BY <2>1 DEF WithHint, h
  <2> DEFINE X == [mods : RealMods \cup {value}, ignore : I]
  <2> HIDE DEF X
  <2>5. a \in Seq(X) /\ h \in X
    BY <2>3 DEF HintLists, X
  <2>6. Append(a, h) \in Seq(X)
    BY <2>5
  <2> QED BY <2>4, <2>5, <2>6 DEF HintLists, X
<1>3. CASE y \in [kind : {"unbind"}, mods : AllMods]
  <2>1. \A R : Without(a, R) \in HintLists(value, I)
    BY WithoutFold DEF HintLists
  <2> QED BY <1>3, <2>1 DEF WithHint
<1>4. CASE y \in [kind : {"set"}, value : RealMods] \cup {[kind |-> "source"]}
  BY <1>4 DEF WithHint
<1> QED BY <1>2, <1>3, <1>4 DEF Entries, OtherLines

\* The binds of a configuration are those of its lines.
LEMMA ConfigFold ==
    ASSUME NEW I,
           NEW l \in Seq(LinesOver(I))
    PROVE  /\ ConfigWalk(<<>>) = [value |-> "unset", binds |-> <<>>]
           /\ ConfigWalk(l) \in ConfigStates(I)
           /\ \A x \in LinesOver(I) : ConfigWalk(Append(l, x)) = WithLine(ConfigWalk(l), x)
<1> DEFINE op(s) == [p \in ConfigStates(I) \X (1 .. Len(s)) |-> WithLine(p[1], s[p[2]])]
           Solves(s, F) == F = [t \in SUBSET DOMAIN s |->
               IF t = {} THEN [value |-> "unset", binds |-> <<>>] ELSE WithLine(F[t \ {Max(t)}], s[Max(t)])]
           Sol(s) == CHOOSE F : Solves(s, F)
<1>1. \A a \in ConfigStates(I), y \in LinesOver(I) : WithLine(a, y) \in ConfigStates(I)
  BY LineTyped
<1>2. [value |-> "unset", binds |-> <<>>] \in ConfigStates(I)
  BY DEF ConfigStates, BindLists
<1>3. ASSUME NEW s \in Seq(LinesOver(I))
      PROVE  Folds(Sol(s), ConfigStates(I), [value |-> "unset", binds |-> <<>>], op(s), Len(s))
  <2>1. Len(s) \in Nat /\ DOMAIN s = 1 .. Len(s) /\ \A i \in 1 .. Len(s) : s[i] \in LinesOver(I)
    OBVIOUS
  <2>2. op(s) \in [ConfigStates(I) \X (1 .. Len(s)) -> ConfigStates(I)]
    BY <1>1, <2>1
  <2>0. PICK f : Solved(f, ConfigStates(I), [value |-> "unset", binds |-> <<>>], op(s), Len(s))
    <3>1. Foldable(ConfigStates(I), [value |-> "unset", binds |-> <<>>], op(s), Len(s))
      <4> HIDE DEF op
      <4> QED BY <1>2, <2>1, <2>2 DEF Foldable
    <3> HIDE DEF op
    <3> QED BY <3>1, FoldExists
  <2>3. /\ f \in [SUBSET (1 .. Len(s)) -> ConfigStates(I)]
        /\ f = [t \in SUBSET (1 .. Len(s)) |->
                     IF t = {} THEN [value |-> "unset", binds |-> <<>>] ELSE op(s)[<<f[t \ {Max(t)}], Max(t)>>]]
    <3> HIDE DEF op
    <3> QED BY <2>0 DEF Solved
  <2>4. \A t \in SUBSET (1 .. Len(s)) : t # {} => Max(t) \in t
    BY <2>1, MaxIn
  <2>5. Solves(s, f)
    <3>1. ASSUME NEW t \in SUBSET (1 .. Len(s)), t # {}
          PROVE  op(s)[<<f[t \ {Max(t)}], Max(t)>>] = WithLine(f[t \ {Max(t)}], s[Max(t)])
      <4>1. Max(t) \in 1 .. Len(s) /\ t \ {Max(t)} \in SUBSET (1 .. Len(s))
        BY <2>4, <3>1
      <4>2. f[t \ {Max(t)}] \in ConfigStates(I)
        BY <2>3, <4>1
      <4> QED BY <4>1, <4>2
    <3> HIDE DEF op
    <3> QED BY <2>1, <2>3, <3>1
  <2>6. Solves(s, Sol(s))
    <3> HIDE DEF Solves
    <3> QED BY <2>5
  <2> DEFINE F == Sol(s)
  <2> HIDE DEF F
  <2>7. Solves(s, F)
    BY <2>6 DEF F
  <2>8. Folds(F, ConfigStates(I), [value |-> "unset", binds |-> <<>>], op(s), Len(s))
    <3>1. ASSUME NEW t \in SUBSET (1 .. Len(s)), t # {}, F[t \ {Max(t)}] \in ConfigStates(I)
          PROVE  F[t] = op(s)[<<F[t \ {Max(t)}], Max(t)>>]
      <4>1. Max(t) \in 1 .. Len(s)
        BY <2>4, <3>1
      <4>2. F[t] = WithLine(F[t \ {Max(t)}], s[Max(t)])
        BY <2>1, <2>7, <3>1
      <4> QED BY <3>1, <4>1, <4>2
    <3>2. F[{}] = [value |-> "unset", binds |-> <<>>]
      BY <2>1, <2>7
    <3> HIDE DEF op, Solves
    <3> QED BY <1>2, <2>1, <2>2, <3>1, <3>2 DEF Folds, Foldable
  <2> QED BY <2>8 DEF F
<1>4. \A s \in Seq(LinesOver(I)) : ConfigWalk(s) = Sol(s)[DOMAIN s]
  BY DEF ConfigWalk, FoldLeft, MapThenFoldSet
<1>5. ConfigWalk(<<>>) = [value |-> "unset", binds |-> <<>>]
  <2>1. <<>> \in Seq(LinesOver(I)) /\ DOMAIN <<>> = {}
    OBVIOUS
  <2>2. Sol(<<>>)[{}] = [value |-> "unset", binds |-> <<>>]
    <3>1. Folds(Sol(<<>>), ConfigStates(I), [value |-> "unset", binds |-> <<>>], op(<<>>), Len(<<>>))
      <4> HIDE DEF Sol, op
      <4> QED BY <1>3, <2>1
    <3> HIDE DEF Sol, op
    <3> QED BY <3>1 DEF Folds
  <2> HIDE DEF Sol
  <2> QED BY <1>4, <2>1, <2>2
<1>6. ConfigWalk(l) \in ConfigStates(I)
  <2>1. Len(l) \in Nat /\ DOMAIN l = 1 .. Len(l) /\ Len(l) \in 0 .. Len(l)
    OBVIOUS
  <2> DEFINE F == Sol(l)
  <2> HIDE DEF Sol, op
  <2>2. Folds(F, ConfigStates(I), [value |-> "unset", binds |-> <<>>], op(l), Len(l))
    BY <1>3
  <2> HIDE DEF F
  <2>3. F[1 .. Len(l)] \in ConfigStates(I)
    BY <2>1, <2>2, FoldSteps
  <2> QED BY <1>4, <2>1, <2>3 DEF F
<1>7. ASSUME NEW x \in LinesOver(I)
      PROVE  ConfigWalk(Append(l, x)) = WithLine(ConfigWalk(l), x)
  <2>1. l \in Seq(LinesOver(I)) /\ Append(l, x) \in Seq(LinesOver(I)) /\ Len(l) \in Nat /\ Len(Append(l, x)) = Len(l) + 1
        /\ DOMAIN l = 1 .. Len(l) /\ DOMAIN Append(l, x) = 1 .. Len(l) + 1
        /\ Append(l, x)[Len(l) + 1] = x /\ Len(l) <= Len(l) + 1
        /\ \A i \in 1 .. Len(l) : Append(l, x)[i] = l[i]
    OBVIOUS
  <2>2. \A a \in ConfigStates(I), n \in 1 .. Len(l) : op(Append(l, x))[<<a, n>>] = op(l)[<<a, n>>]
    BY <2>1
  <2>3. op(Append(l, x))[<<ConfigWalk(l), Len(l) + 1>>] = WithLine(ConfigWalk(l), x)
    BY <1>6, <2>1
  <2> DEFINE F == Sol(l)
             G == Sol(Append(l, x))
  <2> HIDE DEF Sol, op
  <2>4. Folds(F, ConfigStates(I), [value |-> "unset", binds |-> <<>>], op(l), Len(l)) /\ Folds(G, ConfigStates(I), [value |-> "unset", binds |-> <<>>], op(Append(l, x)), Len(l) + 1)
    BY <1>3, <2>1
  <2> HIDE DEF F, G
  <2>5. G[1 .. Len(l) + 1] = op(Append(l, x))[<<F[1 .. Len(l)], Len(l) + 1>>]
    BY <2>1, <2>2, <2>4, FoldMore
  <2>6. ConfigWalk(l) = F[1 .. Len(l)] /\ ConfigWalk(Append(l, x)) = G[1 .. Len(l) + 1]
    BY <1>4, <2>1 DEF F, G
  <2> QED BY <2>3, <2>5, <2>6
<1> QED BY <1>5, <1>6, <1>7

\* The hints are of the lines that bind.
LEMMA HintsFold ==
    ASSUME NEW I,
           NEW value,
           NEW l \in Seq(Entries(I))
    PROVE  /\ HintsOf(value, <<>>) = <<>>
           /\ HintsOf(value, l) \in HintLists(value, I)
           /\ \A x \in Entries(I) : HintsOf(value, Append(l, x)) = WithHint(value, HintsOf(value, l), x)
<1> DEFINE op(s) == [p \in HintLists(value, I) \X (1 .. Len(s)) |-> WithHint(value, p[1], s[p[2]])]
           Solves(s, F) == F = [t \in SUBSET DOMAIN s |->
               IF t = {} THEN <<>> ELSE WithHint(value, F[t \ {Max(t)}], s[Max(t)])]
           Sol(s) == CHOOSE F : Solves(s, F)
<1>1. \A a \in HintLists(value, I), y \in Entries(I) : WithHint(value, a, y) \in HintLists(value, I)
  BY HintTyped
<1>2. <<>> \in HintLists(value, I)
  BY DEF HintLists
<1>3. ASSUME NEW s \in Seq(Entries(I))
      PROVE  Folds(Sol(s), HintLists(value, I), <<>>, op(s), Len(s))
  <2>1. Len(s) \in Nat /\ DOMAIN s = 1 .. Len(s) /\ \A i \in 1 .. Len(s) : s[i] \in Entries(I)
    OBVIOUS
  <2>2. op(s) \in [HintLists(value, I) \X (1 .. Len(s)) -> HintLists(value, I)]
    BY <1>1, <2>1
  <2>0. PICK f : Solved(f, HintLists(value, I), <<>>, op(s), Len(s))
    <3>1. Foldable(HintLists(value, I), <<>>, op(s), Len(s))
      <4> HIDE DEF op
      <4> QED BY <1>2, <2>1, <2>2 DEF Foldable
    <3> HIDE DEF op
    <3> QED BY <3>1, FoldExists
  <2>3. /\ f \in [SUBSET (1 .. Len(s)) -> HintLists(value, I)]
        /\ f = [t \in SUBSET (1 .. Len(s)) |->
                     IF t = {} THEN <<>> ELSE op(s)[<<f[t \ {Max(t)}], Max(t)>>]]
    <3> HIDE DEF op
    <3> QED BY <2>0 DEF Solved
  <2>4. \A t \in SUBSET (1 .. Len(s)) : t # {} => Max(t) \in t
    BY <2>1, MaxIn
  <2>5. Solves(s, f)
    <3>1. ASSUME NEW t \in SUBSET (1 .. Len(s)), t # {}
          PROVE  op(s)[<<f[t \ {Max(t)}], Max(t)>>] = WithHint(value, f[t \ {Max(t)}], s[Max(t)])
      <4>1. Max(t) \in 1 .. Len(s) /\ t \ {Max(t)} \in SUBSET (1 .. Len(s))
        BY <2>4, <3>1
      <4>2. f[t \ {Max(t)}] \in HintLists(value, I)
        BY <2>3, <4>1
      <4> QED BY <4>1, <4>2
    <3> HIDE DEF op
    <3> QED BY <2>1, <2>3, <3>1
  <2>6. Solves(s, Sol(s))
    <3> HIDE DEF Solves
    <3> QED BY <2>5
  <2> DEFINE F == Sol(s)
  <2> HIDE DEF F
  <2>7. Solves(s, F)
    BY <2>6 DEF F
  <2>8. Folds(F, HintLists(value, I), <<>>, op(s), Len(s))
    <3>1. ASSUME NEW t \in SUBSET (1 .. Len(s)), t # {}, F[t \ {Max(t)}] \in HintLists(value, I)
          PROVE  F[t] = op(s)[<<F[t \ {Max(t)}], Max(t)>>]
      <4>1. Max(t) \in 1 .. Len(s)
        BY <2>4, <3>1
      <4>2. F[t] = WithHint(value, F[t \ {Max(t)}], s[Max(t)])
        BY <2>1, <2>7, <3>1
      <4> QED BY <3>1, <4>1, <4>2
    <3>2. F[{}] = <<>>
      BY <2>1, <2>7
    <3> HIDE DEF op, Solves
    <3> QED BY <1>2, <2>1, <2>2, <3>1, <3>2 DEF Folds, Foldable
  <2> QED BY <2>8 DEF F
<1>4. \A s \in Seq(Entries(I)) : HintsOf(value, s) = Sol(s)[DOMAIN s]
  BY DEF HintsOf, FoldLeft, MapThenFoldSet
<1>5. HintsOf(value, <<>>) = <<>>
  <2>1. <<>> \in Seq(Entries(I)) /\ DOMAIN <<>> = {}
    OBVIOUS
  <2>2. Sol(<<>>)[{}] = <<>>
    <3>1. Folds(Sol(<<>>), HintLists(value, I), <<>>, op(<<>>), Len(<<>>))
      <4> HIDE DEF Sol, op
      <4> QED BY <1>3, <2>1
    <3> HIDE DEF Sol, op
    <3> QED BY <3>1 DEF Folds
  <2> HIDE DEF Sol
  <2> QED BY <1>4, <2>1, <2>2
<1>6. HintsOf(value, l) \in HintLists(value, I)
  <2>1. Len(l) \in Nat /\ DOMAIN l = 1 .. Len(l) /\ Len(l) \in 0 .. Len(l)
    OBVIOUS
  <2> DEFINE F == Sol(l)
  <2> HIDE DEF Sol, op
  <2>2. Folds(F, HintLists(value, I), <<>>, op(l), Len(l))
    BY <1>3
  <2> HIDE DEF F
  <2>3. F[1 .. Len(l)] \in HintLists(value, I)
    BY <2>1, <2>2, FoldSteps
  <2> QED BY <1>4, <2>1, <2>3 DEF F
<1>7. ASSUME NEW x \in Entries(I)
      PROVE  HintsOf(value, Append(l, x)) = WithHint(value, HintsOf(value, l), x)
  <2>1. l \in Seq(Entries(I)) /\ Append(l, x) \in Seq(Entries(I)) /\ Len(l) \in Nat /\ Len(Append(l, x)) = Len(l) + 1
        /\ DOMAIN l = 1 .. Len(l) /\ DOMAIN Append(l, x) = 1 .. Len(l) + 1
        /\ Append(l, x)[Len(l) + 1] = x /\ Len(l) <= Len(l) + 1
        /\ \A i \in 1 .. Len(l) : Append(l, x)[i] = l[i]
    OBVIOUS
  <2>2. \A a \in HintLists(value, I), n \in 1 .. Len(l) : op(Append(l, x))[<<a, n>>] = op(l)[<<a, n>>]
    BY <2>1
  <2>3. op(Append(l, x))[<<HintsOf(value, l), Len(l) + 1>>] = WithHint(value, HintsOf(value, l), x)
    BY <1>6, <2>1
  <2> DEFINE F == Sol(l)
             G == Sol(Append(l, x))
  <2> HIDE DEF Sol, op
  <2>4. Folds(F, HintLists(value, I), <<>>, op(l), Len(l)) /\ Folds(G, HintLists(value, I), <<>>, op(Append(l, x)), Len(l) + 1)
    BY <1>3, <2>1
  <2> HIDE DEF F, G
  <2>5. G[1 .. Len(l) + 1] = op(Append(l, x))[<<F[1 .. Len(l)], Len(l) + 1>>]
    BY <2>1, <2>2, <2>4, FoldMore
  <2>6. HintsOf(value, l) = F[1 .. Len(l)] /\ HintsOf(value, Append(l, x)) = G[1 .. Len(l) + 1]
    BY <1>4, <2>1 DEF F, G
  <2> QED BY <2>3, <2>5, <2>6
<1> QED BY <1>5, <1>6, <1>7

\* Without a bind that ignores modifiers there is no hint of one.
LEMMA HintsAreOfBinds ==
    ASSUME config \in Seq(HyprLines), extra \in Seq(BindsOver(RealMods)), HintsAgree, ~reports
    PROVE  \E I : /\ BindsOf(config) \in Seq(BindsWith(RealMods, I))
                  /\ \A n \in 1 .. Len(ConfigHints) : ConfigHints[n].ignore \in I
                  /\ \A i, j \in I : i = j
<1> DEFINE L == Inlined(config)
           I == {L[i].ignore : i \in {j \in DOMAIN L : L[j].kind = "bind"}}
           N == {i \in 1 .. Len(config) : config[i].kind = "source"}
           f == IF N = {} THEN 0 ELSE Min(N)
<1>1. \A i, j \in I : i = j
  BY DEF HintsAgree
<1>2. L = IF f = 0 THEN config ELSE SubSeq(config, 1, f) \o extra \o SubSeq(config, f + 1, Len(config))
  BY DEF Inlined, SelectInSeq
<1>3. /\ Len(config) \in Nat /\ DOMAIN config = 1 .. Len(config) /\ \A i \in 1 .. Len(config) : config[i] \in HyprLines
      /\ Len(extra) \in Nat /\ DOMAIN extra = 1 .. Len(extra) /\ \A i \in 1 .. Len(extra) : extra[i] \in BindsOver(RealMods)
  OBVIOUS
<1>4. f \in 0 .. Len(config) /\ (f = 0 => N = {})
  <2>1. CASE N = {}
    BY <1>3, <2>1
  <2>2. CASE N # {}
    <3>1. N \in SUBSET Nat /\ N \subseteq 1 .. Len(config)
      BY <1>3
    <3> HIDE DEF N
    <3>2. Min(N) \in N
      BY <2>2, <3>1, MinIn
    <3>3. f = Min(N)
      BY <2>2
    <3>4. f \in 1 .. Len(config)
      BY <3>1, <3>2, <3>3
    <3> HIDE DEF f
    <3> QED BY <1>3, <3>4
  <2> QED BY <2>1, <2>2
<1> HIDE DEF f, L
<1>5. /\ L \in Seq(HyprLines \cup BindsOver(RealMods))
      /\ \A i \in 1 .. Len(config) : \E j \in DOMAIN L : L[j] = config[i]
      /\ f # 0 => \A i \in 1 .. Len(extra) : \E j \in DOMAIN L : L[j] = extra[i]
  <2>1. CASE f = 0
    BY <1>2, <1>3, <2>1
  <2>2. CASE f # 0
    <3> DEFINE A == SubSeq(config, 1, f)
               B == SubSeq(config, f + 1, Len(config))
               X == HyprLines \cup BindsOver(RealMods)
    <3>0. config \in Seq(X) /\ extra \in Seq(X)
      OBVIOUS
    <3> HIDE DEF X
    <3>1. A \in Seq(X) /\ B \in Seq(X) /\ ToSet(config) \subseteq ToSet(A) \cup ToSet(B)
      BY <1>4, <3>0, CutElements
    <3>2. L = (A \o extra) \o B
      BY <1>2, <2>2
    <3> HIDE DEF A, B
    <3>3. A \o extra \in Seq(X) /\ ToSet(A \o extra) = ToSet(A) \cup ToSet(extra)
      BY <3>0, <3>1, ConcatElements
    <3>4. L \in Seq(X) /\ ToSet(L) = ToSet(A) \cup ToSet(extra) \cup ToSet(B)
      <4> DEFINE D == A \o extra
      <4>1. L = D \o B
        BY <3>2
      <4>2. D \in Seq(X) /\ ToSet(D) = ToSet(A) \cup ToSet(extra)
        BY <3>3
      <4> HIDE DEF D
      <4>3. L \in Seq(X) /\ ToSet(L) = ToSet(D) \cup ToSet(B)
        BY <3>1, <4>1, <4>2, ConcatElements
      <4> QED BY <4>2, <4>3
    <3>5. ToSet(config) \subseteq ToSet(L) /\ ToSet(extra) \subseteq ToSet(L)
      BY <3>1, <3>4
    <3>6. \A i \in 1 .. Len(config) : \E j \in DOMAIN L : L[j] = config[i]
      BY <1>3, <3>5 DEF ToSet
    <3>7. \A i \in 1 .. Len(extra) : \E j \in DOMAIN L : L[j] = extra[i]
      BY <1>3, <3>5 DEF ToSet
    <3> QED BY <3>4, <3>6, <3>7 DEF X
  <2> QED BY <2>1, <2>2
<1>6. \A l \in HyprLines \cup BindsOver(RealMods) : l \in BindsOver(AllMods) \/ (l.kind # "bind" /\ l \in OtherLines \cup {[kind |-> "source"]})
  <2>1. \A l \in BindsOver(RealMods) : l \in BindsOver(AllMods)
    BY DEF BindsOver, AllMods, RealMods
  <2>2. \A l \in HyprLines : l \in BindsOver(AllMods) \/ l \in OtherLines \cup {[kind |-> "source"]}
    BY DEF HyprLines, BindLines, AllMods, RealMods, OtherLines
  <2>3. \A l \in OtherLines \cup {[kind |-> "source"]} : l.kind # "bind"
    BY DEF OtherLines
  <2> QED BY <2>1, <2>2, <2>3
<1>7. \A l \in BindsOver(AllMods) : l.kind = "bind"
  BY DEF BindsOver
<1>8. L \in Seq(Entries(I))
  <2>1. ASSUME NEW j \in DOMAIN L PROVE L[j] \in Entries(I)
    <3>1. L[j] \in HyprLines \cup BindsOver(RealMods)
      BY <1>5
    <3>2. L[j].kind = "bind" => L[j].ignore \in I
      OBVIOUS
    <3> HIDE DEF I
    <3> QED BY <1>6, <1>7, <3>1, <3>2 DEF Entries, BindsWith
  <2> HIDE DEF I
  <2>2. Len(L) \in Nat /\ L = [j \in 1 .. Len(L) |-> L[j]] /\ DOMAIN L = 1 .. Len(L)
    BY <1>5
  <2> QED BY <2>1, <2>2
<1>9. \A i \in 1 .. Len(config) : config[i].kind = "bind" => config[i].ignore \in I
  BY <1>5
<1>10. f # 0 => extra \in BindLists(I)
  <2>1. ASSUME f # 0, NEW i \in 1 .. Len(extra) PROVE extra[i] \in BindsWith(RealMods, I)
    <3>1. extra[i] \in BindsOver(RealMods) /\ extra[i].kind = "bind"
      BY <1>3 DEF BindsOver
    <3>2. extra[i].ignore \in I
      BY <1>5, <2>1, <3>1
    <3> QED BY <3>1, <3>2 DEF BindsWith
  <2> HIDE DEF I
  <2> QED BY <1>3, <2>1 DEF BindLists
<1>11. config \in Seq(LinesOver(I))
  <2>1. ASSUME NEW i \in 1 .. Len(config) PROVE config[i] \in LinesOver(I)
    <3>1. config[i] \in HyprLines
      BY <1>3
    <3>2. config[i].kind = "source" => f # 0
      BY <1>4 DEF N
    <3>3. config[i].kind = "bind" => config[i].ignore \in I
      BY <1>9
    <3> HIDE DEF I
    <3>4. CASE config[i] \in BindsOver(AllMods)
      BY <1>7, <3>3, <3>4 DEF LinesOver, BindsWith
    <3>5. CASE config[i] \in OtherLines
      BY <3>5 DEF LinesOver
    <3>6. CASE config[i] = [kind |-> "source"]
      BY <1>10, <3>2, <3>6 DEF LinesOver, BindLists
    <3> QED BY <1>6, <3>1, <3>4, <3>5, <3>6
  <2> HIDE DEF I
  <2> QED BY <1>3, <2>1
<1> HIDE DEF I
<1>12. BindsOf(config) \in Seq(BindsWith(RealMods, I))
  <2>1. ConfigWalk(config) \in ConfigStates(I)
    BY <1>11, ConfigFold
  <2> QED BY <2>1 DEF ConfigStates, BindLists, BindsOf, ConfigWalk
<1>13. ConfigHints \in HintLists(LastSet(config), I)
  <2>1. HintsOf(LastSet(config), L) \in HintLists(LastSet(config), I)
    BY <1>8, HintsFold
  <2>2. ConfigHints = HintsOf(LastSet(config), L)
    BY DEF ConfigHints, HintsOf, L
  <2> QED BY <2>1, <2>2
<1>14. \A n \in 1 .. Len(ConfigHints) : ConfigHints[n].ignore \in I
  <2> DEFINE H == ConfigHints
  <2>1. H \in Seq([mods : RealMods \cup {LastSet(config)}, ignore : I])
    BY <1>13 DEF HintLists
  <2> HIDE DEF H
  <2> DEFINE X == [mods : RealMods \cup {LastSet(config)}, ignore : I]
  <2>3. \A x \in X : x.ignore \in I
    OBVIOUS
  <2> HIDE DEF X
  <2>4. H \in Seq(X)
    BY <2>1 DEF X
  <2>5. \A n \in 1 .. Len(H) : H[n] \in X
    BY <2>4
  <2>2. \A n \in 1 .. Len(H) : H[n].ignore \in I
    BY <2>3, <2>5
  <2> QED BY <2>2 DEF H
<1> QED BY <1>1, <1>12, <1>14

\* Each bind that Hyprland has is judged right by its certainty.
LEMMA BindsAreJudged ==
    ASSUME config \in Seq(HyprLines), extra \in Seq(BindsOver(RealMods)), HintsAgree,
           reports \in BOOLEAN, NEW i \in DOMAIN BindsOf(config), NEW mode,
           BindsOf(config) \in Seq(BindsOver(RealMods))
    PROVE  IsJudged(BindsOf(config)[i], mode)
<1> DEFINE b == BindsOf(config)[i]
<1>1. b \in BindsOver(RealMods)
  OBVIOUS
<1>2. (BindingIgnoreMods(b) = "no" => ~b.ignore) /\ (BindingIgnoreMods(b) = "yes" => b.ignore)
  <2>1. CASE reports
    <3>2. b.ignore \in BOOLEAN
      BY <1>1 DEF BindsOver
    <3> HIDE DEF b
    <3>1. BindingIgnoreMods(b) \in {IF b.ignore THEN "yes" ELSE "no"}
      BY <2>1 DEF BindingIgnoreMods
    <3> QED BY <3>1, <3>2
  <2>2. CASE ~reports /\ b.key # "k"
    BY <2>2 DEF BindingIgnoreMods
  <2>3. CASE ~reports /\ b.key = "k"
    <3>1. PICK I : /\ BindsOf(config) \in Seq(BindsWith(RealMods, I))
                   /\ \A n \in 1 .. Len(ConfigHints) : ConfigHints[n].ignore \in I
                   /\ \A x, y \in I : x = y
      BY <2>3, HintsAreOfBinds
    <3>2. b.ignore \in I
      BY <3>1 DEF BindsWith
    <3> HIDE DEF b
    <3> DEFINE N == {n \in 1 .. Len(ConfigHints) : ConfigHints[n].mods = b.mods}
               last == IF N # {} THEN Max(N) ELSE 0
    <3>3. BindingIgnoreMods(b) = IF last = 0 THEN "unknown" ELSE IF ConfigHints[last].ignore THEN "yes" ELSE "no"
      BY <2>3 DEF BindingIgnoreMods, ConfigIgnoreMods, SelectLastInSeq
    <3>4. last # 0 => last \in N
      <4>1. CASE N = {}
        BY <4>1
      <4>2. CASE N # {}
        <5>1. Len(ConfigHints) \in Nat /\ N \in SUBSET (1 .. Len(ConfigHints))
          OBVIOUS
        <5> HIDE DEF N
        <5> QED BY <4>2, <5>1, MaxIn
      <4> QED BY <4>1, <4>2
    <3>5. last # 0 => ConfigHints[last].ignore = b.ignore
      BY <3>1, <3>2, <3>4
    <3> HIDE DEF last
    <3> QED BY <3>3, <3>5
  <2> QED BY <2>1, <2>2, <2>3
<1> HIDE DEF b
<1>4. ReallyTakes(b, mode) => IsCandidate(b, mode)
  BY <1>1, <1>2 DEF ReallyTakes, IsCandidate, Certainty, BindsOver, RealMods, Devices
<1>5. IsActive(b, mode) /\ IsCertain(Certainty(b)) => ReallyTakes(b, mode)
  <2>1. SUFFICES ASSUME IsActive(b, mode), Certainty(b) \in {"exact", "insensitive"}
                 PROVE  ReallyTakes(b, mode)
    BY DEF IsCertain
  <2>2. b.device # "excluded" /\ b.key \notin {"hidden k", "hidden other"}
        /\ b.device \notin {"unknown", "unknown fits"}
    <3>1. b.device = "excluded" => Certainty(b) \in {"no"}
      BY DEF Certainty
    <3>2. b.device # "excluded" /\ b.key \in {"hidden k", "hidden other"} => Certainty(b) \in {"unresolved key", "no"}
      BY DEF Certainty
    <3>3. b.device \in {"unknown", "unknown fits"} /\ b.key \notin {"hidden k", "hidden other"} =>
             Certainty(b) \in {"no", "possible device"}
      BY DEF Certainty
    <3> QED BY <2>1, <3>1, <3>2, <3>3
  <2>3. b.mods = "same" \/ BindingIgnoreMods(b) = "yes"
    BY <2>1, <2>2 DEF Certainty
  <2>4. b.device \in Devices
    BY <1>1 DEF BindsOver, Devices
  <2> QED BY <1>2, <2>1, <2>2, <2>3, <2>4 DEF ReallyTakes, Devices
<1> QED BY <1>4, <1>5 DEF IsJudged, b

\* What whykey was told of the binds and the submap is what Hyprland has or had.
HyprInv ==
    part = "hyprland" =>
       /\ config \in Seq(HyprLines) /\ extra \in Seq(BindsOver(RealMods))
       /\ reports \in BOOLEAN
       /\ binds = BindsOf(config) /\ binds \in Seq(RealBinds)
       /\ hyprPc \in {"binds", "submap", "previous", "done"}
       /\ probe = [binds |-> probe.binds, submap |-> probe.submap,
                   assumed |-> probe.assumed, at |-> probe.at]
       /\ hyprPc # "binds" => probe.binds = binds
       /\ hyprPc = "done" /\ ~probe.assumed => probe.submap = probe.at

\* config.rs, matching.rs: what was told is enough for a definite verdict to be right.
LEMMA HyprSound ==
    ASSUME HyprInv, part = "hyprland"
    PROVE  VerdictIsSound
<1>1. SUFFICES ASSUME hyprPc = "done", ~probe.assumed, HintsAgree, WalkIsFollowed
               PROVE  CASE Verdict = "Indeterminate" -> TRUE
                        [] Verdict = "Pass" -> HandleKeybinds(probe.binds, probe.at) = {"Continues"}
                        [] OTHER -> HandleKeybinds(probe.binds, probe.at) = {Verdict}
  BY DEF VerdictIsSound
<1> DEFINE P == probe.binds
           mode == probe.at
<1>2. /\ P = BindsOf(config) /\ P \in Seq(RealBinds) /\ probe.submap = mode
      /\ config \in Seq(HyprLines) /\ extra \in Seq(BindsOver(RealMods)) /\ reports \in BOOLEAN
  BY <1>1 DEF HyprInv
<1>3. \A i \in DOMAIN P : IsJudged(P[i], mode)
  BY <1>1, <1>2, BindsAreJudged DEF RealBinds, RealMods
<1>4. \A i, j \in DOMAIN P : i < j /\ P[j].key = "catchall" =>
          ~ (Marks([bind |-> P[i]]) /\ ~IsCertain(Certainty(P[i])))
  BY <1>1 DEF WalkIsFollowed
<1> HIDE DEF P, mode
<1>5. IsFollowed(P, mode)
  BY <1>2, <1>3, <1>4, AllFollowed
<1>6. (CASE Verdict = "Indeterminate" -> TRUE
         [] Verdict = "Pass" -> HandleKeybinds(P, mode) = {"Continues"}
         [] OTHER -> HandleKeybinds(P, mode) = {Verdict})
  BY <1>2, <1>5, FollowedIsSound DEF P, mode
<1> QED BY <1>6 DEF P, mode

\* It holds before the first question.
LEMMA HyprStarts == Init => HyprInv
<1> SUFFICES ASSUME Init, part = "hyprland" PROVE HyprInv
  BY DEF HyprInv
<1>1. HyprInit
  BY DEF Init
<1>2. config \in Seq(HyprLines)
  <2>0. Exec \in Flows
    BY DEF Exec, Flows
  <2>5. \A f \in SUBSET Flows, m \in SUBSET AllMods, i \in SUBSET BOOLEAN,
          mo \in SUBSET {"default", "mode"}, d \in SUBSET Devices :
            Binds(f, {"k"}, m, i, mo, d) \subseteq BindLines
    BY DEF Binds, BindLines, BindsOver, AllMods
  <2>6. \A f \in SUBSET Flows, k \in SUBSET {"catchall", "hidden k", "hidden other"} :
            Binds(f, k, {"same"}, {FALSE}, {"universal"}, {"any"}) \subseteq BindLines
    BY DEF Binds, BindLines, BindsOver
  <2>1. FlowLines \subseteq HyprLines
    <3>1. {FALSE} \in SUBSET BOOLEAN
      OBVIOUS
    <3> HIDE DEF Flows, BindLines
    <3> QED BY <2>0, <2>5, <2>6, <3>1 DEF FlowLines, HyprLines, Devices, AllMods
  <2>2. HintLines \subseteq HyprLines
    <3> HIDE DEF Flows, BindLines
    <3>1. Binds({Exec}, {"k"}, {"same", "other", "$m"}, BOOLEAN, {"default", "mode"}, {"any"}) \subseteq BindLines
      BY <2>0, <2>5 DEF Devices, AllMods
    <3> QED BY <3>1 DEF HintLines, HyprLines, AllMods, RealMods
  <2>3. \A S, n : n \in Nat /\ config \in BoundedSeq(S, n) => config \in Seq(S)
    BY DEF BoundedSeq, SeqOf
  <2>4. config \in Seq(FlowLines) \/ config \in Seq(HintLines)
    BY <1>1, <2>3, HyprBindsAssumption DEF HyprInit
  <2> QED BY <2>1, <2>2, <2>4
<1>3. extra \in Seq(BindsOver(RealMods)) /\ extra \in Seq(BindsWith(RealMods, BOOLEAN))
  <2> DEFINE B == Binds({Exec}, {"k"}, {"other"}, {TRUE}, {"default"}, {"any"})
  <2>1. B \subseteq BindsOver(RealMods) /\ B \subseteq BindsWith(RealMods, BOOLEAN)
    <3>1. Exec \in Flows
      BY DEF Exec, Flows
    <3> HIDE DEF Flows
    <3>2. \A b \in B : b \in BindsOver(RealMods) /\ b.ignore \in BOOLEAN
      BY <3>1 DEF Binds, BindsOver, RealMods, Devices
    <3> HIDE DEF B
    <3> QED BY <3>2 DEF BindsWith
  <2>2. extra = <<>> \/ extra \in BoundedSeq(B, 1)
    BY <1>1 DEF HyprInit
  <2> HIDE DEF B
  <2>3. extra \in Seq(B)
    <3>1. \A n \in Nat : extra \in BoundedSeq(B, n) => extra \in Seq(B)
      BY DEF BoundedSeq, SeqOf
    <3>2. <<>> \in Seq(B) /\ 1 \in Nat
      OBVIOUS
    <3> QED BY <2>2, <3>1, <3>2
  <2> QED BY <2>1, <2>3
<1>4. BindsOf(config) \in Seq(RealBinds)
  <2>1. \A l \in HyprLines : l \in LinesOver(BOOLEAN)
    <3>1. \A l \in BindLines : l \in BindsWith(AllMods, BOOLEAN)
      BY DEF BindLines, BindsWith, BindsOver, AllMods
    <3>2. \A l \in HyprLines : l \in BindLines \/ l \in OtherLines \/ l = [kind |-> "source"]
      BY DEF HyprLines, OtherLines, AllMods, RealMods
    <3> QED BY <1>3, <3>1, <3>2 DEF LinesOver
  <2>2. config \in Seq(LinesOver(BOOLEAN))
    BY <1>2, <2>1
  <2>3. ConfigWalk(config) \in ConfigStates(BOOLEAN)
    BY <2>2, ConfigFold
  <2>4. BindsOf(config) \in Seq(BindsWith(RealMods, BOOLEAN))
    BY <2>3 DEF ConfigStates, BindLists, BindsOf, ConfigWalk
  <2>5. BindsWith(RealMods, BOOLEAN) \subseteq RealBinds
    BY DEF BindsWith, RealBinds, RealMods
  <2> QED BY <2>4, <2>5
<1> QED BY <1>1, <1>2, <1>3, <1>4 DEF HyprInit, HyprInv

\* It survives every question and every change of submap.
LEMMA HyprSteps == HyprInv /\ [Next]_mcVars => HyprInv'
<1> SUFFICES ASSUME HyprInv, [Next]_mcVars, part' = "hyprland" PROVE HyprInv'
  BY DEF HyprInv
<1>1. ASSUME UNCHANGED <<part, hyprVars>> PROVE HyprInv'
  <2>1. config' = config /\ extra' = extra
    BY <1>1 DEF hyprVars
  <2>2. BindsOf(config)' = BindsOf(config)
    BY <2>1 DEF BindsOf, FoldLeft, MapThenFoldSet, WithLine, Without, Resolve
  <2> QED BY <1>1, <2>2 DEF HyprInv, hyprVars
<1>2. CASE HyprlandStep
  <2> USE <1>2 DEF HyprlandStep
  <2>1. part = "hyprland"
    OBVIOUS
  <2>2. config' = config /\ extra' = extra /\ reports' = reports /\ binds' = binds
    BY DEF HyprNext, SubmapMoves, QueryBinds, QuerySubmap, QueryPrevious
  <2>3. BindsOf(config)' = BindsOf(config)
    BY <2>2 DEF BindsOf, FoldLeft, MapThenFoldSet, WithLine, Without, Resolve
  <2>4. CASE SubmapMoves
    BY <2>1, <2>2, <2>3, <2>4 DEF SubmapMoves, HyprInv
  <2>5. CASE QueryBinds
    BY <2>1, <2>2, <2>3, <2>5 DEF QueryBinds, HyprInv
  <2>6. CASE QuerySubmap
    BY <2>1, <2>2, <2>3, <2>6 DEF QuerySubmap, HyprInv
  <2>7. CASE QueryPrevious
    BY <2>1, <2>2, <2>3, <2>7 DEF QueryPrevious, HyprInv
  <2> QED BY <2>4, <2>5, <2>6, <2>7 DEF HyprNext
<1> QED BY <1>1, <1>2 DEF Next, mcVars, CompositorStep, DesktopStep, MethodStep, BindingsStep, AppStep, ChainStep

\* Hyprland: a definite verdict is what Hyprland does, for configurations of any length and
\* any number of changes of submap.
THEOREM HyprlandIsRight == Spec => [](part = "hyprland" => VerdictIsSound)
<1>1. HyprInv => (part = "hyprland" => VerdictIsSound)
  BY HyprSound
<1> QED BY <1>1, HyprStarts, HyprSteps, PTL DEF Spec

-----------------------------------------------------------------------------
(* Compositors whose configuration is read. *)
\* The lines of a file are those of the file it includes, in place of the include.
LEMMA IncludeFold ==
    ASSUME NEW E,
           NEW more \in Seq(E),
           Include \notin E,
           NEW l \in Seq(E \cup {Include})
    PROVE  /\ WithIncludes(<<>>, more) = <<>>
           /\ WithIncludes(l, more) \in Seq(E)
           /\ \A x \in E \cup {Include} : WithIncludes(Append(l, x), more) = (IF x = Include THEN WithIncludes(l, more) \o more ELSE Append(WithIncludes(l, more), x))
<1> DEFINE op(s) == [p \in Seq(E) \X (1 .. Len(s)) |-> (IF s[p[2]] = Include THEN p[1] \o more ELSE Append(p[1], s[p[2]]))]
           Solves(s, F) == F = [t \in SUBSET DOMAIN s |->
               IF t = {} THEN <<>> ELSE (IF s[Max(t)] = Include THEN F[t \ {Max(t)}] \o more ELSE Append(F[t \ {Max(t)}], s[Max(t)]))]
           Sol(s) == CHOOSE F : Solves(s, F)
<1>1. \A a \in Seq(E), y \in E \cup {Include} : (IF y = Include THEN a \o more ELSE Append(a, y)) \in Seq(E)
  <2>1. TAKE a \in Seq(E), y \in E \cup {Include}
  <2> QED OBVIOUS
<1>2. <<>> \in Seq(E)
  OBVIOUS
<1>3. ASSUME NEW s \in Seq(E \cup {Include})
      PROVE  Folds(Sol(s), Seq(E), <<>>, op(s), Len(s))
  <2>1. Len(s) \in Nat /\ DOMAIN s = 1 .. Len(s) /\ \A i \in 1 .. Len(s) : s[i] \in E \cup {Include}
    OBVIOUS
  <2>2. op(s) \in [Seq(E) \X (1 .. Len(s)) -> Seq(E)]
    BY <1>1, <2>1
  <2>0. PICK f : Solved(f, Seq(E), <<>>, op(s), Len(s))
    <3>1. Foldable(Seq(E), <<>>, op(s), Len(s))
      <4> HIDE DEF op
      <4> QED BY <1>2, <2>1, <2>2 DEF Foldable
    <3> HIDE DEF op
    <3> QED BY <3>1, FoldExists
  <2>3. /\ f \in [SUBSET (1 .. Len(s)) -> Seq(E)]
        /\ f = [t \in SUBSET (1 .. Len(s)) |->
                     IF t = {} THEN <<>> ELSE op(s)[<<f[t \ {Max(t)}], Max(t)>>]]
    <3> HIDE DEF op
    <3> QED BY <2>0 DEF Solved
  <2>4. \A t \in SUBSET (1 .. Len(s)) : t # {} => Max(t) \in t
    BY <2>1, MaxIn
  <2>5. Solves(s, f)
    <3>1. ASSUME NEW t \in SUBSET (1 .. Len(s)), t # {}
          PROVE  op(s)[<<f[t \ {Max(t)}], Max(t)>>] = (IF s[Max(t)] = Include THEN f[t \ {Max(t)}] \o more ELSE Append(f[t \ {Max(t)}], s[Max(t)]))
      <4>1. Max(t) \in 1 .. Len(s) /\ t \ {Max(t)} \in SUBSET (1 .. Len(s))
        BY <2>4, <3>1
      <4>2. f[t \ {Max(t)}] \in Seq(E)
        BY <2>3, <4>1
      <4> QED BY <4>1, <4>2
    <3> HIDE DEF op
    <3> QED BY <2>1, <2>3, <3>1
  <2>6. Solves(s, Sol(s))
    <3> HIDE DEF Solves
    <3> QED BY <2>5
  <2> DEFINE F == Sol(s)
  <2> HIDE DEF F
  <2>7. Solves(s, F)
    BY <2>6 DEF F
  <2>8. Folds(F, Seq(E), <<>>, op(s), Len(s))
    <3>1. ASSUME NEW t \in SUBSET (1 .. Len(s)), t # {}, F[t \ {Max(t)}] \in Seq(E)
          PROVE  F[t] = op(s)[<<F[t \ {Max(t)}], Max(t)>>]
      <4>1. Max(t) \in 1 .. Len(s)
        BY <2>4, <3>1
      <4>2. F[t] = (IF s[Max(t)] = Include THEN F[t \ {Max(t)}] \o more ELSE Append(F[t \ {Max(t)}], s[Max(t)]))
        BY <2>1, <2>7, <3>1
      <4> QED BY <3>1, <4>1, <4>2
    <3>2. F[{}] = <<>>
      BY <2>1, <2>7
    <3> HIDE DEF op, Solves
    <3> QED BY <1>2, <2>1, <2>2, <3>1, <3>2 DEF Folds, Foldable
  <2> QED BY <2>8 DEF F
<1>4. \A s \in Seq(E \cup {Include}) : WithIncludes(s, more) = Sol(s)[DOMAIN s]
  BY DEF WithIncludes, FoldLeft, MapThenFoldSet
<1>5. WithIncludes(<<>>, more) = <<>>
  <2>1. <<>> \in Seq(E \cup {Include}) /\ DOMAIN <<>> = {}
    OBVIOUS
  <2>2. Sol(<<>>)[{}] = <<>>
    <3>1. Folds(Sol(<<>>), Seq(E), <<>>, op(<<>>), Len(<<>>))
      <4> HIDE DEF Sol, op
      <4> QED BY <1>3, <2>1
    <3> HIDE DEF Sol, op
    <3> QED BY <3>1 DEF Folds
  <2> HIDE DEF Sol
  <2> QED BY <1>4, <2>1, <2>2
<1>6. WithIncludes(l, more) \in Seq(E)
  <2>1. Len(l) \in Nat /\ DOMAIN l = 1 .. Len(l) /\ Len(l) \in 0 .. Len(l)
    OBVIOUS
  <2> DEFINE F == Sol(l)
  <2> HIDE DEF Sol, op
  <2>2. Folds(F, Seq(E), <<>>, op(l), Len(l))
    BY <1>3
  <2> HIDE DEF F
  <2>3. F[1 .. Len(l)] \in Seq(E)
    BY <2>1, <2>2, FoldSteps
  <2> QED BY <1>4, <2>1, <2>3 DEF F
<1>7. ASSUME NEW x \in E \cup {Include}
      PROVE  WithIncludes(Append(l, x), more) = (IF x = Include THEN WithIncludes(l, more) \o more ELSE Append(WithIncludes(l, more), x))
  <2>1. l \in Seq(E \cup {Include}) /\ Append(l, x) \in Seq(E \cup {Include}) /\ Len(l) \in Nat /\ Len(Append(l, x)) = Len(l) + 1
        /\ DOMAIN l = 1 .. Len(l) /\ DOMAIN Append(l, x) = 1 .. Len(l) + 1
        /\ Append(l, x)[Len(l) + 1] = x /\ Len(l) <= Len(l) + 1
        /\ \A i \in 1 .. Len(l) : Append(l, x)[i] = l[i]
    OBVIOUS
  <2>2. \A a \in Seq(E), n \in 1 .. Len(l) : op(Append(l, x))[<<a, n>>] = op(l)[<<a, n>>]
    BY <2>1
  <2>3. op(Append(l, x))[<<WithIncludes(l, more), Len(l) + 1>>] = (IF x = Include THEN WithIncludes(l, more) \o more ELSE Append(WithIncludes(l, more), x))
    BY <1>6, <2>1
  <2> DEFINE F == Sol(l)
             G == Sol(Append(l, x))
  <2> HIDE DEF Sol, op
  <2>4. Folds(F, Seq(E), <<>>, op(l), Len(l)) /\ Folds(G, Seq(E), <<>>, op(Append(l, x)), Len(l) + 1)
    BY <1>3, <2>1
  <2> HIDE DEF F, G
  <2>5. G[1 .. Len(l) + 1] = op(Append(l, x))[<<F[1 .. Len(l)], Len(l) + 1>>]
    BY <2>1, <2>2, <2>4, FoldMore
  <2>6. WithIncludes(l, more) = F[1 .. Len(l)] /\ WithIncludes(Append(l, x), more) = G[1 .. Len(l) + 1]
    BY <1>4, <2>1 DEF F, G
  <2> QED BY <2>3, <2>5, <2>6
<1> QED BY <1>5, <1>6, <1>7

\* The binding table takes in one line after the other.
LEMMA TableFold ==
    ASSUME NEW E,
           NEW l \in Seq(E)
    PROVE  /\ BindingTable(<<>>) = {}
           /\ BindingTable(l) \in (SUBSET E)
           /\ \A x \in E : BindingTable(Append(l, x)) = WithBinding(BindingTable(l), x)
<1> DEFINE op(s) == [p \in (SUBSET E) \X (1 .. Len(s)) |-> WithBinding(p[1], s[p[2]])]
           Solves(s, F) == F = [t \in SUBSET DOMAIN s |->
               IF t = {} THEN {} ELSE WithBinding(F[t \ {Max(t)}], s[Max(t)])]
           Sol(s) == CHOOSE F : Solves(s, F)
<1>1. \A a \in (SUBSET E), y \in E : WithBinding(a, y) \in (SUBSET E)
  BY DEF WithBinding
<1>2. {} \in (SUBSET E)
  OBVIOUS
<1>3. ASSUME NEW s \in Seq(E)
      PROVE  Folds(Sol(s), (SUBSET E), {}, op(s), Len(s))
  <2>1. Len(s) \in Nat /\ DOMAIN s = 1 .. Len(s) /\ \A i \in 1 .. Len(s) : s[i] \in E
    OBVIOUS
  <2>2. op(s) \in [(SUBSET E) \X (1 .. Len(s)) -> (SUBSET E)]
    BY <1>1, <2>1
  <2>0. PICK f : Solved(f, (SUBSET E), {}, op(s), Len(s))
    <3>1. Foldable((SUBSET E), {}, op(s), Len(s))
      <4> HIDE DEF op
      <4> QED BY <1>2, <2>1, <2>2 DEF Foldable
    <3> HIDE DEF op
    <3> QED BY <3>1, FoldExists
  <2>3. /\ f \in [SUBSET (1 .. Len(s)) -> (SUBSET E)]
        /\ f = [t \in SUBSET (1 .. Len(s)) |->
                     IF t = {} THEN {} ELSE op(s)[<<f[t \ {Max(t)}], Max(t)>>]]
    <3> HIDE DEF op
    <3> QED BY <2>0 DEF Solved
  <2>4. \A t \in SUBSET (1 .. Len(s)) : t # {} => Max(t) \in t
    BY <2>1, MaxIn
  <2>5. Solves(s, f)
    <3>1. ASSUME NEW t \in SUBSET (1 .. Len(s)), t # {}
          PROVE  op(s)[<<f[t \ {Max(t)}], Max(t)>>] = WithBinding(f[t \ {Max(t)}], s[Max(t)])
      <4>1. Max(t) \in 1 .. Len(s) /\ t \ {Max(t)} \in SUBSET (1 .. Len(s))
        BY <2>4, <3>1
      <4>2. f[t \ {Max(t)}] \in (SUBSET E)
        BY <2>3, <4>1
      <4> QED BY <4>1, <4>2
    <3> HIDE DEF op
    <3> QED BY <2>1, <2>3, <3>1
  <2>6. Solves(s, Sol(s))
    <3> HIDE DEF Solves
    <3> QED BY <2>5
  <2> DEFINE F == Sol(s)
  <2> HIDE DEF F
  <2>7. Solves(s, F)
    BY <2>6 DEF F
  <2>8. Folds(F, (SUBSET E), {}, op(s), Len(s))
    <3>1. ASSUME NEW t \in SUBSET (1 .. Len(s)), t # {}, F[t \ {Max(t)}] \in (SUBSET E)
          PROVE  F[t] = op(s)[<<F[t \ {Max(t)}], Max(t)>>]
      <4>1. Max(t) \in 1 .. Len(s)
        BY <2>4, <3>1
      <4>2. F[t] = WithBinding(F[t \ {Max(t)}], s[Max(t)])
        BY <2>1, <2>7, <3>1
      <4> QED BY <3>1, <4>1, <4>2
    <3>2. F[{}] = {}
      BY <2>1, <2>7
    <3> HIDE DEF op, Solves
    <3> QED BY <1>2, <2>1, <2>2, <3>1, <3>2 DEF Folds, Foldable
  <2> QED BY <2>8 DEF F
<1>4. \A s \in Seq(E) : BindingTable(s) = Sol(s)[DOMAIN s]
  BY DEF BindingTable, FoldLeft, MapThenFoldSet
<1>5. BindingTable(<<>>) = {}
  <2>1. <<>> \in Seq(E) /\ DOMAIN <<>> = {}
    OBVIOUS
  <2>2. Sol(<<>>)[{}] = {}
    <3>1. Folds(Sol(<<>>), (SUBSET E), {}, op(<<>>), Len(<<>>))
      <4> HIDE DEF Sol, op
      <4> QED BY <1>3, <2>1
    <3> HIDE DEF Sol, op
    <3> QED BY <3>1 DEF Folds
  <2> HIDE DEF Sol
  <2> QED BY <1>4, <2>1, <2>2
<1>6. BindingTable(l) \in (SUBSET E)
  <2>1. Len(l) \in Nat /\ DOMAIN l = 1 .. Len(l) /\ Len(l) \in 0 .. Len(l)
    OBVIOUS
  <2> DEFINE F == Sol(l)
  <2> HIDE DEF Sol, op
  <2>2. Folds(F, (SUBSET E), {}, op(l), Len(l))
    BY <1>3
  <2> HIDE DEF F
  <2>3. F[1 .. Len(l)] \in (SUBSET E)
    BY <2>1, <2>2, FoldSteps
  <2> QED BY <1>4, <2>1, <2>3 DEF F
<1>7. ASSUME NEW x \in E
      PROVE  BindingTable(Append(l, x)) = WithBinding(BindingTable(l), x)
  <2>1. l \in Seq(E) /\ Append(l, x) \in Seq(E) /\ Len(l) \in Nat /\ Len(Append(l, x)) = Len(l) + 1
        /\ DOMAIN l = 1 .. Len(l) /\ DOMAIN Append(l, x) = 1 .. Len(l) + 1
        /\ Append(l, x)[Len(l) + 1] = x /\ Len(l) <= Len(l) + 1
        /\ \A i \in 1 .. Len(l) : Append(l, x)[i] = l[i]
    OBVIOUS
  <2>2. \A a \in (SUBSET E), n \in 1 .. Len(l) : op(Append(l, x))[<<a, n>>] = op(l)[<<a, n>>]
    BY <2>1
  <2>3. op(Append(l, x))[<<BindingTable(l), Len(l) + 1>>] = WithBinding(BindingTable(l), x)
    BY <1>6, <2>1
  <2> DEFINE F == Sol(l)
             G == Sol(Append(l, x))
  <2> HIDE DEF Sol, op
  <2>4. Folds(F, (SUBSET E), {}, op(l), Len(l)) /\ Folds(G, (SUBSET E), {}, op(Append(l, x)), Len(l) + 1)
    BY <1>3, <2>1
  <2> HIDE DEF F, G
  <2>5. G[1 .. Len(l) + 1] = op(Append(l, x))[<<F[1 .. Len(l)], Len(l) + 1>>]
    BY <2>1, <2>2, <2>4, FoldMore
  <2>6. BindingTable(l) = F[1 .. Len(l)] /\ BindingTable(Append(l, x)) = G[1 .. Len(l) + 1]
    BY <1>4, <2>1 DEF F, G
  <2> QED BY <2>3, <2>5, <2>6
<1> QED BY <1>5, <1>6, <1>7

\* The binds of the lines that no later line with the same trigger replaces.
Lasting(l) ==
    {l[i] : i \in {i \in DOMAIN l : l[i].kind = "bind" /\ \A j \in DOMAIN l : j > i => ~SameTrigger(l[j], l[i])}}

\* One more line replaces the bind of its trigger.
LEMMA LastingMore ==
    ASSUME NEW E, NEW l \in Seq(E), NEW x \in E
    PROVE  Lasting(Append(l, x)) = WithBinding(Lasting(l), x)
<1> DEFINE m == Append(l, x)
           N == Len(l)
           ok(s, i) == s[i].kind = "bind" /\ \A j \in DOMAIN s : j > i => ~SameTrigger(s[j], s[i])
<1>1. /\ m \in Seq(E) /\ N \in Nat /\ DOMAIN l = 1 .. N /\ DOMAIN m = 1 .. N + 1 /\ m[N + 1] = x
      /\ \A i \in 1 .. N : m[i] = l[i] /\ i \in 1 .. N + 1 /\ i < N + 1
  OBVIOUS
<1> HIDE DEF m, N
<1>2. \A i \in DOMAIN l : ok(m, i) <=> ok(l, i) /\ ~SameTrigger(x, l[i])
  <2>1. TAKE i \in DOMAIN l
  <2>2. \A j \in DOMAIN m : j > i <=> (j \in DOMAIN l /\ j > i) \/ j = N + 1
    BY <1>1
  <2> QED BY <1>1, <2>2
<1>3. ok(m, N + 1) <=> x.kind = "bind"
  <2>1. \A j \in DOMAIN m : ~ (j > N + 1)
    BY <1>1
  <2> QED BY <1>1, <2>1
<1>4. \A a, b : SameTrigger(a, b) <=> SameTrigger(b, a)
  BY DEF SameTrigger
<1>5. ASSUME NEW b PROVE b \in Lasting(m) <=> b \in WithBinding(Lasting(l), x)
  <2>1. b \in Lasting(m) <=> \E i \in DOMAIN m : ok(m, i) /\ b = m[i]
    BY DEF Lasting
  <2>2. b \in Lasting(l) <=> \E i \in DOMAIN l : ok(l, i) /\ b = l[i]
    BY DEF Lasting
  <2>3. b \in Lasting(m) <=> (\E i \in DOMAIN l : ok(m, i) /\ b = l[i]) \/ (ok(m, N + 1) /\ b = x)
    <3> HIDE DEF ok
    <3> QED BY <1>1, <2>1
  <2>4. b \in WithBinding(Lasting(l), x) <=> (b \in Lasting(l) /\ ~SameTrigger(b, x)) \/ (x.kind = "bind" /\ b = x)
    BY DEF WithBinding
  <2> HIDE DEF ok
  <2> QED BY <1>2, <1>3, <1>4, <2>2, <2>3, <2>4
<1> QED BY <1>5 DEF m

\* The binding table of tiling.rs is of the lasting binds.
LEMMA TableIsLasting ==
    ASSUME NEW E, NEW P \in Seq(E)
    PROVE  BindingTable(P) = Lasting(P)
<1> DEFINE S == {n \in Nat : n <= Len(P) => BindingTable(SubSeq(P, 1, n)) = Lasting(SubSeq(P, 1, n))}
<1>1. Len(P) \in Nat /\ DOMAIN P = 1 .. Len(P) /\ \A i \in 1 .. Len(P) : P[i] \in E
  OBVIOUS
<1>2. 0 \in S
  <2>1. SubSeq(P, 1, 0) = <<>>
    OBVIOUS
  <2>2. <<>> \in Seq(E) /\ DOMAIN <<>> = {}
    OBVIOUS
  <2>3. BindingTable(<<>>) = {}
    BY <2>2, TableFold
  <2>4. Lasting(<<>>) = {}
    BY <2>2 DEF Lasting
  <2> QED BY <2>1, <2>3, <2>4
<1>3. ASSUME NEW n \in Nat, n \in S PROVE n + 1 \in S
  <2>1. SUFFICES ASSUME n + 1 <= Len(P)
                 PROVE  BindingTable(SubSeq(P, 1, n + 1)) = Lasting(SubSeq(P, 1, n + 1))
    OBVIOUS
  <2> DEFINE l == SubSeq(P, 1, n)
             b == P[n + 1]
  <2>2. l \in Seq(E) /\ b \in E /\ SubSeq(P, 1, n + 1) = Append(l, b)
    BY <1>1, <2>1
  <2>3. BindingTable(l) = Lasting(l)
    BY <1>1, <1>3, <2>1
  <2> HIDE DEF l, b
  <2>4. BindingTable(Append(l, b)) = WithBinding(BindingTable(l), b)
    BY <2>2, TableFold
  <2> QED BY <2>2, <2>3, <2>4, LastingMore
<1>4. Nat \subseteq S
  <2> HIDE DEF S
  <2> QED BY <1>2, <1>3, AllNaturals
<1>5. SubSeq(P, 1, Len(P)) = P
  OBVIOUS
<1>6. Len(P) \in S /\ Len(P) <= Len(P)
  BY <1>1, <1>4
<1>7. BindingTable(SubSeq(P, 1, Len(P))) = Lasting(SubSeq(P, 1, Len(P)))
  BY <1>6
<1> HIDE DEF S
<1> QED BY <1>5, <1>7

\* tiling.rs: a bind is active in a mode exactly if the compositor has it there.
LEMMA ActiveIsBound ==
    ASSUME NEW E, NEW P \in Seq(E), NEW mode, NEW flow, NEW cond
    PROVE  (\E b \in BindingTable(P) : b.mode = mode /\ b.flow = flow /\ b.cond = cond)
               <=> BoundBy(P, mode, {flow}, {cond})
BY TableIsLasting DEF Lasting, BoundBy

\* The last of the lines that meet a condition.
LEMMA LastMeeting ==
    ASSUME NEW E, NEW P \in Seq(E), NEW I \in SUBSET DOMAIN P, I # {}
    PROVE  \E i \in I : \A j \in I : j <= i
<1>1. Len(P) \in Nat /\ I \subseteq 1 .. Len(P)
  OBVIOUS
<1>2. Max(I) \in I
  BY <1>1, MaxIn
<1>3. \E x \in I : \A y \in I : x >= y
  <2> DEFINE J == {Len(P) - i : i \in I}
  <2>1. J \in SUBSET Nat /\ J # {}
    BY <1>1
  <2>2. PICK x \in J : \A y \in J : x <= y
    BY <2>1, LeastNatural
  <2>3. PICK i \in I : x = Len(P) - i
    BY <2>2
  <2>4. \A j \in I : Len(P) - i <= Len(P) - j
    BY <2>2, <2>3
  <2> QED BY <1>1, <2>4
<1> QED BY <1>1, <1>3

\* The lines of a configuration whose includes are read.
RealLines(e) == LinesOf(e) \ {Include}

\* The states of a compositor.
Sessions(e) ==
    [mode : IF e \in Tiling \cup {"river"} THEN {"default", "other"} ELSE {"default"},
     nested : IF e = "niri" THEN BOOLEAN ELSE {FALSE},
     plugin : IF e = "wayfire" THEN {"off", "loaded", "failed"} ELSE {"off"},
     ipc : IF e = "wayfire" THEN BOOLEAN ELSE {FALSE},
     alive : IF e \in {"dwl", "labwc"} THEN BOOLEAN ELSE {TRUE}]

\* What whykey has been told of the state of the compositor agrees with now.
AgreesWith(now) ==
    /\ engine \in Tiling => told.state \in {now.mode, "unknown"}
    /\ engine = "niri" => (told.state = "winit" => now.nested)
    /\ engine \in {"dwl", "labwc"} => (told.state = "running" => now.alive)
    /\ engine = "wayfire" =>
          /\ told.state \in {"loaded", "not loaded", "unknown"}
          /\ told.state = "loaded" => now.plugin = "loaded"
          /\ told.state = "not loaded" => now.plugin # "loaded"
          /\ ~told.configured => ~told.live \/ now.plugin # "loaded"

\* The fields of the lines of each compositor.
LEMMA LineFields ==
    ASSUME NEW e \in Engines, NEW l \in RealLines(e)
    PROVE  /\ e \in Tiling => l.flow \in {"press", "release"} /\ l.cond \in {"none", "device"}
           /\ e \notin Tiling => l.kind = "bind" /\ l.flow \in {"press", "release", "replay"}
           /\ e \in {"river", "dwl", "herbstluftwm", "openbox", "labwc", "sxhkd"} => l.cond \in {"none", "opaque"}
           /\ e \in {"river", "dwl", "herbstluftwm", "openbox", "labwc", "niri"} => l.flow = "press"
           /\ e = "niri" => l.cond \in {"none", "opaque", "Mod"}
           /\ e \in {"dwl", "herbstluftwm", "openbox", "labwc", "niri", "sxhkd"} => l.mode = "default"
           /\ e = "wayfire" => l.mode \in {"core", "plugin"} /\ l.cond \in {"none", "opaque", "another", "default"}
<1> USE DEF RealLines, LinesOf, Line, Include, ConfigBind
<1>1. CASE e \in Tiling
  BY <1>1 DEF Tiling, TilingLines
<1>2. CASE e = "river"
  BY <1>2 DEF Tiling, RiverLines
<1>3. CASE e = "dwl"
  BY <1>3 DEF Tiling, DwlLines
<1>4. CASE e = "herbstluftwm"
  BY <1>4 DEF Tiling, HerbstluftwmLines
<1>5. CASE e \in {"openbox", "labwc"}
  BY <1>5 DEF Tiling, KeybindElements
<1>6. CASE e = "niri"
  BY <1>6 DEF Tiling, NiriLines
<1>7. CASE e = "wayfire"
  BY <1>7 DEF Tiling, WayfireLines
<1>8. CASE e = "sxhkd"
  BY <1>8 DEF Tiling, SxhkdLines
<1> QED BY <1>1, <1>2, <1>3, <1>4, <1>5, <1>6, <1>7, <1>8 DEF Engines

\* tiling.rs: a definite verdict is right under the mode that was told.
LEMMA TilingIsRight ==
    ASSUME engine \in Tiling, told.lines \in Seq(RealLines(engine)), NEW now \in Sessions(engine),
           AgreesWith(now), ~BeyondTheAdapter, TilingVerdict # "unsure", NEW meets \in BOOLEAN
    PROVE  CompositorDoes(engine, told.lines, now, meets) = TilingVerdict
<1> DEFINE P == told.lines
           m == now.mode
           here(flow, cond) == BoundBy(P, m, {flow}, {cond})
           act(mode, flow, cond) == \E b \in BindingTable(P) : b.mode = mode /\ b.flow = flow /\ b.cond = cond
           conds == {"none", "opaque"} \cup (IF meets THEN {"device"} ELSE {})
                        \cup (IF now.nested THEN {} ELSE {"Mod"})
<1>1. engine \in Engines /\ engine \in {"sway", "i3"}
  BY DEF Tiling, Engines
<1>2. \A i \in DOMAIN P : P[i] \in RealLines(engine)
  OBVIOUS
<1>3. \A i \in DOMAIN P : P[i].flow \in {"press", "release"} /\ P[i].cond \in {"none", "device"}
  BY <1>1, <1>2, LineFields
<1>4. now.alive /\ now.mode \in {"default", "other"} /\ ~now.nested
  BY <1>1 DEF Sessions, Tiling
<1>5. told.state \in {m, "unknown"}
  BY DEF AgreesWith
<1>6. \A mode, flow, cond : act(mode, flow, cond) <=> BoundBy(P, mode, {flow}, {cond})
  BY ActiveIsBound
<1>7. told.state = m
  <2>1. TilingVerdict = "unsure" \/ told.state # "unknown"
    BY DEF TilingVerdict
  <2> QED BY <1>5, <2>1
<1>8. TilingVerdict = IF here("press", "none") THEN "consumed"
                      ELSE IF here("release", "none") THEN IF engine = "sway" THEN "handled" ELSE "consumed"
                      ELSE IF here("press", "device") \/ here("release", "device") \/ told.gap THEN "unsure"
                      ELSE "pass"
  <2>1. m # "unknown"
    BY <1>4
  <2>2. TilingVerdict = IF act(m, "press", "none") THEN "consumed"
                      ELSE IF act(m, "release", "none") THEN IF engine = "sway" THEN "handled" ELSE "consumed"
                      ELSE IF act(m, "press", "device") \/ act(m, "release", "device") \/ told.gap THEN "unsure"
                      ELSE "pass"
    BY <1>7, <2>1 DEF TilingVerdict
  <2>3. \A flow, cond : act(m, flow, cond) <=> here(flow, cond)
    BY <1>6
  <2> HIDE DEF act, here
  <2> QED BY <2>2, <2>3
<1>9. \A flow : BoundBy(P, m, {flow}, conds) <=> here(flow, "none") \/ (meets /\ here(flow, "device"))
  BY <1>3 DEF BoundBy
<1>10. BoundBy(P, m, {"press", "release"}, conds)
          <=> BoundBy(P, m, {"press"}, conds) \/ BoundBy(P, m, {"release"}, conds)
  BY DEF BoundBy
<1>11. CompositorDoes(engine, P, now, meets) =
           IF engine = "sway" THEN IF BoundBy(P, m, {"press"}, conds) THEN "consumed"
                                   ELSE IF BoundBy(P, m, {"release"}, conds) THEN "handled" ELSE "pass"
           ELSE IF BoundBy(P, m, {"press", "release"}, conds) THEN "consumed" ELSE "pass"
  BY <1>1, <1>4 DEF CompositorDoes
<1>12. engine = "sway" /\ here("release", "none") => ~here("press", "device")
  <2>1. ~ (engine = "sway" /\ \E i, j \in DOMAIN P : P[i].cond = "device" /\ P[j].flow = "release")
    BY DEF BeyondTheAdapter
  <2> QED BY <2>1 DEF BoundBy
<1> HIDE DEF here, conds, act
<1>13. CASE engine = "sway"
  BY <1>8, <1>9, <1>11, <1>12, <1>13
<1>14. CASE engine # "sway"
  BY <1>8, <1>9, <1>10, <1>11, <1>14
<1> QED BY <1>13, <1>14

\* River and herbstluftwm: without any row of the combination the key passes.
LEMMA ConditionalIsRight ==
    ASSUME engine \in {"river", "herbstluftwm"}, told.lines \in Seq(RealLines(engine)),
           NEW now \in Sessions(engine), ~BeyondTheAdapter, ConditionalVerdict # "unsure", NEW meets \in BOOLEAN
    PROVE  CompositorDoes(engine, told.lines, now, meets) = ConditionalVerdict
<1> DEFINE P == told.lines
<1>1. engine \in Engines /\ engine # "wayfire" /\ engine # "sxhkd" /\ engine # "sway"
  BY DEF Engines
<1>2. \A i \in DOMAIN P : P[i] \in RealLines(engine)
  OBVIOUS
<1>3. \A i \in DOMAIN P : P[i].cond \in {"none", "opaque"}
  BY <1>1, <1>2, LineFields
<1>4. \A i \in DOMAIN P : P[i].cond # "opaque"
  BY DEF BeyondTheAdapter
<1>5. ~RowMatches /\ ConditionalVerdict = "pass"
  BY DEF ConditionalVerdict
<1>6. \A i \in DOMAIN P : FALSE
  BY <1>3, <1>4, <1>5 DEF RowMatches
<1>7. now.alive
  BY <1>1 DEF Sessions
<1> QED BY <1>1, <1>5, <1>6, <1>7 DEF CompositorDoes, BoundBy

\* dwl and labwc: a row of the combination takes the key while the process runs.
LEMMA ProcessIsRight ==
    ASSUME engine \in {"dwl", "labwc"}, told.lines \in Seq(RealLines(engine)), NEW now \in Sessions(engine),
           AgreesWith(now), ~BeyondTheAdapter, ProcessVerdict # "unsure", NEW meets \in BOOLEAN
    PROVE  CompositorDoes(engine, told.lines, now, meets) = ProcessVerdict
<1> DEFINE P == told.lines
<1>1. engine \in Engines /\ engine # "wayfire" /\ engine # "sxhkd" /\ engine # "sway"
      /\ engine \notin Tiling \cup {"river"}
  BY DEF Engines, Tiling
<1>2. \A i \in DOMAIN P : P[i] \in RealLines(engine)
  OBVIOUS
<1>3. \A i \in DOMAIN P : P[i].cond \in {"none", "opaque"} /\ P[i].flow = "press" /\ P[i].kind = "bind"
                          /\ P[i].mode = "default"
  BY <1>1, <1>2, LineFields
<1>4. \A i \in DOMAIN P : P[i].cond = "none"
  BY <1>3 DEF BeyondTheAdapter
<1>5. now.mode = "default"
  BY <1>1 DEF Sessions
<1>6. CASE ~RowMatches
  <2>1. \A i \in DOMAIN P : FALSE
    BY <1>4, <1>6 DEF RowMatches
  <2>2. ProcessVerdict = "pass"
    BY <1>6 DEF ProcessVerdict
  <2> QED BY <1>1, <2>1, <2>2 DEF CompositorDoes, BoundBy
<1>7. CASE RowMatches
  <2>1. ProcessVerdict = "consumed" /\ told.state = "running"
    BY <1>7 DEF ProcessVerdict
  <2>2. now.alive
    BY <2>1 DEF AgreesWith
  <2>3. DOMAIN P # {}
    BY <1>7 DEF RowMatches
  <2>4. PICK i \in DOMAIN P : \A j \in DOMAIN P : j <= i
    BY <2>3, LastMeeting
  <2>5. \A j \in DOMAIN P : ~ (j > i)
    <3>1. DOMAIN P = 1 .. Len(P) /\ Len(P) \in Nat
      OBVIOUS
    <3> QED BY <2>4, <3>1
  <2>6. \A conds : "none" \in conds => BoundBy(P, now.mode, {"press", "release"}, conds)
    BY <1>3, <1>4, <1>5, <2>5 DEF BoundBy
  <2> QED BY <1>1, <2>1, <2>2, <2>6 DEF CompositorDoes
<1> QED BY <1>6, <1>7

\* niri.rs: only a pass is definite, and Mod is left out only where it is nested.
LEMMA NiriIsRight ==
    ASSUME engine = "niri", told.lines \in Seq(RealLines(engine)), NEW now \in Sessions(engine),
           AgreesWith(now), NiriVerdict # "unsure", NEW meets \in BOOLEAN
    PROVE  CompositorDoes(engine, told.lines, now, meets) = NiriVerdict
<1> DEFINE P == told.lines
<1>1. engine \in Engines
  BY DEF Engines
<1>2. \A i \in DOMAIN P : P[i] \in RealLines(engine)
  OBVIOUS
<1>3. \A i \in DOMAIN P : P[i].cond \in {"none", "opaque", "Mod"}
  BY <1>1, <1>2, LineFields
<1>4. NiriVerdict = "pass" /\ (\A i \in DOMAIN P : P[i].cond \notin {"none", "opaque"})
      /\ (ModMayMatch => \A i \in DOMAIN P : P[i].cond # "Mod")
  BY DEF NiriVerdict, RowMatches
<1>5. \A i \in DOMAIN P : now.nested /\ P[i].cond = "Mod"
  BY <1>3, <1>4 DEF ModMayMatch, AgreesWith
<1>6. \A flows : ~BoundBy(P, now.mode, flows, {"none", "opaque"} \cup (IF meets THEN {"device"} ELSE {})
                        \cup (IF now.nested THEN {} ELSE {"Mod"}))
  BY <1>5 DEF BoundBy
<1> QED BY <1>4, <1>6 DEF CompositorDoes

\* sxhkd.rs: a key that is given back is given back, every hotkey being readable.
LEMMA SxhkdIsRight ==
    ASSUME engine = "sxhkd", told.lines \in Seq(RealLines(engine)), NEW now \in Sessions(engine),
           ~BeyondTheAdapter, SxhkdVerdict # "unsure", NEW meets \in BOOLEAN
    PROVE  CompositorDoes(engine, told.lines, now, meets) = SxhkdVerdict
<1> DEFINE P == told.lines
<1>1. engine \in Engines
  BY DEF Engines
<1>2. \A i \in DOMAIN P : P[i] \in RealLines(engine)
  OBVIOUS
<1>3. \A i \in DOMAIN P : P[i].cond \in {"none", "opaque"}
  BY <1>1, <1>2, LineFields
<1>4. \A i \in DOMAIN P : P[i].cond = "none"
  BY <1>3 DEF BeyondTheAdapter
<1>5. SxhkdVerdict = "handled" /\ Replays(P, {"none"})
  BY DEF SxhkdVerdict
<1>6. \A i \in 1 .. Len(P) : i \in DOMAIN P
  OBVIOUS
<1>7. {i \in 1 .. Len(P) : P[i].cond \in {"none"} /\ P[i].flow # "release"}
          = {i \in 1 .. Len(P) : P[i].cond \in {"none", "opaque"} /\ P[i].flow # "release"}
  BY <1>4, <1>6
<1>8. Replays(P, {"none", "opaque"}) /\ P # <<>>
  <2>1. P # <<>>
    <3>1. ASSUME P = <<>> PROVE FALSE
      <4>1. \A i \in 1 .. Len(P) : FALSE
        BY <3>1
      <4> QED BY <1>5, <4>1 DEF Replays, SelectInSeq
    <3> QED BY <3>1
  <2> QED BY <1>5, <1>7, <2>1 DEF Replays, SelectInSeq
<1>9. now.alive
  BY DEF Sessions
<1> QED BY <1>5, <1>8, <1>9 DEF CompositorDoes

\* The value of an option whose last line in the file has it.
LEMMA OptionIs ==
    ASSUME NEW e, e = "wayfire", NEW P \in Seq(RealLines(e)), NEW p
    PROVE  /\ OptionValue(P, p) \in {"none", "opaque", "another", "default", "unset"}
           /\ \A v \in {"none", "opaque", "another"} :
                 OptionValue(P, p) = v => \E i \in DOMAIN P : P[i].mode = p /\ P[i].cond = v
           /\ OptionValue(P, p) = "default" =>
                 /\ \E i \in DOMAIN P : P[i].mode = p /\ P[i].cond = "default"
                 /\ \A i \in DOMAIN P : ~ (P[i].mode = p /\ P[i].cond # "default")
<1> DEFINE I == {i \in 1 .. Len(P) : P[i].mode = p /\ P[i].cond # "default"}
           last == SelectLastInSeq(P, LAMBDA l : l.mode = p /\ l.cond # "default")
<1>1. Len(P) \in Nat /\ DOMAIN P = 1 .. Len(P) /\ \A i \in DOMAIN P : P[i] \in RealLines(e)
  OBVIOUS
<1>2. \A i \in DOMAIN P : P[i].cond \in {"none", "opaque", "another", "default"}
  <2>1. e \in Engines
    BY DEF Engines
  <2> QED BY <1>1, <2>1, LineFields
<1>3. last = IF I # {} THEN Max(I) ELSE 0
  BY DEF SelectLastInSeq
<1>4. CASE I # {}
  <2>1. Max(I) \in I
    BY <1>1, <1>4, MaxIn
  <2>2. last \in DOMAIN P /\ last # 0 /\ P[last].mode = p /\ P[last].cond # "default"
    BY <1>1, <1>3, <1>4, <2>1
  <2>3. OptionValue(P, p) = P[last].cond
    BY <2>2 DEF OptionValue
  <2> HIDE DEF last
  <2> QED BY <1>2, <2>2, <2>3
<1>5. CASE I = {}
  <2>1. last = 0
    BY <1>3, <1>5
  <2>2. \A i \in DOMAIN P : ~ (P[i].mode = p /\ P[i].cond # "default")
    BY <1>1, <1>5
  <2>3. OptionValue(P, p) = IF \E i \in DOMAIN P : P[i].mode = p THEN "default" ELSE "unset"
    BY <2>1 DEF OptionValue
  <2> HIDE DEF last, I
  <2> QED BY <2>2, <2>3
<1> QED BY <1>4, <1>5

\* wayfire.rs inspect_file: a pass is definite only if no option may take the key.
LEMMA WayfireFileIsRight ==
    ASSUME engine = "wayfire", told.lines \in Seq(RealLines(engine)), NEW now \in Sessions(engine),
           WayfireFileVerdict # "unsure", NEW meets \in BOOLEAN
    PROVE  CompositorDoes(engine, told.lines, now, meets) = WayfireFileVerdict
<1> DEFINE P == told.lines
           declared(l) == \E i \in DOMAIN P : P[i].cond # "default" /\ P[i].mode = l.mode
<1>1. now.alive
  BY DEF Sessions
<1>2. WayfireFileVerdict = "pass"
      /\ \A i \in DOMAIN P : P[i].cond \notin {"none", "opaque"} /\ (P[i].cond = "default" => declared(P[i]))
  <2>1. WayfireFileVerdict =
            IF \E i \in DOMAIN P : P[i].cond \in {"none", "opaque"} \/ (P[i].cond = "default" /\ ~declared(P[i]))
            THEN "unsure" ELSE "pass"
    BY DEF WayfireFileVerdict
  <2> HIDE DEF declared
  <2> QED BY <2>1
<1>3. ASSUME NEW p PROVE ~BindsTheKey(OptionValue(P, p))
  <2>1. P \in Seq(RealLines(engine)) /\ engine = "wayfire"
    OBVIOUS
  <2>0. \A v \in {"none", "opaque", "another"} :
            OptionValue(P, p) = v => \E i \in DOMAIN P : P[i].mode = p /\ P[i].cond = v
    BY <2>1, OptionIs
  <2>2. OptionValue(P, p) # "none" /\ OptionValue(P, p) # "opaque"
    BY <1>2, <2>0
  <2>3. ASSUME OptionValue(P, p) = "default" PROVE FALSE
    <3>1. PICK i \in DOMAIN P : P[i].mode = p /\ P[i].cond = "default"
      BY <2>1, <2>3, OptionIs
    <3>2. \A j \in DOMAIN P : ~ (P[j].mode = p /\ P[j].cond # "default")
      BY <2>1, <2>3, OptionIs
    <3> QED BY <1>2, <3>1, <3>2
  <2> QED BY <2>2, <2>3 DEF BindsTheKey
<1> QED BY <1>1, <1>2, <1>3 DEF CompositorDoes

\* wayfire.rs inspect_live: the value of each option, and the plugins as they were told.
LEMMA WayfireLiveIsRight ==
    ASSUME engine = "wayfire", told.lines \in Seq(RealLines(engine)), NEW now \in Sessions(engine),
           told.live, told.configured \in BOOLEAN, AgreesWith(now), WayfireLiveVerdict # "unsure",
           NEW meets \in BOOLEAN
    PROVE  CompositorDoes(engine, told.lines, now, meets) = WayfireLiveVerdict
<1> DEFINE P == told.lines
           value(p) == OptionValue(P, p)
           consulted == {p \in {"core", "plugin"} : p = "core" \/ told.configured}
           hits == {p \in consulted : value(p) \in {"none", "default"}}
           active == {p \in hits : LoadOf(p) = "loaded"}
           unknown == {p \in hits : LoadOf(p) = "unknown"}
<1>1. now.alive
  BY DEF Sessions
<1>2. WayfireLiveVerdict =
          IF Cardinality(active) = 1 /\ unknown = {} THEN "consumed"
          ELSE IF active # {} \/ unknown # {} \/ \E p \in consulted : value(p) = "opaque" THEN "unsure"
          ELSE "pass"
  BY DEF WayfireLiveVerdict
<1>3. CompositorDoes(engine, P, now, meets) =
          IF BindsTheKey(value("core")) \/ (now.plugin = "loaded" /\ BindsTheKey(value("plugin")))
          THEN "consumed" ELSE "pass"
  BY <1>1 DEF CompositorDoes
<1>4. LoadOf("core") = "loaded" /\ LoadOf("plugin") = IF told.configured THEN told.state ELSE "not loaded"
  BY DEF LoadOf
<1>5. /\ told.state \in {"loaded", "not loaded", "unknown"}
      /\ told.state = "loaded" => now.plugin = "loaded"
      /\ told.state = "not loaded" => now.plugin # "loaded"
      /\ ~told.configured => now.plugin # "loaded"
  BY DEF AgreesWith
<1>7. CASE Cardinality(active) = 1 /\ unknown = {}
  <2>1. active # {}
    <3>1. Cardinality(active) = 1
      BY <1>7
    <3>2. Cardinality({}) = 0
      BY FS_EmptySet
    <3> HIDE DEF active
    <3>3. ASSUME active = {} PROVE FALSE
      <4>1. Cardinality(active) = Cardinality({})
        BY <3>3
      <4> HIDE <3>3
      <4> QED BY <3>1, <3>2, <4>1
    <3> QED BY <3>3
  <2>2. PICK p : p \in active
    BY <2>1
  <2>3. p \in {"core", "plugin"} /\ BindsTheKey(value(p)) /\ LoadOf(p) = "loaded"
    <3>1. p \in hits /\ LoadOf(p) = "loaded"
      <4> HIDE DEF hits
      <4> QED BY <2>2
    <3>2. p \in consulted /\ value(p) \in {"none", "default"}
      <4> HIDE DEF value, consulted
      <4> QED BY <3>1
    <3> HIDE DEF value, hits
    <3> QED BY <3>1, <3>2 DEF BindsTheKey
  <2>4. p = "plugin" => now.plugin = "loaded"
    BY <1>4, <1>5, <2>3
  <2> HIDE DEF value, active, unknown
  <2> QED BY <1>2, <1>3, <1>7, <2>3, <2>4
<1>8. CASE ~ (Cardinality(active) = 1 /\ unknown = {})
  <2>1. active = {} /\ unknown = {} /\ (\A p \in consulted : value(p) # "opaque") /\ WayfireLiveVerdict = "pass"
    <3> HIDE DEF value, active, unknown, consulted
    <3> QED BY <1>2, <1>8
  <2>2. "core" \in consulted /\ (told.configured => "plugin" \in consulted)
    OBVIOUS
  <2>3. \A p \in consulted : value(p) \in {"none", "default"} => LoadOf(p) # "loaded" /\ LoadOf(p) # "unknown"
    <3> HIDE DEF value, consulted
    <3> QED BY <2>1
  <2>4. ~BindsTheKey(value("core"))
    <3> HIDE DEF value, consulted
    <3> QED BY <1>4, <2>1, <2>2, <2>3 DEF BindsTheKey
  <2>5. now.plugin = "loaded" => ~BindsTheKey(value("plugin"))
    <3> HIDE DEF value, consulted
    <3> QED BY <1>4, <1>5, <2>1, <2>2, <2>3 DEF BindsTheKey
  <2> HIDE DEF value
  <2> QED BY <1>3, <2>1, <2>4, <2>5
<1> QED BY <1>7, <1>8

\* A definite verdict is right of any state that agrees with what whykey was told.
LEMMA ToldIsRight ==
    ASSUME engine \in Engines, told.lines \in Seq(RealLines(engine)), NEW now \in Sessions(engine),
           told.configured \in BOOLEAN, told.live \in BOOLEAN, AgreesWith(now), ~BeyondTheAdapter,
           CompositorVerdict # "unsure"
    PROVE  CompositorVerdict \in TruthOf(engine, told.lines, now)
<1> DEFINE v == CompositorVerdict
<1>1. ~told.failed
  BY DEF CompositorVerdict
<1>2. v \in {"pass", "handled", "consumed"}
  BY <1>1 DEF CompositorVerdict, TilingVerdict, ConditionalVerdict, ProcessVerdict, OpenboxVerdict, NiriVerdict,
              WayfireLiveVerdict, WayfireFileVerdict, SxhkdVerdict
<1>3. ASSUME NEW meets \in BOOLEAN PROVE CompositorDoes(engine, told.lines, now, meets) = v
  <2>1. CASE engine \in Tiling
    <3>1. v = TilingVerdict
      BY <1>1, <2>1 DEF CompositorVerdict
    <3> QED BY <2>1, <3>1, TilingIsRight
  <2>2. CASE engine \in {"river", "herbstluftwm"}
    <3>1. v = ConditionalVerdict
      BY <1>1, <2>2 DEF CompositorVerdict, Tiling
    <3> QED BY <2>2, <3>1, ConditionalIsRight
  <2>3. CASE engine \in {"dwl", "labwc"}
    <3>1. v = ProcessVerdict
      BY <1>1, <2>3 DEF CompositorVerdict, Tiling
    <3> QED BY <2>3, <3>1, ProcessIsRight
  <2>4. CASE engine = "openbox"
    BY <1>1, <2>4 DEF CompositorVerdict, OpenboxVerdict, Tiling
  <2>5. CASE engine = "niri"
    <3>1. v = NiriVerdict
      BY <1>1, <2>5 DEF CompositorVerdict, Tiling
    <3> QED BY <2>5, <3>1, NiriIsRight
  <2>6. CASE engine = "wayfire" /\ told.live
    <3>1. v = WayfireLiveVerdict
      BY <1>1, <2>6 DEF CompositorVerdict, Tiling
    <3> QED BY <2>6, <3>1, WayfireLiveIsRight
  <2>7. CASE engine = "wayfire" /\ ~told.live
    <3>1. v = WayfireFileVerdict
      BY <1>1, <2>7 DEF CompositorVerdict, Tiling
    <3> QED BY <2>7, <3>1, WayfireFileIsRight
  <2>8. CASE engine = "sxhkd"
    <3>1. v = SxhkdVerdict
      BY <1>1, <2>8 DEF CompositorVerdict, Tiling
    <3> QED BY <2>8, <3>1, SxhkdIsRight
  <2> QED BY <2>1, <2>2, <2>3, <2>4, <2>5, <2>6, <2>7, <2>8 DEF Engines
<1> QED BY <1>2, <1>3 DEF TruthOf

\* The configurations of a compositor.
ConfigFiles(e) == [main : Seq(RealLines(e) \cup {Include}), extra : Seq(RealLines(e))]

\* What whykey may be told by a compositor.
ToldOf(e) ==
    [lines : Seq(RealLines(e)), gap : BOOLEAN, failed : BOOLEAN,
     state : {"default", "other", "unknown", "winit", "connectors", "running", "loaded", "not loaded"},
     configured : BOOLEAN, live : BOOLEAN]

\* The lines of a configuration hold no include any more.
LEMMA LinesAreReal ==
    ASSUME NEW e, NEW files \in ConfigFiles(e)
    PROVE  LinesIn(files) \in Seq(RealLines(e)) /\ WithIncludes(files.main, <<>>) \in Seq(RealLines(e))
<1>1. Include \notin RealLines(e)
  BY DEF RealLines
<1>2. files.main \in Seq(RealLines(e) \cup {Include}) /\ files.extra \in Seq(RealLines(e)) /\ <<>> \in Seq(RealLines(e))
  BY DEF ConfigFiles
<1> QED BY <1>1, <1>2, IncludeFold DEF LinesIn

\* Neither do they with the include of another configuration.
LEMMA OtherLinesAreReal ==
    ASSUME NEW e, NEW files \in ConfigFiles(e), NEW other \in ConfigFiles(e)
    PROVE  WithIncludes(files.main, other.extra) \in Seq(RealLines(e))
<1>1. Include \notin RealLines(e)
  BY DEF RealLines
<1>2. files.main \in Seq(RealLines(e) \cup {Include}) /\ other.extra \in Seq(RealLines(e))
  BY DEF ConfigFiles
<1> QED BY <1>1, <1>2, IncludeFold

\* What the user may still do decides what the lines that were read stand for.
ConfigTypes ==
    /\ engine \in Engines /\ wmPc \in {"config", "state", "done"}
    /\ configChanges \in Nat /\ configChanges <= 2
    /\ running \in ConfigFiles(engine) /\ onDisk \in ConfigFiles(engine)
    /\ session \in Sessions(engine) /\ told \in ToldOf(engine)
    /\ told.gap => engine \in Tiling

\* What becomes of the key under a configuration, as it is and without the plugin.
TruthIn(by, files, now) == TruthOf(by, LinesIn(files), now)

TruthOff(by, files, now) == TruthOf(by, LinesIn(files), [now EXCEPT !.plugin = "off"])

\* What is true of the key now has been recorded.
IsRecorded(lines) == TruthOf(engine, lines, session) \subseteq truths

\* Before the configuration is read: what the user may have changed of it.
BeforeLines ==
    wmPc = "config" =>
        /\ ~told.gap /\ ~told.failed /\ told.state = "unknown" /\ ~told.configured /\ ~told.live
        /\ configChanges = 0 => running = onDisk
        /\ configChanges <= 1 => running.main = onDisk.main \/ running.extra = onDisk.extra

\* After it was read: the lines are of the configuration of now, or what they say of the key
\* has been recorded.
AfterLines ==
    wmPc = "state" /\ engine # "wayfire" /\ ~told.failed /\ ~told.gap =>
        /\ told.state = "unknown"
        /\ configChanges = 0 => running = onDisk /\ told.lines = LinesIn(running) /\ IsRecorded(told.lines)
        /\ configChanges = 1 /\ running = onDisk => told.lines = LinesIn(running)
        /\ configChanges = 1 /\ running # onDisk => IsRecorded(told.lines) \/ told.lines = LinesIn(onDisk)
        /\ running = onDisk => IsRecorded(told.lines) \/ told.lines = LinesIn(running)

\* wayfire.rs: after the libraries were read.
AfterMaps ==
    wmPc = "state" /\ engine = "wayfire" =>
        /\ told.state \in {"loaded", "not loaded", "unknown"} /\ ~told.live
        /\ told.state = "loaded" => session.plugin = "loaded"

\* The plugin was not loaded when whykey asked, and is not loaded yet.
StillOff ==
    wmPc = "state" /\ engine = "wayfire" /\ told.state = "not loaded" /\ session.plugin # "loaded" =>
        /\ configChanges = 0 => running = onDisk
        /\ configChanges \in {0, 1} /\ running = onDisk => TruthIn(engine, running, session) \subseteq truths

\* The plugin was not loaded when whykey asked, and is now.
OffNoMore ==
    wmPc = "state" /\ engine = "wayfire" /\ told.state = "not loaded" /\ session.plugin = "loaded" =>
        /\ configChanges # 0
        /\ running # onDisk => configChanges = 2
        /\ running = onDisk => TruthOff(engine, running, session) \subseteq truths

\* What was told agrees with a state of the compositor whose outcome has been recorded.
WasAnswered ==
    wmPc = "done" /\ running = onDisk /\ ~told.failed /\ ~told.gap =>
        \E now \in Sessions(engine) : AgreesWith(now) /\ TruthOf(engine, told.lines, now) \subseteq truths

\* The invariant of the inspection of a compositor.
ConfigInv ==
    part = "compositor" => ConfigTypes /\ BeforeLines /\ AfterLines /\ AfterMaps /\ StillOff /\ OffNoMore /\ WasAnswered

\* What was told is enough for a definite verdict to be right.
LEMMA ConfigSound == ConfigInv => (part = "compositor" => ConfigVerdictIsSound)
<1> SUFFICES ASSUME ConfigInv, part = "compositor", wmPc = "done", running = onDisk, ~BeyondTheAdapter,
                    CompositorVerdict # "unsure"
             PROVE  CompositorVerdict \in truths
  BY DEF ConfigVerdictIsSound
<1>1. ConfigTypes /\ WasAnswered
  BY DEF ConfigInv
<1>2. ~told.failed
  BY DEF CompositorVerdict
<1>3. told \in ToldOf(engine) /\ engine \in Engines
  BY <1>1 DEF ConfigTypes
<1>4. ~told.gap
  <2>1. ASSUME told.gap PROVE FALSE
    <3>1. told.lines = <<>>
      BY <2>1 DEF BeyondTheAdapter
    <3>2. BindingTable(<<>>) = {}
      <4>1. <<>> \in Seq({})
        OBVIOUS
      <4> QED BY <4>1, TableFold
    <3>3. TilingVerdict = "unsure"
      BY <2>1, <3>1, <3>2 DEF TilingVerdict
    <3> QED BY <1>1, <1>2, <2>1, <3>3 DEF CompositorVerdict, ConfigTypes
  <2> QED BY <2>1
<1>5. PICK now \in Sessions(engine) : AgreesWith(now) /\ TruthOf(engine, told.lines, now) \subseteq truths
  BY <1>1, <1>2, <1>4 DEF WasAnswered
<1>6. told.lines \in Seq(RealLines(engine)) /\ told.configured \in BOOLEAN /\ told.live \in BOOLEAN
  BY <1>3 DEF ToldOf
<1> QED BY <1>3, <1>5, <1>6, ToldIsRight

\* It holds before the first question.
LEMMA ConfigStarts == MaxConfigChanges <= 2 /\ Init => ConfigInv
<1> SUFFICES ASSUME MaxConfigChanges <= 2, Init, part = "compositor" PROVE ConfigInv
  BY DEF ConfigInv
<1>1. ConfigInit
  BY DEF Init
<1>2. /\ engine \in Engines /\ wmPc = "config" /\ configChanges = 0 /\ onDisk = running
      /\ told = [lines |-> <<>>, gap |-> FALSE, failed |-> FALSE, state |-> "unknown",
                 configured |-> FALSE, live |-> FALSE]
  BY <1>1 DEF ConfigInit
<1>3. session \in Sessions(engine)
  BY <1>1 DEF ConfigInit, Sessions
<1>4. told \in ToldOf(engine)
  BY <1>2 DEF ToldOf
<1>5. running \in ConfigFiles(engine)
  <2>0. PICK main \in BoundedSeq(LinesOf(engine), MaxConfigLines) :
            \E more \in Extras(main) : running = [main |-> main, extra |-> more]
    BY <1>1 DEF ConfigInit
  <2>1. PICK more \in Extras(main) : running = [main |-> main, extra |-> more]
    BY <2>0
  <2>2. main \in Seq(LinesOf(engine))
    BY <2>1, CompositorConfigsAssumption DEF BoundedSeq, SeqOf
  <2>3. main \in Seq(RealLines(engine) \cup {Include})
    BY <2>2 DEF RealLines
  <2>4. more \in Seq(RealLines(engine))
    <3>1. more = <<>> \/ \E l \in RealLines(engine) : more = <<l>>
      BY <2>1 DEF Extras, RealLines
    <3>2. \A l \in RealLines(engine) : <<l>> \in Seq(RealLines(engine))
      OBVIOUS
    <3>3. <<>> \in Seq(RealLines(engine))
      OBVIOUS
    <3> QED BY <3>1, <3>2, <3>3
  <2> QED BY <2>1, <2>3, <2>4 DEF ConfigFiles
<1> QED BY <1>2, <1>3, <1>4, <1>5 DEF ConfigInv, ConfigTypes, BeforeLines, AfterLines, AfterMaps, StillOff, OffNoMore, WasAnswered

\* The user's changes.
LEMMA ChangesAreFollowed ==
    ASSUME MaxConfigChanges <= 2, ConfigTypes, BeforeLines, AfterLines, AfterMaps, StillOff, OffNoMore,
           EditConfig \/ ReloadConfig \/ ModeMoves \/ PluginLoads
    PROVE  ConfigTypes' /\ BeforeLines' /\ AfterLines' /\ AfterMaps' /\ StillOff' /\ OffNoMore' /\ WasAnswered'
<1>1. UserChanges
  BY DEF EditConfig, ReloadConfig, ModeMoves, PluginLoads
<1>2. /\ wmPc # "done" /\ configChanges < MaxConfigChanges /\ configChanges' = configChanges + 1
      /\ engine' = engine /\ wmPc' = wmPc /\ told' = told /\ truths' = truths
      /\ configChanges \in {0, 1} /\ configChanges' \in {1, 2}
      /\ configChanges' # 0 /\ (configChanges = 0 \/ configChanges' = 2) /\ (configChanges' = 2 => configChanges' \notin {0, 1})
  BY <1>1, CompositorConfigsAssumption DEF UserChanges, ConfigTypes
<1>3. CASE EditConfig
  <2>1. running' = running /\ session' = session /\ onDisk = running
    BY <1>3 DEF EditConfig
  <2>2. PICK line \in RealLines(engine) :
            \/ onDisk' = [onDisk EXCEPT !.main = Append(@, line)]
            \/ onDisk' = [onDisk EXCEPT !.extra = <<line>>]
    BY <1>3 DEF EditConfig, RealLines
  <2>3. onDisk' \in ConfigFiles(engine) /\ (onDisk'.main = running.main \/ onDisk'.extra = running.extra)
    <3>1. onDisk \in ConfigFiles(engine)
      BY DEF ConfigTypes
    <3>2. /\ onDisk = [main |-> onDisk.main, extra |-> onDisk.extra]
          /\ onDisk.main \in Seq(RealLines(engine) \cup {Include}) /\ onDisk.extra \in Seq(RealLines(engine))
      BY <3>1 DEF ConfigFiles
    <3>3. Append(onDisk.main, line) \in Seq(RealLines(engine) \cup {Include}) /\ <<line>> \in Seq(RealLines(engine))
      BY <3>2
    <3>4. onDisk' \in {[main |-> Append(onDisk.main, line), extra |-> onDisk.extra],
                       [main |-> onDisk.main, extra |-> <<line>>]}
      BY <2>2, <3>2
    <3>5. \A main \in Seq(RealLines(engine) \cup {Include}), more \in Seq(RealLines(engine)) :
              [main |-> main, extra |-> more] \in ConfigFiles(engine)
      BY DEF ConfigFiles
    <3>6. onDisk' \in ConfigFiles(engine)
      BY <3>2, <3>3, <3>4, <3>5
    <3>7. onDisk'.main = onDisk.main \/ onDisk'.extra = onDisk.extra
      BY <3>4
    <3> QED BY <2>1, <3>6, <3>7
  <2>4. ConfigTypes'
    BY <1>2, <2>1, <2>3 DEF ConfigTypes
  <2>5. BeforeLines'
    BY <1>2, <2>1, <2>3 DEF BeforeLines
  <2>6. AfterLines'
    BY <1>2, <2>1 DEF AfterLines, IsRecorded
  <2>7. AfterMaps' /\ StillOff' /\ OffNoMore'
    <3>1. AfterMaps'
      BY <1>2, <2>1 DEF AfterMaps, IsRecorded
    <3>2. StillOff'
      BY <1>2, <2>1 DEF StillOff, IsRecorded
    <3>3. OffNoMore'
      BY <1>2, <2>1 DEF OffNoMore, IsRecorded
    <3> QED BY <3>1, <3>2, <3>3
  <2> QED BY <1>2, <2>4, <2>5, <2>6, <2>7 DEF WasAnswered
<1>4. CASE ReloadConfig
  <2>1. running # onDisk /\ running' = onDisk /\ onDisk' = onDisk /\ session' = session
    BY <1>4 DEF ReloadConfig
  <2>2. ConfigTypes'
    BY <1>2, <2>1 DEF ConfigTypes
  <2>3. BeforeLines'
    BY <1>2, <2>1 DEF BeforeLines
  <2>4. AfterLines'
    BY <1>2, <2>1 DEF AfterLines, IsRecorded
  <2>5. AfterMaps' /\ StillOff' /\ OffNoMore'
    <3>1. AfterMaps'
      BY <1>2, <2>1 DEF AfterMaps, IsRecorded
    <3>2. StillOff'
      BY <1>2, <2>1 DEF StillOff, IsRecorded
    <3>3. OffNoMore'
      BY <1>2, <2>1 DEF OffNoMore, IsRecorded
    <3> QED BY <3>1, <3>2, <3>3
  <2> QED BY <1>2, <2>2, <2>3, <2>4, <2>5 DEF WasAnswered
<1>5. CASE ModeMoves
  <2>1. running' = running /\ onDisk' = onDisk /\ engine \in Tiling \cup {"river"}
        /\ session' = [session EXCEPT !.mode = IF @ = "default" THEN "other" ELSE "default"]
    BY <1>5 DEF ModeMoves
  <2>2. session' \in Sessions(engine) /\ engine # "wayfire"
    BY <2>1 DEF ConfigTypes, Sessions, Tiling
  <2>3. ConfigTypes'
    BY <1>2, <2>1, <2>2 DEF ConfigTypes
  <2>4. BeforeLines'
    BY <1>2, <2>1 DEF BeforeLines
  <2>5. AfterLines'
    BY <1>2, <2>1 DEF AfterLines, IsRecorded
  <2>6. AfterMaps' /\ StillOff' /\ OffNoMore'
    <3>1. AfterMaps'
      BY <1>2, <2>2 DEF AfterMaps, IsRecorded
    <3>2. StillOff'
      BY <1>2, <2>2 DEF StillOff, IsRecorded
    <3>3. OffNoMore'
      BY <1>2, <2>2 DEF OffNoMore, IsRecorded
    <3> QED BY <3>1, <3>2, <3>3
  <2> QED BY <1>2, <2>3, <2>4, <2>5, <2>6 DEF WasAnswered
<1>6. CASE PluginLoads
  <2>1. running' = running /\ onDisk' = onDisk /\ engine = "wayfire" /\ session.plugin = "off"
        /\ session' = [session EXCEPT !.plugin = "loaded"]
    BY <1>6 DEF PluginLoads
  <2>2. session' \in Sessions(engine) /\ session'.plugin = "loaded" /\ [session' EXCEPT !.plugin = "off"] = session
    BY <2>1 DEF ConfigTypes, Sessions
  <2>0. TruthOff(engine, running, session') = TruthIn(engine, running, session)
    BY <2>2 DEF TruthOff, TruthIn
  <2>3. ConfigTypes'
    BY <1>2, <2>1, <2>2 DEF ConfigTypes
  <2>4. BeforeLines'
    BY <1>2, <2>1 DEF BeforeLines
  <2>5. AfterLines'
    BY <1>2, <2>1 DEF AfterLines
  <2>6. AfterMaps' /\ StillOff' /\ OffNoMore'
    <3>1. AfterMaps'
      BY <1>2, <2>1, <2>2 DEF AfterMaps, IsRecorded
    <3>2. StillOff'
      BY <1>2, <2>1, <2>2 DEF StillOff, IsRecorded
    <3>3. OffNoMore'
      BY <1>2, <2>0, <2>1, <2>2 DEF OffNoMore, StillOff, IsRecorded
    <3> QED BY <3>1, <3>2, <3>3
  <2> QED BY <1>2, <2>3, <2>4, <2>5, <2>6 DEF WasAnswered
<1> QED BY <1>3, <1>4, <1>5, <1>6

\* The questions whykey asks.
LEMMA AnswersAreFollowed ==
    ASSUME ConfigTypes, BeforeLines, AfterLines, AfterMaps, StillOff, OffNoMore,
           \/ GetConfig \/ GetBindingState \/ ReadConfig \/ AskOutputs \/ CollectProcesses
           \/ NothingMoreToAsk \/ ReadMaps \/ AskOptions
    PROVE  ConfigTypes' /\ BeforeLines' /\ AfterLines' /\ AfterMaps' /\ StillOff' /\ OffNoMore' /\ WasAnswered'
<1>1. /\ truths' = truths \cup TruthOf(engine, LinesIn(running), session)
      /\ engine' = engine /\ running' = running /\ onDisk' = onDisk /\ session' = session
      /\ configChanges' = configChanges
  BY DEF GetConfig, GetBindingState, ReadConfig, AskOutputs, CollectProcesses, NothingMoreToAsk, ReadMaps,
         AskOptions, AsksNow
<1>2. engine \in Engines /\ running \in ConfigFiles(engine) /\ onDisk \in ConfigFiles(engine)
      /\ session \in Sessions(engine) /\ told \in ToldOf(engine)
      /\ (configChanges = 0 \/ configChanges = 1 \/ configChanges = 2)
  BY DEF ConfigTypes
<1>3. LinesIn(running) \in Seq(RealLines(engine)) /\ LinesIn(onDisk) \in Seq(RealLines(engine))
  BY <1>2, LinesAreReal
<1>4. ASSUME told' \in ToldOf(engine), wmPc' \in {"state", "done"}, told'.gap => engine \in Tiling
      PROVE  ConfigTypes' /\ BeforeLines'
  BY <1>1, <1>4 DEF ConfigTypes, BeforeLines
<1>5. ASSUME wmPc' = "done"
      PROVE  AfterLines' /\ AfterMaps' /\ StillOff' /\ OffNoMore'
  BY <1>5 DEF AfterLines, AfterMaps, StillOff, OffNoMore
<1>6. ASSUME wmPc = "config", wmPc' = "state", engine # "wayfire", told'.state = told.state,
             NEW files \in ConfigFiles(engine), ~told'.failed /\ ~told'.gap => told'.lines = LinesIn(files),
             configChanges = 0 \/ configChanges = 1 => files = running \/ files = onDisk,
             running = onDisk => files = running
      PROVE  AfterLines' /\ AfterMaps' /\ StillOff' /\ OffNoMore' /\ WasAnswered'
  <2>1. told.state = "unknown" /\ (configChanges = 0 => running = onDisk)
    BY <1>6 DEF BeforeLines
  <2>2. AfterLines'
    BY <1>1, <1>6, <2>1 DEF AfterLines, IsRecorded
  <2> QED BY <1>1, <1>6, <2>2 DEF AfterMaps, StillOff, OffNoMore, WasAnswered
<1>7. ASSUME wmPc = "state", wmPc' = "done", engine # "wayfire", NEW s, told' = [told EXCEPT !.state = s],
             AgreesWith(session)'
      PROVE  WasAnswered'
  <2>1. told'.lines = told.lines /\ told'.failed = told.failed /\ told'.gap = told.gap
    BY <1>2, <1>7 DEF ToldOf
  <2>2. SUFFICES ASSUME running = onDisk, ~told.failed, ~told.gap
                 PROVE  TruthOf(engine, told'.lines, session) \subseteq truths'
    BY <1>1, <1>2, <1>7, <2>1 DEF WasAnswered
  <2>3. IsRecorded(told.lines) \/ told.lines = LinesIn(running)
    BY <1>7, <2>2 DEF AfterLines
  <2> QED BY <1>1, <2>1, <2>3 DEF IsRecorded
<1>8. CASE GetConfig
  <2>1. wmPc = "config" /\ wmPc' = "state" /\ engine \in Tiling /\ engine # "wayfire"
    BY <1>8 DEF GetConfig, Tiling
  <2>2. CASE told' = [told EXCEPT !.failed = TRUE]
    <3>1. told' \in ToldOf(engine) /\ told'.state = told.state /\ told'.failed
      BY <1>2, <2>2 DEF ToldOf
    <3> QED BY <1>2, <1>4, <1>6, <2>1, <3>1
  <2>3. ASSUME NEW more \in {running.extra, onDisk.extra},
               told' = [told EXCEPT !.lines = WithIncludes(running.main, more)]
        PROVE  ConfigTypes' /\ BeforeLines' /\ AfterLines' /\ AfterMaps' /\ StillOff' /\ OffNoMore' /\ WasAnswered'
    <3>1. WithIncludes(running.main, more) \in Seq(RealLines(engine))
      BY <1>2, OtherLinesAreReal
    <3>2. told' \in ToldOf(engine) /\ told'.state = told.state /\ told'.lines = WithIncludes(running.main, more)
      BY <1>2, <2>3, <3>1 DEF ToldOf
    <3> DEFINE files == [main |-> running.main, extra |-> more]
    <3>3. files \in ConfigFiles(engine) /\ LinesIn(files) = WithIncludes(running.main, more)
      BY <1>2 DEF ConfigFiles, LinesIn
    <3>4. \A one, other \in ConfigFiles(engine) : one.main = other.main /\ one.extra = other.extra => one = other
      BY DEF ConfigFiles
    <3>5. files.main = running.main /\ files.extra = more
      OBVIOUS
    <3> HIDE DEF files
    <3>6. configChanges = 0 \/ configChanges = 1 => running.main = onDisk.main \/ running.extra = onDisk.extra
      BY <2>1 DEF BeforeLines
    <3>7. configChanges = 0 \/ configChanges = 1 => files = running \/ files = onDisk
      BY <1>2, <3>3, <3>4, <3>5, <3>6
    <3>8. running = onDisk => files = running
      BY <1>2, <3>3, <3>4, <3>5
    <3> QED BY <1>4, <1>6, <2>1, <3>2, <3>3, <3>7, <3>8
  <2>4. CASE told' = [told EXCEPT !.lines = WithIncludes(running.main, <<>>), !.gap = TRUE]
    <3>1. WithIncludes(running.main, <<>>) \in Seq(RealLines(engine))
      BY <1>2, LinesAreReal
    <3>2. told' \in ToldOf(engine) /\ told'.state = told.state /\ told'.gap
      BY <1>2, <2>4, <3>1 DEF ToldOf
    <3> QED BY <1>2, <1>4, <1>6, <2>1, <3>2
  <2> QED BY <1>8, <2>2, <2>3, <2>4 DEF GetConfig
<1>9. CASE ReadConfig
  <2>1. wmPc = "config" /\ wmPc' = "state" /\ engine # "wayfire" /\ engine \notin Tiling
    BY <1>9 DEF ReadConfig
  <2>2. PICK files \in {running, onDisk} :
            told' = [told EXCEPT !.failed = TRUE] \/ told' = [told EXCEPT !.lines = LinesIn(files)]
    BY <1>9 DEF ReadConfig
  <2>3. LinesIn(files) \in Seq(RealLines(engine)) /\ files \in ConfigFiles(engine)
    BY <1>2, <1>3, <2>2
  <2>4. told' \in ToldOf(engine) /\ told'.state = told.state /\ told'.gap = told.gap
        /\ (~told'.failed => told'.lines = LinesIn(files))
    BY <1>2, <2>2, <2>3 DEF ToldOf
  <2>5. ~told.gap
    BY <2>1 DEF BeforeLines
  <2> QED BY <1>4, <1>6, <2>1, <2>2, <2>3, <2>4, <2>5
<1>10. CASE ReadMaps
  <2>1. wmPc = "config" /\ wmPc' = "state" /\ engine = "wayfire" /\ engine \notin Tiling
    BY <1>10 DEF ReadMaps, Tiling
  <2>2. ~told.gap /\ ~told.failed /\ told.state = "unknown" /\ ~told.live /\ (configChanges = 0 => running = onDisk)
    BY <2>1 DEF BeforeLines
  <2>3. PICK s \in {"loaded", "not loaded", "unknown"} :
            /\ told' = [told EXCEPT !.state = s]
            /\ s = "unknown" \/ s = IF session.plugin = "loaded" THEN "loaded" ELSE "not loaded"
    <3>1. told = [told EXCEPT !.state = "unknown"]
      BY <1>2, <2>2 DEF ToldOf
    <3>2. \/ told' = [told EXCEPT !.state = IF session.plugin = "loaded" THEN "loaded" ELSE "not loaded"]
          \/ told' = told
      BY <1>10 DEF ReadMaps
    <3> QED BY <3>1, <3>2
  <2>4. told' \in ToldOf(engine) /\ told'.state = s /\ told'.gap = told.gap /\ told'.live = told.live
    BY <1>2, <2>3 DEF ToldOf
  <2>5. AfterLines' /\ WasAnswered'
    BY <1>1, <2>1 DEF AfterLines, WasAnswered
  <2>6. AfterMaps'
    BY <1>1, <2>1, <2>2, <2>3, <2>4 DEF AfterMaps
  <2>7. StillOff'
    <3>1. TruthIn(engine, running, session) \subseteq truths'
      BY <1>1 DEF TruthIn
    <3> QED BY <1>1, <2>2, <3>1 DEF StillOff
  <2>8. OffNoMore'
    BY <1>1, <2>3, <2>4 DEF OffNoMore
  <2> QED BY <1>4, <2>1, <2>2, <2>4, <2>5, <2>6, <2>7, <2>8
<1>11. CASE GetBindingState
  <2>1. wmPc = "state" /\ wmPc' = "done" /\ engine \in Tiling /\ engine # "wayfire"
        /\ engine \notin {"niri", "dwl", "labwc"}
    BY <1>11 DEF GetBindingState, Tiling
  <2>2. PICK s \in {session.mode, "unknown"} : told' = [told EXCEPT !.state = s]
    BY <1>11 DEF GetBindingState
  <2>3. s \in {"default", "other", "unknown"}
    BY <1>2, <2>2 DEF Sessions
  <2>4. told' \in ToldOf(engine) /\ told'.state = s
    BY <1>2, <2>2, <2>3 DEF ToldOf
  <2>5. AgreesWith(session)'
    BY <1>1, <2>1, <2>2, <2>4 DEF AgreesWith
  <2> QED BY <1>4, <1>5, <1>7, <2>1, <2>2, <2>4, <2>5
<1>12. CASE AskOutputs
  <2>1. wmPc = "state" /\ wmPc' = "done" /\ engine = "niri" /\ engine \notin Tiling
    BY <1>12 DEF AskOutputs, Tiling
  <2>2. PICK s \in {"unknown", "winit", "connectors"} :
            told' = [told EXCEPT !.state = s] /\ (s = "winit" => session.nested)
    BY <1>12 DEF AskOutputs
  <2>4. told' \in ToldOf(engine) /\ told'.state = s /\ told'.gap = told.gap
    BY <1>2, <2>2 DEF ToldOf
  <2>5. AgreesWith(session)'
    BY <1>1, <2>1, <2>2, <2>4 DEF AgreesWith
  <2>6. told.gap => engine \in Tiling
    BY DEF ConfigTypes
  <2> QED BY <1>4, <1>5, <1>7, <2>1, <2>2, <2>4, <2>5, <2>6
<1>13. CASE CollectProcesses
  <2>1. wmPc = "state" /\ wmPc' = "done" /\ engine \in {"dwl", "labwc"} /\ engine \notin Tiling
        /\ engine \notin {"niri", "wayfire"}
    BY <1>13 DEF CollectProcesses, Tiling
  <2>2. PICK s \in {"unknown", "running"} :
            told' = [told EXCEPT !.state = s] /\ (s = "running" => session.alive)
    BY <1>13 DEF CollectProcesses
  <2>4. told' \in ToldOf(engine) /\ told'.state = s /\ told'.gap = told.gap
    BY <1>2, <2>2 DEF ToldOf
  <2>5. AgreesWith(session)'
    BY <1>1, <2>1, <2>2, <2>4 DEF AgreesWith
  <2>6. told.gap => engine \in Tiling
    BY DEF ConfigTypes
  <2> QED BY <1>4, <1>5, <1>7, <2>1, <2>2, <2>4, <2>5, <2>6
<1>14. CASE NothingMoreToAsk
  <2>1. wmPc = "state" /\ wmPc' = "done" /\ engine \notin Tiling \cup {"niri", "wayfire", "dwl", "labwc"}
        /\ told' = told
    BY <1>14 DEF NothingMoreToAsk, Tiling
  <2>2. told' = [told EXCEPT !.state = told.state]
    BY <1>2, <2>1 DEF ToldOf
  <2>5. AgreesWith(session)'
    BY <1>1, <2>1 DEF AgreesWith
  <2>6. told.gap => engine \in Tiling
    BY DEF ConfigTypes
  <2> QED BY <1>2, <1>4, <1>5, <1>7, <2>1, <2>2, <2>5, <2>6
<1>15. CASE AskOptions
  <2>1. wmPc = "state" /\ wmPc' = "done" /\ engine = "wayfire" /\ engine \notin Tiling
    BY <1>15 DEF AskOptions, Tiling
  <2>2. \/ told' = [told EXCEPT !.lines = LinesIn(running), !.live = TRUE, !.configured = session.plugin # "off"]
        \/ told' = [told EXCEPT !.lines = LinesIn(onDisk)]
    BY <1>15 DEF AskOptions
  <2>3. told' \in ToldOf(engine) /\ told'.gap = told.gap /\ told'.state = told.state
        /\ (running = onDisk => told'.lines = LinesIn(running))
        /\ (told'.live = told.live \/ (told'.configured <=> session.plugin # "off"))
    BY <1>2, <1>3, <2>2 DEF ToldOf
  <2>4. told.state \in {"loaded", "not loaded", "unknown"} /\ ~told.live
        /\ (told.state = "loaded" => session.plugin = "loaded")
    BY <2>1 DEF AfterMaps
  <2>5. told.gap => engine \in Tiling
    BY DEF ConfigTypes
  <2>6. ConfigTypes' /\ BeforeLines' /\ AfterLines' /\ AfterMaps' /\ StillOff' /\ OffNoMore'
    BY <1>4, <1>5, <2>1, <2>3, <2>5
  <2>7. SUFFICES ASSUME running = onDisk PROVE WasAnswered'
    BY <1>1, <2>6 DEF WasAnswered
  <2>8. CASE told.state = "not loaded" /\ session.plugin = "loaded"
    <3>0. [session EXCEPT !.plugin = "off"] \in Sessions(engine)
      BY <1>2, <2>1 DEF Sessions, Tiling
    <3>1. PICK now \in Sessions(engine) : now = [session EXCEPT !.plugin = "off"]
      BY <3>0
    <3>2. now.plugin = "off"
      BY <1>2, <3>1 DEF Sessions
    <3>3. TruthOf(engine, LinesIn(running), now) \subseteq truths
      BY <2>1, <2>7, <2>8, <3>1 DEF OffNoMore, TruthOff
    <3>4. AgreesWith(now)'
      BY <1>1, <2>1, <2>3, <2>8, <3>2 DEF AgreesWith
    <3>5. TruthOf(engine, told'.lines, now) \subseteq truths'
      BY <1>1, <2>3, <2>7, <3>3
    <3> QED BY <1>1, <3>4, <3>5 DEF WasAnswered
  <2>9. CASE ~ (told.state = "not loaded" /\ session.plugin = "loaded")
    <3>1. AgreesWith(session)'
      BY <1>1, <2>1, <2>3, <2>4, <2>9 DEF AgreesWith
    <3>2. TruthOf(engine, told'.lines, session) \subseteq truths'
      BY <1>1, <2>3, <2>7
    <3> QED BY <1>1, <1>2, <3>1, <3>2 DEF WasAnswered
  <2> QED BY <2>6, <2>8, <2>9
<1> QED BY <1>8, <1>9, <1>10, <1>11, <1>12, <1>13, <1>14, <1>15

\* It survives every question and every change of the user's.
LEMMA ConfigSteps == MaxConfigChanges <= 2 /\ ConfigInv /\ [Next]_mcVars => ConfigInv'
<1> SUFFICES ASSUME MaxConfigChanges <= 2, ConfigInv, [Next]_mcVars, part' = "compositor" PROVE ConfigInv'
  BY DEF ConfigInv
<1>1. ASSUME UNCHANGED <<part, configVars>> PROVE ConfigInv'
  BY <1>1 DEF ConfigInv, configVars, ConfigTypes, BeforeLines, AfterLines, AfterMaps, StillOff, OffNoMore,
              WasAnswered, IsRecorded, AgreesWith
<1>2. CASE CompositorStep
  <2>1. part = "compositor" /\ ConfigNext
    BY <1>2 DEF CompositorStep
  <2>2. ConfigTypes /\ BeforeLines /\ AfterLines /\ AfterMaps /\ StillOff /\ OffNoMore
    BY <2>1 DEF ConfigInv
  <2> QED BY <2>1, <2>2, ChangesAreFollowed, AnswersAreFollowed DEF ConfigNext, ConfigInv
<1> QED BY <1>1, <1>2 DEF Next, mcVars, HyprlandStep, DesktopStep, MethodStep, BindingsStep, AppStep, ChainStep

\* Compositors: a definite verdict was right while whykey asked, if the user changes
\* at most two things meanwhile.
THEOREM CompositorsAreRight ==
    MaxConfigChanges <= 2 => (Spec => [](part = "compositor" => ConfigVerdictIsSound))
<1> SUFFICES ASSUME MaxConfigChanges <= 2 PROVE Spec => [](part = "compositor" => ConfigVerdictIsSound)
  OBVIOUS
<1>1. ConfigInv => (part = "compositor" => ConfigVerdictIsSound)
  BY ConfigSound
<1>2. Init => ConfigInv
  BY ConfigStarts
<1>3. ConfigInv /\ [Next]_mcVars => ConfigInv'
  BY ConfigSteps
<1> QED BY <1>1, <1>2, <1>3, PTL DEF Spec

-----------------------------------------------------------------------------
(* Desktop environments. *)
\* What whykey may have been told of a source, and of a daemon.
Replies == {"unasked", "failed", "unbound", "ours", "opaque"}

DaemonReplies == {"unasked", "failed", "up", "down"}

ShortcutsOf(d) == [ToSet(Sources(d)) -> {"unbound", "ours", "opaque"}]

\* What was told is so of these shortcuts and these daemons.
AgreesWithFate(set, alive) ==
    /\ \A i \in DOMAIN replies : replies[i] \in {"unasked", "failed", set[Sources(desktop)[i]]}
    /\ \A o \in DOMAIN daemons : daemons[o] \in {"unasked", "failed", IF o \in alive THEN "up" ELSE "down"}

\* These shortcuts and these daemons are those of now but for one of them.
OneApart(set, alive) ==
    \/ alive = up /\ \E k : \A s \in ToSet(Sources(desktop)) \ {k} : set[s] = shortcuts[s]
    \/ set = shortcuts /\ \E k : \A o : o # k => (o \in alive <=> o \in up)

\* The desktop and what it may have said.
DesktopTypes ==
    /\ desktop \in Desktops
    /\ shortcuts \in ShortcutsOf(desktop)
    /\ up \in SUBSET Fickle(desktop)
    /\ replies \in [DOMAIN Sources(desktop) -> Replies]
    /\ daemons \in [Fickle(desktop) -> DaemonReplies]
    /\ desktopMoves \in Nat

\* All that was told is so of one state of the desktop, the one of now or the one before the
\* last change, and what becomes of the key in it has been recorded.
OneFate ==
    \E set \in ShortcutsOf(desktop), alive \in SUBSET Fickle(desktop) :
        /\ AgreesWithFate(set, alive) /\ Fate(set, alive) \in fatesSeen
        /\ IF desktopMoves = 0 THEN set = shortcuts /\ alive = up ELSE OneApart(set, alive)

\* The desktop is followed as long as no more than one thing of it changes.
DesktopInv ==
    part = "desktop" =>
        /\ DesktopTypes /\ Fate(shortcuts, up) \in fatesSeen
        /\ desktopMoves <= 1 => OneFate

\* No source is asked twice.
LEMMA SourcesDiffer ==
    ASSUME NEW d \in Desktops
    PROVE  /\ \A i, j \in DOMAIN Sources(d) : Sources(d)[i] = Sources(d)[j] => i = j
           /\ \A i \in DOMAIN Sources(d) : Sources(d)[i] \in ToSet(Sources(d))
           /\ 1 \in DOMAIN Sources(d)
<1>1. CASE d = "kde"
  <2>1. Sources(d) = <<"kwin", "application">>
    BY <1>1, Zenon DEF Sources
  <2> QED BY <2>1, SMT DEF ToSet
<1>2. CASE d = "gnome"
  <2>1. Sources(d) = <<"mutter", "shell", "media", "custom">>
    BY <1>2, Zenon DEF Sources
  <2> QED BY <2>1, SMT DEF ToSet
<1>3. CASE d \in {"mate", "cinnamon"}
  <2>1. Sources(d) = <<"wm", "media", "custom">>
    BY <1>3, Zenon DEF Sources
  <2> QED BY <2>1, SMT DEF ToSet
<1>4. CASE d = "xfce"
  <2>1. Sources(d) = <<"commands">>
    BY <1>4, Zenon DEF Sources
  <2> QED BY <2>1, SMT DEF ToSet
<1>5. CASE d = "kde alone"
  <2>1. Sources(d) = <<"kwinrc">>
    BY <1>5, Zenon DEF Sources
  <2> QED BY <2>1, SMT DEF ToSet
<1>6. CASE d = "gnome alone"
  <2>1. Sources(d) = <<"overlay-key">>
    BY <1>6, Zenon DEF Sources
  <2> QED BY <2>1, SMT DEF ToSet
<1> QED BY <1>1, <1>2, <1>3, <1>4, <1>5, <1>6 DEF Desktops

\* Every daemon that has a grab may be down, but the compositor itself.
LEMMA OwnersComeAndGo ==
    ASSUME NEW d \in Desktops, NEW i \in DOMAIN Sources(d)
    PROVE  /\ Owner(d, Sources(d)[i]) \in Fickle(d) \cup {"compositor"}
           /\ d = "kde" => Owner(d, Sources(d)[i]) \in Fickle(d) \ {"reader", "compositor"} /\ "reader" \in Fickle(d)
           /\ d \notin {"kde", "gnome"} => Owner(d, Sources(d)[i]) = "compositor"
<1>1. Owner(d, Sources(d)[i]) \in OwnersOf(d)
  BY SourcesDiffer DEF OwnersOf
<1>2. Owner(d, Sources(d)[i]) \in Fickle(d) \cup {"compositor"}
  BY <1>1 DEF Fickle
<1>3. ASSUME d = "kde"
      PROVE  Owner(d, Sources(d)[i]) \in Fickle(d) \ {"reader", "compositor"} /\ "reader" \in Fickle(d)
  <2>1. Sources(d) = <<"kwin", "application">>
    BY <1>3, Zenon DEF Sources
  <2>2. Owner(d, Sources(d)[i]) = Sources(d)[i]
    BY <1>3, Zenon DEF Owner
  <2>3. Sources(d)[i] \in {"kwin", "application"}
    BY <2>1, SMT
  <2> QED BY <1>2, <1>3, <2>2, <2>3 DEF Fickle
<1>4. ASSUME d \notin {"kde", "gnome"} PROVE Owner(d, Sources(d)[i]) = "compositor"
  BY <1>4 DEF Owner
<1> QED BY <1>2, <1>3, <1>4

\* It holds before the first question.
LEMMA DesktopStarts == Init => DesktopInv
<1> SUFFICES ASSUME Init, part = "desktop"
             PROVE  DesktopTypes /\ Fate(shortcuts, up) \in fatesSeen /\ OneFate
  BY DEF DesktopInv
<1>1. DesktopInit
  BY DEF Init
<1>2. /\ desktop \in Desktops
      /\ shortcuts \in [ToSet(Sources(desktop)) -> Settings(desktop)]
      /\ up \in SUBSET Fickle(desktop)
      /\ replies = [i \in DOMAIN Sources(desktop) |-> "unasked"]
      /\ daemons = [o \in Fickle(desktop) |-> "unasked"]
      /\ desktopMoves = 0 /\ Fate(shortcuts, up) \in fatesSeen
  BY <1>1 DEF DesktopInit, Consumes
<1>3. shortcuts \in ShortcutsOf(desktop)
  BY <1>2 DEF ShortcutsOf, Settings
<1>4. DesktopTypes
  BY <1>2, <1>3 DEF DesktopTypes, Replies, DaemonReplies
<1>5. AgreesWithFate(shortcuts, up)
  BY <1>2 DEF AgreesWithFate
<1> QED BY <1>2, <1>3, <1>4, <1>5 DEF OneFate

\* The user's and the daemons' changes.
LEMMA MovesAreFollowed ==
    ASSUME DesktopTypes, Fate(shortcuts, up) \in fatesSeen, desktopMoves <= 1 => OneFate,
           SetShortcut \/ DaemonComesOrGoes
    PROVE  DesktopTypes' /\ (Fate(shortcuts, up) \in fatesSeen)' /\ (desktopMoves <= 1 => OneFate)'
<1>1. /\ desktopMoves' = desktopMoves + 1 /\ desktop' = desktop /\ replies' = replies /\ daemons' = daemons
      /\ fatesSeen' = fatesSeen \cup {Fate(shortcuts, up)'}
  BY DEF SetShortcut, DaemonComesOrGoes, Move, Witness, Consumes
<1>2. /\ desktop \in Desktops /\ shortcuts \in ShortcutsOf(desktop) /\ up \in SUBSET Fickle(desktop)
      /\ replies \in [DOMAIN Sources(desktop) -> Replies] /\ daemons \in [Fickle(desktop) -> DaemonReplies]
      /\ desktopMoves \in Nat /\ desktopMoves' \in Nat /\ (desktopMoves' <= 1 => desktopMoves = 0 /\ desktopMoves' # 0)
  BY <1>1 DEF DesktopTypes
<1>3. /\ shortcuts' \in ShortcutsOf(desktop) /\ up' \in SUBSET Fickle(desktop)
      /\ \/ up = up' /\ \E k : \A s \in ToSet(Sources(desktop)) \ {k} : shortcuts[s] = shortcuts'[s]
         \/ shortcuts = shortcuts' /\ \E k : \A o : o # k => (o \in up <=> o \in up')
  <2>1. CASE SetShortcut
    <3>1. PICK source \in DOMAIN shortcuts, to \in Settings(desktop) : shortcuts' = [shortcuts EXCEPT ![source] = to]
      BY <2>1 DEF SetShortcut
    <3>2. to \in {"unbound", "ours", "opaque"} /\ up' = up
      BY <2>1, <3>1 DEF SetShortcut, Settings
    <3> QED BY <1>2, <3>1, <3>2 DEF ShortcutsOf
  <2>2. CASE DaemonComesOrGoes
    <3>1. PICK o \in Fickle(desktop) : up' = (IF o \in up THEN up \ {o} ELSE up \union {o})
      BY <2>2 DEF DaemonComesOrGoes
    <3>2. shortcuts' = shortcuts
      BY <2>2 DEF DaemonComesOrGoes
    <3> QED BY <1>2, <3>1, <3>2
  <2> QED BY <2>1, <2>2
<1>4. DesktopTypes'
  BY <1>1, <1>2, <1>3 DEF DesktopTypes
<1>5. ASSUME desktopMoves' <= 1 PROVE OneFate'
  <2>1. desktopMoves = 0 /\ desktopMoves' # 0 /\ OneFate
    BY <1>2, <1>5
  <2>2. AgreesWithFate(shortcuts, up) /\ Fate(shortcuts, up) \in fatesSeen
    BY <2>1 DEF OneFate
  <2>3. PICK s \in ShortcutsOf(desktop), a \in SUBSET Fickle(desktop) :
            s = shortcuts /\ a = up
    BY <1>2
  <2>4. AgreesWithFate(s, a)' /\ (Fate(s, a) \in fatesSeen)'
    <3>1. AgreesWithFate(s, a) /\ Fate(s, a) \in fatesSeen
      BY <2>2, <2>3
    <3>2. AgreesWithFate(s, a)'
      BY <1>1, <3>1 DEF AgreesWithFate
    <3>3. Fate(s, a)' = Fate(s, a)
      BY <1>1 DEF Fate
    <3> QED BY <1>1, <3>1, <3>2, <3>3
  <2>5. OneApart(s, a)'
    BY <1>1, <1>3, <2>3 DEF OneApart
  <2> QED BY <1>1, <2>1, <2>3, <2>4, <2>5 DEF OneFate
<1> QED BY <1>1, <1>4, <1>5

\* Of two states of the desktop that differ in one thing, one agrees with all that was told,
\* and with one answer more.
LEMMA AnswersAgree ==
    ASSUME DesktopTypes, OneFate, Fate(shortcuts, up) \in fatesSeen, Asking,
           replies' \in [DOMAIN Sources(desktop) -> Replies], daemons' \in [Fickle(desktop) -> DaemonReplies],
           \A i \in DOMAIN Sources(desktop) :
              replies'[i] \in {replies[i], "failed", shortcuts[Sources(desktop)[i]]},
           \A o \in Fickle(desktop) : daemons'[o] \in {daemons[o], "failed", IF o \in up THEN "up" ELSE "down"}
    PROVE  OneFate'
<1>1. /\ desktop' = desktop /\ shortcuts' = shortcuts /\ up' = up /\ desktopMoves' = desktopMoves /\ fatesSeen' = fatesSeen
  BY DEF Asking
<1>2. /\ desktop \in Desktops /\ shortcuts \in ShortcutsOf(desktop) /\ up \in SUBSET Fickle(desktop)
      /\ DOMAIN replies = DOMAIN Sources(desktop) /\ DOMAIN daemons = Fickle(desktop)
      /\ DOMAIN replies' = DOMAIN Sources(desktop) /\ DOMAIN daemons' = Fickle(desktop)
  BY DEF DesktopTypes
<1>3. PICK set \in ShortcutsOf(desktop), alive \in SUBSET Fickle(desktop) :
          /\ AgreesWithFate(set, alive) /\ Fate(set, alive) \in fatesSeen
          /\ IF desktopMoves = 0 THEN set = shortcuts /\ alive = up ELSE OneApart(set, alive)
  BY DEF OneFate
<1>4. SUFFICES ASSUME NEW s \in ShortcutsOf(desktop), NEW a \in SUBSET Fickle(desktop),
                      Fate(s, a) \in fatesSeen,
                      IF desktopMoves = 0 THEN s = shortcuts /\ a = up ELSE OneApart(s, a),
                      \/ AgreesWithFate(s, a)'
                      \/ s = set /\ a = alive /\ ~AgreesWithFate(s, a)'
               PROVE  OneFate'
  <2>1. PICK s \in ShortcutsOf(desktop), a \in SUBSET Fickle(desktop) : s = set /\ a = alive
    OBVIOUS
  <2> QED BY <1>3, <2>1
<1>5. ASSUME NEW t \in ShortcutsOf(desktop), NEW b \in SUBSET Fickle(desktop),
             AgreesWithFate(t, b)', Fate(t, b) \in fatesSeen,
             IF desktopMoves = 0 THEN t = shortcuts /\ b = up ELSE OneApart(t, b)
      PROVE  OneFate'
  <2>1. Fate(t, b)' = Fate(t, b) /\ (OneApart(t, b)' <=> OneApart(t, b))
    BY <1>1 DEF Fate, OneApart
  <2>2. Fate(t, b)' \in fatesSeen'
    BY <1>1, <1>5, <2>1
  <2> QED BY <1>1, <1>5, <2>1, <2>2 DEF OneFate
<1>6. CASE AgreesWithFate(s, a)'
  BY <1>4, <1>5, <1>6
<1>7. ASSUME s = set, a = alive, ~AgreesWithFate(s, a)' PROVE OneFate'
  <2>1. \/ \E i \in DOMAIN Sources(desktop) :
              /\ replies'[i] \notin {"unasked", "failed", s[Sources(desktop)[i]]}
              /\ replies'[i] = shortcuts[Sources(desktop)[i]]
        \/ \E o \in Fickle(desktop) :
              /\ daemons'[o] \notin {"unasked", "failed", IF o \in a THEN "up" ELSE "down"}
              /\ daemons'[o] = IF o \in up THEN "up" ELSE "down"
    BY <1>1, <1>2, <1>3, <1>7 DEF AgreesWithFate
  <2>2. desktopMoves # 0 /\ OneApart(s, a)
    BY <1>2, <1>4, <2>1
  <2>3. PICK t \in ShortcutsOf(desktop), b \in SUBSET Fickle(desktop) : t = shortcuts /\ b = up
    BY <1>2
  <2>4. OneApart(t, b)
    BY <2>3 DEF OneApart
  <2>5. \A i \in DOMAIN Sources(desktop) : replies'[i] \in {"unasked", "failed", shortcuts[Sources(desktop)[i]]}
    <3>1. SUFFICES ASSUME NEW j \in DOMAIN Sources(desktop), replies'[j] = replies[j],
                          replies[j] \notin {"unasked", "failed"}, replies[j] # shortcuts[Sources(desktop)[j]]
                   PROVE  FALSE
      OBVIOUS
    <3>2. replies[j] = s[Sources(desktop)[j]]
      BY <1>2, <1>3, <1>7, <3>1 DEF AgreesWithFate
    <3>3. s # shortcuts /\ Sources(desktop)[j] \in ToSet(Sources(desktop))
      BY <1>2, <3>1, <3>2, SourcesDiffer
    <3>4. PICK k : \A x \in ToSet(Sources(desktop)) \ {k} : s[x] = shortcuts[x]
      BY <2>2, <3>3 DEF OneApart
    <3>5. a = up
      BY <2>2, <3>3 DEF OneApart
    <3>6. PICK i \in DOMAIN Sources(desktop) :
              /\ replies'[i] \notin {"unasked", "failed", s[Sources(desktop)[i]]}
              /\ replies'[i] = shortcuts[Sources(desktop)[i]]
      BY <2>1, <3>5
    <3>7. Sources(desktop)[i] = k /\ Sources(desktop)[j] = k
      BY <1>2, <3>1, <3>2, <3>3, <3>4, <3>6, SourcesDiffer
    <3>8. i = j
      BY <1>2, <3>7, SourcesDiffer
    <3> QED BY <3>1, <3>2, <3>6, <3>8
  <2>6. \A o \in Fickle(desktop) : daemons'[o] \in {"unasked", "failed", IF o \in up THEN "up" ELSE "down"}
    <3>1. SUFFICES ASSUME NEW p \in Fickle(desktop), daemons'[p] = daemons[p],
                          daemons[p] \notin {"unasked", "failed"}, daemons[p] # IF p \in up THEN "up" ELSE "down"
                   PROVE  FALSE
      OBVIOUS
    <3>2. daemons[p] = IF p \in a THEN "up" ELSE "down"
      BY <1>2, <1>3, <1>7, <3>1 DEF AgreesWithFate
    <3>3. a # up
      BY <3>1, <3>2
    <3>4. s = shortcuts
      BY <2>2, <3>3 DEF OneApart
    <3>5. PICK k : \A x : x # k => (x \in a <=> x \in up)
      BY <2>2, <3>3 DEF OneApart
    <3>6. PICK o \in Fickle(desktop) :
              /\ daemons'[o] \notin {"unasked", "failed", IF o \in a THEN "up" ELSE "down"}
              /\ daemons'[o] = IF o \in up THEN "up" ELSE "down"
      BY <2>1, <3>4
    <3>7. o = k /\ p = k
      BY <3>1, <3>2, <3>5, <3>6
    <3> QED BY <3>1, <3>2, <3>6, <3>7
  <2>7. AgreesWithFate(t, b)'
    BY <1>1, <1>2, <2>3, <2>5, <2>6 DEF AgreesWithFate
  <2> QED BY <1>5, <2>2, <2>3, <2>4, <2>7
<1> QED BY <1>4, <1>6, <1>7

\* whykey's questions.
LEMMA QuestionsAreFollowed ==
    ASSUME DesktopTypes, Fate(shortcuts, up) \in fatesSeen, desktopMoves <= 1 => OneFate,
           ListSource \/ ShortcutsByKey \/ AskDaemon \/ AskReader
    PROVE  DesktopTypes' /\ (Fate(shortcuts, up) \in fatesSeen)' /\ (desktopMoves <= 1 => OneFate)'
<1>1. Asking
  BY DEF ListSource, ShortcutsByKey, AskDaemon, AskReader
<1>2. /\ desktop' = desktop /\ shortcuts' = shortcuts /\ up' = up /\ desktopMoves' = desktopMoves /\ fatesSeen' = fatesSeen
  BY <1>1 DEF Asking
<1>3. /\ desktop \in Desktops /\ shortcuts \in ShortcutsOf(desktop) /\ up \in SUBSET Fickle(desktop)
      /\ replies \in [DOMAIN Sources(desktop) -> Replies] /\ daemons \in [Fickle(desktop) -> DaemonReplies]
      /\ DOMAIN replies = DOMAIN Sources(desktop)
  BY DEF DesktopTypes
<1>4. \A i \in DOMAIN Sources(desktop) : shortcuts[Sources(desktop)[i]] \in {"unbound", "ours", "opaque"}
  BY <1>3, SourcesDiffer DEF ShortcutsOf
<1>5. SUFFICES
        /\ replies' \in [DOMAIN Sources(desktop) -> Replies] /\ daemons' \in [Fickle(desktop) -> DaemonReplies]
        /\ \A i \in DOMAIN Sources(desktop) : replies'[i] \in {replies[i], "failed", shortcuts[Sources(desktop)[i]]}
        /\ \A o \in Fickle(desktop) : daemons'[o] \in {daemons[o], "failed", IF o \in up THEN "up" ELSE "down"}
  <2>1. ASSUME
        /\ replies' \in [DOMAIN Sources(desktop) -> Replies] /\ daemons' \in [Fickle(desktop) -> DaemonReplies]
        /\ \A i \in DOMAIN Sources(desktop) : replies'[i] \in {replies[i], "failed", shortcuts[Sources(desktop)[i]]}
        /\ \A o \in Fickle(desktop) : daemons'[o] \in {daemons[o], "failed", IF o \in up THEN "up" ELSE "down"}
        PROVE  DesktopTypes' /\ (Fate(shortcuts, up) \in fatesSeen)' /\ (desktopMoves <= 1 => OneFate)'
    <3>1. DesktopTypes'
      BY <1>2, <2>1 DEF DesktopTypes
    <3>2. Fate(shortcuts, up)' = Fate(shortcuts, up)
      BY <1>2 DEF Fate
    <3>3. desktopMoves <= 1 => OneFate'
      BY <1>1, <2>1, AnswersAgree
    <3> QED BY <1>2, <3>1, <3>2, <3>3
  <2> QED BY <2>1
<1>6. CASE ListSource
  <2>1. daemons' = daemons
    BY <1>6 DEF ListSource
  <2>2. PICK i \in DOMAIN replies :
            \/ replies' = [j \in DOMAIN replies |->
                  IF j = i THEN shortcuts[Sources(desktop)[i]]
                  ELSE IF j = i + 1 /\ Sources(desktop)[j] = "custom" /\ shortcuts["custom"] = "unbound"
                       THEN "unbound" ELSE replies[j]]
            \/ replies' = [replies EXCEPT ![i] = "failed"]
    BY <1>6, Zenon DEF ListSource
  <2>3. CASE replies' = [replies EXCEPT ![i] = "failed"]
    BY <1>3, <2>1, <2>3 DEF Replies
  <2>4. CASE replies' = [j \in DOMAIN replies |->
                  IF j = i THEN shortcuts[Sources(desktop)[i]]
                  ELSE IF j = i + 1 /\ Sources(desktop)[j] = "custom" /\ shortcuts["custom"] = "unbound"
                       THEN "unbound" ELSE replies[j]]
    <3>1. DOMAIN replies' = DOMAIN Sources(desktop)
      BY <1>3, <2>4
    <3>2. \A j \in DOMAIN Sources(desktop) : replies'[j] \in {replies[j], shortcuts[Sources(desktop)[j]]}
      BY <1>3, <2>4, Zenon
    <3>3. \A j \in DOMAIN Sources(desktop) : replies'[j] \in Replies
      BY <1>3, <1>4, <3>2 DEF Replies
    <3>4. replies' = [j \in DOMAIN Sources(desktop) |-> replies'[j]]
      BY <1>3, <2>4
    <3>5. replies' \in [DOMAIN Sources(desktop) -> Replies]
      BY <3>3, <3>4, Zenon
    <3> QED BY <1>3, <2>1, <3>2, <3>5
  <2> QED BY <2>2, <2>3, <2>4
<1>7. CASE ShortcutsByKey
  <2>1. daemons' = daemons
    BY <1>7 DEF ShortcutsByKey
  <2>2. \/ replies' = [i \in DOMAIN replies |-> shortcuts[Sources(desktop)[i]]]
        \/ replies' = [i \in DOMAIN replies |-> "failed"]
    BY <1>7 DEF ShortcutsByKey
  <2> QED BY <1>3, <1>4, <2>1, <2>2 DEF Replies
<1>8. ASSUME NEW o \in Fickle(desktop), replies' = replies,
             daemons' \in {[daemons EXCEPT ![o] = IF o \in up THEN "up" ELSE "down"], [daemons EXCEPT ![o] = "failed"]}
      PROVE  /\ replies' \in [DOMAIN Sources(desktop) -> Replies] /\ daemons' \in [Fickle(desktop) -> DaemonReplies]
             /\ \A i \in DOMAIN Sources(desktop) : replies'[i] \in {replies[i], "failed", shortcuts[Sources(desktop)[i]]}
             /\ \A p \in Fickle(desktop) : daemons'[p] \in {daemons[p], "failed", IF p \in up THEN "up" ELSE "down"}
  BY <1>3, <1>8 DEF DaemonReplies
<1>9. CASE AskDaemon
  <2>1. PICK o \in ToAsk :
            daemons' \in {[daemons EXCEPT ![o] = IF o \in up THEN "up" ELSE "down"], [daemons EXCEPT ![o] = "failed"]}
    BY <1>9 DEF AskDaemon
  <2>2. o \in Fickle(desktop)
    BY <1>3, OwnersComeAndGo DEF ToAsk
  <2> QED BY <1>8, <1>9, <2>1, <2>2 DEF AskDaemon
<1>10. CASE AskReader
  <2>1. "reader" \in Fickle(desktop)
    BY <1>10 DEF AskReader, Fickle
  <2> QED BY <1>8, <1>10, <2>1 DEF AskReader
<1> QED BY <1>6, <1>7, <1>9, <1>10

\* What was told is enough for a definite verdict to be right.
LEMMA DesktopSound ==
    ASSUME DesktopTypes, OneFate
    PROVE  DesktopVerdictIsSound
<1> SUFFICES ASSUME Answered, ~GoesOnWithout
             PROVE  /\ DesktopVerdict = "consumed" => TRUE \in fatesSeen
                    /\ DesktopVerdict = "pass" => FALSE \in fatesSeen
  BY DEF DesktopVerdictIsSound
<1>1. /\ desktop \in Desktops /\ DOMAIN replies = DOMAIN Sources(desktop) /\ DOMAIN daemons = Fickle(desktop)
      /\ replies \in [DOMAIN Sources(desktop) -> Replies] /\ daemons \in [Fickle(desktop) -> DaemonReplies]
  BY DEF DesktopTypes
<1>2. PICK set \in ShortcutsOf(desktop), alive \in SUBSET Fickle(desktop) :
          AgreesWithFate(set, alive) /\ Fate(set, alive) \in fatesSeen
  BY DEF OneFate
<1>3. /\ \A i \in DOMAIN replies : replies[i] \notin {"unasked", "opaque"}
      /\ desktop = "mate" => \A i \in DOMAIN replies : replies[i] # "failed"
      /\ \A o \in DOMAIN daemons : daemons[o] # "failed"
  BY DEF GoesOnWithout, Replied, Answered, AllReplied
<1>4. ASSUME \E i \in DOMAIN replies : replies[i] = "failed"
      PROVE  DesktopVerdict \notin {"consumed", "pass"}
  BY <1>3, <1>4 DEF DesktopVerdict, Replied
<1>5. ASSUME \A i \in DOMAIN replies : replies[i] # "failed"
      PROVE  /\ DesktopVerdict = "consumed" => Fate(set, alive) = TRUE
             /\ DesktopVerdict = "pass" => Fate(set, alive) = FALSE
  <2>1. \A i \in DOMAIN Sources(desktop) :
            /\ replies[i] = set[Sources(desktop)[i]] /\ replies[i] \in {"unbound", "ours"}
            /\ Bound(replies[i]) <=> set[Sources(desktop)[i]] # "unbound"
    BY <1>1, <1>2, <1>3, <1>5 DEF AgreesWithFate, Replies, Bound
  <2>2. ~Replied("failed")
    BY <1>5 DEF Replied
  <2>3. /\ \A o \in ToAsk : daemons[o] # "unasked"
        /\ desktop = "kde" => daemons["reader"] # "unasked"
    BY <1>3, <2>2 DEF Answered
  <2>4. \A i \in DOMAIN Sources(desktop) :
            Bound(replies[i]) /\ Owner(desktop, Sources(desktop)[i]) # "compositor" =>
                Owner(desktop, Sources(desktop)[i]) \in ToAsk
    BY <1>1 DEF ToAsk
  <2>5. \A o \in Fickle(desktop) : daemons[o] # "unasked" => (daemons[o] = "up" <=> o \in alive) /\ (daemons[o] = "down" <=> o \notin alive)
    BY <1>1, <1>2, <1>3 DEF AgreesWithFate
  <2>6. ToAsk \subseteq Fickle(desktop)
    BY <1>1, OwnersComeAndGo DEF ToAsk
  <2>7. Fate(set, alive) \in BOOLEAN
    BY DEF Fate
  <2>8. Fate(set, alive) <=>
            /\ \E i \in DOMAIN Sources(desktop) :
                  Bound(replies[i]) /\ Owner(desktop, Sources(desktop)[i]) \in alive \union {"compositor"}
            /\ desktop = "kde" => "reader" \in alive
    BY <2>1 DEF Fate
  <2>9. CASE desktop = "kde"
    <3>1. DesktopVerdict = KdeVerdict
      BY <2>2, <2>9, Zenon DEF DesktopVerdict
    <3>2. daemons["reader"] # "unasked" /\ "reader" \in Fickle(desktop)
      BY <2>3, <2>9 DEF Fickle
    <3>3. KdeVerdict = IF daemons["reader"] # "down" /\ \E o \in ToAsk : daemons[o] = "up" THEN "consumed" ELSE "pass"
      BY <1>3 DEF KdeVerdict
    <3>4. daemons["reader"] # "down" <=> "reader" \in alive
      BY <2>5, <3>2
    <3>5. (\E o \in ToAsk : daemons[o] = "up") <=> \E o \in ToAsk : o \in alive
      BY <2>3, <2>5, <2>6
    <3>6. (\E o \in ToAsk : o \in alive) <=>
              \E i \in DOMAIN Sources(desktop) :
                  Bound(replies[i]) /\ Owner(desktop, Sources(desktop)[i]) \in alive \union {"compositor"}
      BY <1>1, <2>4, <2>9, OwnersComeAndGo DEF ToAsk
    <3> QED BY <2>7, <2>8, <2>9, <3>1, <3>3, <3>4, <3>5, <3>6
  <2>10. CASE desktop = "gnome"
    <3>1. DesktopVerdict = GnomeVerdict
      BY <2>2, <2>10, Zenon DEF DesktopVerdict
    <3>2. \A i \in DOMAIN Sources(desktop) :
              Bound(replies[i]) =>
                  ((Owner(desktop, Sources(desktop)[i]) = "compositor"
                        \/ daemons[Owner(desktop, Sources(desktop)[i])] \in {"up", "failed"})
                      <=> Owner(desktop, Sources(desktop)[i]) \in alive \union {"compositor"})
      <4>1. SUFFICES ASSUME NEW i \in DOMAIN Sources(desktop), Bound(replies[i]),
                            Owner(desktop, Sources(desktop)[i]) # "compositor"
                     PROVE  daemons[Owner(desktop, Sources(desktop)[i])] \in {"up", "failed"}
                                <=> Owner(desktop, Sources(desktop)[i]) \in alive
        OBVIOUS
      <4>2. PICK o \in ToAsk : o = Owner(desktop, Sources(desktop)[i])
        BY <2>4, <4>1
      <4> QED BY <1>1, <1>3, <2>3, <2>5, <2>6, <4>2
    <3>3. GnomeVerdict = IF \E i \in DOMAIN Sources(desktop) :
                            /\ Bound(replies[i])
                            /\ \/ Owner(desktop, Sources(desktop)[i]) = "compositor"
                               \/ daemons[Owner(desktop, Sources(desktop)[i])] \in {"up", "failed"}
                         THEN "consumed" ELSE "pass"
      BY <1>1 DEF GnomeVerdict
    <3> QED BY <2>7, <2>8, <2>10, <3>1, <3>2, <3>3
  <2>11. CASE desktop \notin {"kde", "gnome"}
    <3>1. Fate(set, alive) <=> \E i \in DOMAIN replies : Bound(replies[i])
      BY <1>1, <2>8, <2>11, OwnersComeAndGo
    <3>2. MatchVerdict = IF Fate(set, alive) THEN "consumed" ELSE "pass"
      BY <3>1 DEF MatchVerdict
    <3>3. ~(\A i \in DOMAIN replies : replies[i] = "failed")
      BY <1>1, <1>5, SourcesDiffer
    <3>4. DesktopVerdict \in {MatchVerdict, "unsure"} \/ (DesktopVerdict = "pass" /\ MatchVerdict = "pass")
      <4>1. CASE desktop = "mate"
        <5>1. DesktopVerdict = MateVerdict
          BY <4>1, Zenon DEF DesktopVerdict
        <5> QED BY <3>3, <5>1 DEF MateVerdict
      <4>2. CASE desktop \in {"cinnamon", "xfce"}
        BY <2>2, <4>2, Zenon DEF DesktopVerdict
      <4>3. CASE desktop \in {"kde alone", "gnome alone"}
        <5>1. DesktopVerdict = AloneVerdict
          BY <2>2, <4>3, Zenon DEF DesktopVerdict
        <5> QED BY <3>2, <5>1 DEF AloneVerdict
      <4> QED BY <1>1, <2>11, <4>1, <4>2, <4>3 DEF Desktops
    <3> QED BY <2>7, <3>2, <3>4
  <2> QED BY <2>9, <2>10, <2>11
<1> QED BY <1>2, <1>4, <1>5

\* It survives every question, every answer and a change.
LEMMA DesktopSteps == DesktopInv /\ [Next]_mcVars => DesktopInv'
<1> SUFFICES ASSUME DesktopInv, [Next]_mcVars, part' = "desktop"
             PROVE  DesktopTypes' /\ (Fate(shortcuts, up) \in fatesSeen)' /\ (desktopMoves <= 1 => OneFate)'
  BY DEF DesktopInv
<1>1. CASE UNCHANGED <<part, desktopVars>>
  <2>1. /\ desktop' = desktop /\ shortcuts' = shortcuts /\ up' = up /\ replies' = replies /\ daemons' = daemons
        /\ desktopMoves' = desktopMoves /\ fatesSeen' = fatesSeen
    BY <1>1 DEF desktopVars
  <2>2. DesktopTypes' <=> DesktopTypes
    BY <2>1 DEF DesktopTypes
  <2>3. ASSUME NEW s, NEW a
        PROVE  /\ Fate(s, a)' = Fate(s, a) /\ (AgreesWithFate(s, a)' <=> AgreesWithFate(s, a))
               /\ (OneApart(s, a)' <=> OneApart(s, a))
    BY <2>1 DEF Fate, AgreesWithFate, OneApart
  <2>4. Fate(shortcuts, up)' = Fate(shortcuts, up)
    BY <2>1 DEF Fate
  <2>5. OneFate => OneFate'
    <3>1. SUFFICES ASSUME OneFate PROVE OneFate'
      OBVIOUS
    <3>2. PICK s \in ShortcutsOf(desktop), a \in SUBSET Fickle(desktop) :
              /\ AgreesWithFate(s, a) /\ Fate(s, a) \in fatesSeen
              /\ IF desktopMoves = 0 THEN s = shortcuts /\ a = up ELSE OneApart(s, a)
      BY <3>1 DEF OneFate
    <3> QED BY <2>1, <2>3, <3>2 DEF OneFate
  <2> QED BY <1>1, <2>1, <2>2, <2>4, <2>5 DEF DesktopInv
<1>2. CASE DesktopStep
  <2>1. part = "desktop" /\ DesktopNext
    BY <1>2 DEF DesktopStep
  <2>2. DesktopTypes /\ Fate(shortcuts, up) \in fatesSeen /\ (desktopMoves <= 1 => OneFate)
    BY <2>1 DEF DesktopInv
  <2> QED BY <2>1, <2>2, MovesAreFollowed, QuestionsAreFollowed DEF DesktopNext
<1> QED BY <1>1, <1>2 DEF Next, mcVars, HyprlandStep, CompositorStep, MethodStep, BindingsStep, AppStep, ChainStep

\* DesktopShortcuts: what whykey says of a key under a desktop environment is what became of
\* it while whykey asked, if at most one shortcut or daemon changes until then.
THEOREM DesktopIsRight == Spec => [](part = "desktop" /\ desktopMoves <= 1 => DesktopVerdictIsSound)
<1>1. DesktopInv => (part = "desktop" /\ desktopMoves <= 1 => DesktopVerdictIsSound)
  BY DesktopSound DEF DesktopInv
<1> QED BY <1>1, DesktopStarts, DesktopSteps, PTL DEF Spec

\* DesktopShortcuts: what whykey says of a key under a desktop environment is what the desktop
\* did with it while whykey asked, if not more than one of its shortcuts moved meanwhile.
THEOREM DesktopVerdictWithOneMove == MaxDesktopMoves <= 1 => (Spec => []Desktop_VerdictIsSound)
<1> SUFFICES ASSUME MaxDesktopMoves <= 1 PROVE Spec => []Desktop_VerdictIsSound
  OBVIOUS
<1> DEFINE Few == part = "desktop" => desktopMoves \in Nat /\ desktopMoves <= MaxDesktopMoves
<1>1. Init => Few
  BY DesktopShortcutsAssumption DEF Init, DesktopInit
<1>2. Few /\ [Next]_mcVars => Few'
  <2> SUFFICES ASSUME Few, [Next]_mcVars, part' = "desktop"
               PROVE  desktopMoves' \in Nat /\ desktopMoves' <= MaxDesktopMoves
    OBVIOUS
  <2>1. CASE UNCHANGED <<part, desktopVars>>
    BY <2>1 DEF desktopVars
  <2>2. CASE DesktopStep
    <3>1. desktopMoves' = desktopMoves \/ (desktopMoves < MaxDesktopMoves /\ desktopMoves' = desktopMoves + 1)
      BY <2>2 DEF DesktopStep, DesktopNext, SetShortcut, DaemonComesOrGoes, Move, ListSource, ShortcutsByKey, AskDaemon,
                  AskReader, Asking
    <3> QED BY <2>2, <3>1, DesktopShortcutsAssumption DEF DesktopStep
  <2> QED BY <2>1, <2>2 DEF Next, mcVars, HyprlandStep, CompositorStep, MethodStep, BindingsStep, AppStep, ChainStep
<1>3. Few /\ (part = "desktop" /\ desktopMoves <= 1 => DesktopVerdictIsSound) => Desktop_VerdictIsSound
  BY DesktopShortcutsAssumption DEF Desktop_VerdictIsSound
<1> QED BY <1>1, <1>2, <1>3, DesktopIsRight, PTL DEF Spec

-----------------------------------------------------------------------------
(* The listing of bindings. *)
\* Of a total order of N positions each number is the rank of exactly one position.
LEMMA Ranks ==
    ASSUME NEW N \in Nat, NEW B \in [1 .. N -> SUBSET (1 .. N)],
           \A i \in 1 .. N : i \notin B[i],
           \A i, j \in 1 .. N : i # j => (B[i] \cup {i}) \subseteq B[j] \/ (B[j] \cup {j}) \subseteq B[i]
    PROVE  /\ \A i \in 1 .. N : Cardinality(B[i]) \in Nat
           /\ \A i, j \in 1 .. N : i \in B[j] => Cardinality(B[i]) < Cardinality(B[j])
           /\ \A i, j \in 1 .. N : Cardinality(B[i]) = Cardinality(B[j]) => i = j
           /\ \A k \in 1 .. N : \E i \in 1 .. N : Cardinality(B[i]) = k - 1
<1>1. IsFiniteSet(1 .. N) /\ Cardinality(1 .. N) = N
  <2>1. 1 \in Int /\ N \in Int /\ (IF 1 > N THEN 0 ELSE N - 1 + 1) = N
    OBVIOUS
  <2> QED BY <2>1, FS_Interval
<1>2. \A i \in 1 .. N : IsFiniteSet(B[i]) /\ Cardinality(B[i]) \in Nat
  BY <1>1, FS_Subset, FS_CardinalityType
<1>3. ASSUME NEW i \in 1 .. N, NEW j \in 1 .. N, (B[i] \cup {i}) \subseteq B[j]
      PROVE  Cardinality(B[i]) + 1 <= Cardinality(B[j])
  <2>1. IsFiniteSet(B[i] \cup {i}) /\ Cardinality(B[i] \cup {i}) = Cardinality(B[i]) + 1
    BY <1>2, FS_AddElement
  <2>2. B[i] \cup {i} \in SUBSET B[j]
    BY <1>3
  <2> QED BY <1>2, <2>1, <2>2, FS_Subset
<1>4. ASSUME NEW i \in 1 .. N, NEW j \in 1 .. N, i \in B[j]
      PROVE  Cardinality(B[i]) < Cardinality(B[j])
  <2>1. i # j
    BY <1>4
  <2>2. (B[i] \cup {i}) \subseteq B[j]
    BY <1>4, <2>1
  <2>3. Cardinality(B[i]) + 1 <= Cardinality(B[j])
    BY <1>3, <2>2
  <2> QED BY <1>2, <2>3
<1>5. ASSUME NEW i \in 1 .. N, NEW j \in 1 .. N, Cardinality(B[i]) = Cardinality(B[j])
      PROVE  i = j
  <2>1. SUFFICES ASSUME i # j PROVE FALSE
    OBVIOUS
  <2>2. Cardinality(B[i]) + 1 <= Cardinality(B[j]) \/ Cardinality(B[j]) + 1 <= Cardinality(B[i])
    BY <1>3, <2>1
  <2> QED BY <1>2, <1>5, <2>2
<1>6. \A i \in 1 .. N : Cardinality(B[i]) + 1 \in 1 .. N
  <2>1. TAKE i \in 1 .. N
  <2>2. IsFiniteSet(B[i] \cup {i}) /\ Cardinality(B[i] \cup {i}) = Cardinality(B[i]) + 1
    BY <1>2, FS_AddElement
  <2>3. B[i] \cup {i} \in SUBSET (1 .. N)
    OBVIOUS
  <2>4. Cardinality(B[i]) + 1 <= N
    BY <1>1, <2>2, <2>3, FS_Subset
  <2> QED BY <1>2, <2>4
<1> DEFINE f == [i \in 1 .. N |-> Cardinality(B[i]) + 1]
<1>7. f \in Injection(1 .. N, 1 .. N)
  <2>1. f \in [1 .. N -> 1 .. N]
    BY <1>6
  <2>2. ASSUME NEW i \in 1 .. N, NEW j \in 1 .. N, f[i] = f[j] PROVE i = j
    <3>1. Cardinality(B[i]) + 1 = Cardinality(B[j]) + 1
      BY <2>2
    <3>2. Cardinality(B[i]) = Cardinality(B[j])
      BY <1>2, <3>1
    <3> QED BY <1>5, <3>2
  <2> HIDE DEF f
  <2> QED BY <2>1, <2>2 DEF Injection, IsInjective
<1>8. f \in Surjection(1 .. N, 1 .. N)
  <2> HIDE DEF f
  <2> QED BY <1>1, <1>7, FS_Injection
<1>9. ASSUME NEW k \in 1 .. N PROVE \E i \in 1 .. N : Cardinality(B[i]) = k - 1
  <2>1. PICK i \in 1 .. N : f[i] = k
    <3> HIDE DEF f
    <3> QED BY <1>8 DEF Surjection
  <2>2. Cardinality(B[i]) + 1 = k
    BY <2>1
  <2> QED BY <1>2, <2>2
<1> QED BY <1>2, <1>4, <1>5, <1>9

\* The records of a listing.
ListRows ==
    [source : {"hyprland", "manifest"}, key : {"k", "l", "hidden"}, mods : {{}, {"super"}}, action : ToSet(ActionNames),
     submap : {"default", "m"}, context : BOOLEAN]

\* The place of a record in the listing, as one number.
Place(r) ==
    (IF r.submap = "default" THEN 0 ELSE 1)
    + 2 * (IF r.context THEN 1 ELSE 0)
    + 4 * (IF r.key = "hidden" THEN 0 ELSE IF r.key = "k" THEN 1 ELSE 2)
    + 12 * (IF r.mods = {} THEN 0 ELSE 1)
    + 24 * (IF r.source = "hyprland" THEN 0 ELSE 1)

\* Of two lists of five numbers the first position at which they differ decides.
LEMMA Lexicographic ==
    ASSUME NEW x, NEW y, DOMAIN x = {1, 2, 3, 4, 5}, \A i \in {1, 2, 3, 4, 5} : x[i] \in Nat /\ y[i] \in Nat
    PROVE  LexLess(x, y) <=>
               x[1] < y[1] \/ (x[1] = y[1] /\ (x[2] < y[2] \/ (x[2] = y[2] /\ (x[3] < y[3] \/ (x[3] = y[3]
                   /\ (x[4] < y[4] \/ (x[4] = y[4] /\ x[5] < y[5])))))))
<1> DEFINE Less(i) == x[i] < y[i] /\ \A j \in 1 .. (i - 1) : x[j] = y[j]
<1>1. LexLess(x, y) <=> Less(1) \/ Less(2) \/ Less(3) \/ Less(4) \/ Less(5)
  BY DEF LexLess
<1>2. 1 .. (1 - 1) = {} /\ 1 .. (2 - 1) = {1} /\ 1 .. (3 - 1) = {1, 2} /\ 1 .. (4 - 1) = {1, 2, 3}
      /\ 1 .. (5 - 1) = {1, 2, 3, 4}
  OBVIOUS
<1>3. /\ Less(1) <=> x[1] < y[1]
      /\ Less(2) <=> x[2] < y[2] /\ x[1] = y[1]
      /\ Less(3) <=> x[3] < y[3] /\ x[1] = y[1] /\ x[2] = y[2]
      /\ Less(4) <=> x[4] < y[4] /\ x[1] = y[1] /\ x[2] = y[2] /\ x[3] = y[3]
      /\ Less(5) <=> x[5] < y[5] /\ x[1] = y[1] /\ x[2] = y[2] /\ x[3] = y[3] /\ x[4] = y[4]
  BY <1>2
<1> QED BY <1>1, <1>3

\* bindings.rs: which of two records comes first.
LEMMA PrecedesIsByPlace ==
    ASSUME NEW x \in ListRows, NEW y \in ListRows
    PROVE  /\ Place(x) \in Nat
           /\ Precedes(x, y) <=> Place(x) < Place(y)
           /\ Group(x) = Group(y) <=> Place(x) = Place(y)
<1> DEFINE src(z) == IF z.source = "hyprland" THEN 1 ELSE 2
           mod(z) == IF z.mods = {} THEN 0 ELSE 1
           key(z) == IF z.key = "hidden" THEN 1 ELSE IF z.key = "k" THEN 2 ELSE 3
           ctx(z) == IF z.context THEN 1 ELSE 0
           sub(z) == IF z.submap = "default" THEN 0 ELSE 1
<1>1. /\ Number("hyprland", SourceOrder) = 1 /\ Number("manifest", SourceOrder) = 2
      /\ Number("hidden", Keys) = 1 /\ Number("k", Keys) = 2 /\ Number("l", Keys) = 3
  <2>1. DOMAIN SourceOrder = {1, 2} /\ SourceOrder[1] = "hyprland" /\ SourceOrder[2] = "manifest"
    BY DEF SourceOrder
  <2>2. DOMAIN Keys = {1, 2, 3} /\ Keys[1] = "hidden" /\ Keys[2] = "k" /\ Keys[3] = "l"
    BY DEF Keys
  <2> QED BY <2>1, <2>2 DEF Number
<1>2. ASSUME NEW z \in ListRows
      PROVE  /\ SortKey(z) = <<src(z), mod(z), key(z), ctx(z), sub(z)>>
             /\ src(z) \in {1, 2} /\ mod(z) \in {0, 1} /\ key(z) \in {1, 2, 3} /\ ctx(z) \in {0, 1} /\ sub(z) \in {0, 1}
             /\ Place(z) = sub(z) + 2 * ctx(z) + 4 * (key(z) - 1) + 12 * mod(z) + 24 * (src(z) - 1)
  <2>1. z.source \in {"hyprland", "manifest"} /\ z.key \in {"k", "l", "hidden"}
    BY DEF ListRows
  <2>2. SortKey(z) = <<src(z), mod(z), key(z), ctx(z), sub(z)>>
    BY <1>1, <2>1 DEF SortKey
  <2>3. Place(z) = sub(z) + 2 * ctx(z) + 4 * (key(z) - 1) + 12 * mod(z) + 24 * (src(z) - 1)
    BY <2>1 DEF Place
  <2> QED BY <2>2, <2>3
<1>3. Group(x) = Group(y) <=> src(x) = src(y) /\ mod(x) = mod(y) /\ key(x) = key(y) /\ ctx(x) = ctx(y) /\ sub(x) = sub(y)
  BY DEF Group, ListRows
<1> HIDE DEF src, mod, key, ctx, sub
<1>4. Precedes(x, y) <=>
         \/ src(x) < src(y)
         \/ src(x) = src(y) /\ (mod(x) < mod(y) \/ (mod(x) = mod(y) /\ (key(x) < key(y) \/ (key(x) = key(y)
                /\ (ctx(x) < ctx(y) \/ (ctx(x) = ctx(y) /\ sub(x) < sub(y)))))))
  <2>1. /\ src(x) \in Nat /\ mod(x) \in Nat /\ key(x) \in Nat /\ ctx(x) \in Nat /\ sub(x) \in Nat
        /\ src(y) \in Nat /\ mod(y) \in Nat /\ key(y) \in Nat /\ ctx(y) \in Nat /\ sub(y) \in Nat
    BY <1>2
  <2>3. PICK v, w : v = SortKey(x) /\ w = SortKey(y)
    OBVIOUS
  <2>4. /\ DOMAIN v = {1, 2, 3, 4, 5} /\ \A i \in {1, 2, 3, 4, 5} : v[i] \in Nat /\ w[i] \in Nat
        /\ v[1] = src(x) /\ v[2] = mod(x) /\ v[3] = key(x) /\ v[4] = ctx(x) /\ v[5] = sub(x)
        /\ w[1] = src(y) /\ w[2] = mod(y) /\ w[3] = key(y) /\ w[4] = ctx(y) /\ w[5] = sub(y)
    BY <1>2, <2>1, <2>3
  <2>5. Precedes(x, y) <=> LexLess(v, w)
    BY <2>3 DEF Precedes
  <2> QED BY <2>4, <2>5, Lexicographic
<1>5. Place(x) \in Nat
  BY <1>2
<1> QED BY <1>2, <1>3, <1>4, <1>5

\* The records that are chosen, one after the other.
LEMMA ChosenFold ==
    ASSUME NEW E,
           NEW T,
           NEW l \in Seq(E)
    PROVE  /\ Chosen(<<>>, T) = <<>>
           /\ Chosen(l, T) \in Seq(E)
           /\ \A x \in E : Chosen(Append(l, x), T) = (IF x \in T THEN Append(Chosen(l, T), x) ELSE Chosen(l, T))
<1> DEFINE op(s) == [p \in Seq(E) \X (1 .. Len(s)) |-> (IF s[p[2]] \in T THEN Append(p[1], s[p[2]]) ELSE p[1])]
           Solves(s, F) == F = [t \in SUBSET DOMAIN s |->
               IF t = {} THEN <<>> ELSE (IF s[Max(t)] \in T THEN Append(F[t \ {Max(t)}], s[Max(t)]) ELSE F[t \ {Max(t)}])]
           Sol(s) == CHOOSE F : Solves(s, F)
<1>1. \A a \in Seq(E), y \in E : (IF y \in T THEN Append(a, y) ELSE a) \in Seq(E)
  <2>1. TAKE a \in Seq(E), y \in E
  <2> QED OBVIOUS
<1>2. <<>> \in Seq(E)
  OBVIOUS
<1>3. ASSUME NEW s \in Seq(E)
      PROVE  Folds(Sol(s), Seq(E), <<>>, op(s), Len(s))
  <2>1. Len(s) \in Nat /\ DOMAIN s = 1 .. Len(s) /\ \A i \in 1 .. Len(s) : s[i] \in E
    OBVIOUS
  <2>2. op(s) \in [Seq(E) \X (1 .. Len(s)) -> Seq(E)]
    BY <1>1, <2>1
  <2>0. PICK f : Solved(f, Seq(E), <<>>, op(s), Len(s))
    <3>1. Foldable(Seq(E), <<>>, op(s), Len(s))
      <4> HIDE DEF op
      <4> QED BY <1>2, <2>1, <2>2 DEF Foldable
    <3> HIDE DEF op
    <3> QED BY <3>1, FoldExists
  <2>3. /\ f \in [SUBSET (1 .. Len(s)) -> Seq(E)]
        /\ f = [t \in SUBSET (1 .. Len(s)) |->
                     IF t = {} THEN <<>> ELSE op(s)[<<f[t \ {Max(t)}], Max(t)>>]]
    <3> HIDE DEF op
    <3> QED BY <2>0 DEF Solved
  <2>4. \A t \in SUBSET (1 .. Len(s)) : t # {} => Max(t) \in t
    BY <2>1, MaxIn
  <2>5. Solves(s, f)
    <3>1. ASSUME NEW t \in SUBSET (1 .. Len(s)), t # {}
          PROVE  op(s)[<<f[t \ {Max(t)}], Max(t)>>] = (IF s[Max(t)] \in T THEN Append(f[t \ {Max(t)}], s[Max(t)]) ELSE f[t \ {Max(t)}])
      <4>1. Max(t) \in 1 .. Len(s) /\ t \ {Max(t)} \in SUBSET (1 .. Len(s))
        BY <2>4, <3>1
      <4>2. f[t \ {Max(t)}] \in Seq(E)
        BY <2>3, <4>1
      <4> QED BY <4>1, <4>2
    <3> HIDE DEF op
    <3> QED BY <2>1, <2>3, <3>1
  <2>6. Solves(s, Sol(s))
    <3> HIDE DEF Solves
    <3> QED BY <2>5
  <2> DEFINE F == Sol(s)
  <2> HIDE DEF F
  <2>7. Solves(s, F)
    BY <2>6 DEF F
  <2>8. Folds(F, Seq(E), <<>>, op(s), Len(s))
    <3>1. ASSUME NEW t \in SUBSET (1 .. Len(s)), t # {}, F[t \ {Max(t)}] \in Seq(E)
          PROVE  F[t] = op(s)[<<F[t \ {Max(t)}], Max(t)>>]
      <4>1. Max(t) \in 1 .. Len(s)
        BY <2>4, <3>1
      <4>2. F[t] = (IF s[Max(t)] \in T THEN Append(F[t \ {Max(t)}], s[Max(t)]) ELSE F[t \ {Max(t)}])
        BY <2>1, <2>7, <3>1
      <4> QED BY <3>1, <4>1, <4>2
    <3>2. F[{}] = <<>>
      BY <2>1, <2>7
    <3> HIDE DEF op, Solves
    <3> QED BY <1>2, <2>1, <2>2, <3>1, <3>2 DEF Folds, Foldable
  <2> QED BY <2>8 DEF F
<1>4. \A s \in Seq(E) : Chosen(s, T) = Sol(s)[DOMAIN s]
  BY DEF Chosen, FoldLeft, MapThenFoldSet
<1>5. Chosen(<<>>, T) = <<>>
  <2>1. <<>> \in Seq(E) /\ DOMAIN <<>> = {}
    OBVIOUS
  <2>2. Sol(<<>>)[{}] = <<>>
    <3>1. Folds(Sol(<<>>), Seq(E), <<>>, op(<<>>), Len(<<>>))
      <4> HIDE DEF Sol, op
      <4> QED BY <1>3, <2>1
    <3> HIDE DEF Sol, op
    <3> QED BY <3>1 DEF Folds
  <2> HIDE DEF Sol
  <2> QED BY <1>4, <2>1, <2>2
<1>6. Chosen(l, T) \in Seq(E)
  <2>1. Len(l) \in Nat /\ DOMAIN l = 1 .. Len(l) /\ Len(l) \in 0 .. Len(l)
    OBVIOUS
  <2> DEFINE F == Sol(l)
  <2> HIDE DEF Sol, op
  <2>2. Folds(F, Seq(E), <<>>, op(l), Len(l))
    BY <1>3
  <2> HIDE DEF F
  <2>3. F[1 .. Len(l)] \in Seq(E)
    BY <2>1, <2>2, FoldSteps
  <2> QED BY <1>4, <2>1, <2>3 DEF F
<1>7. ASSUME NEW x \in E
      PROVE  Chosen(Append(l, x), T) = (IF x \in T THEN Append(Chosen(l, T), x) ELSE Chosen(l, T))
  <2>1. l \in Seq(E) /\ Append(l, x) \in Seq(E) /\ Len(l) \in Nat /\ Len(Append(l, x)) = Len(l) + 1
        /\ DOMAIN l = 1 .. Len(l) /\ DOMAIN Append(l, x) = 1 .. Len(l) + 1
        /\ Append(l, x)[Len(l) + 1] = x /\ Len(l) <= Len(l) + 1
        /\ \A i \in 1 .. Len(l) : Append(l, x)[i] = l[i]
    OBVIOUS
  <2>2. \A a \in Seq(E), n \in 1 .. Len(l) : op(Append(l, x))[<<a, n>>] = op(l)[<<a, n>>]
    BY <2>1
  <2>3. op(Append(l, x))[<<Chosen(l, T), Len(l) + 1>>] = (IF x \in T THEN Append(Chosen(l, T), x) ELSE Chosen(l, T))
    BY <1>6, <2>1
  <2> DEFINE F == Sol(l)
             G == Sol(Append(l, x))
  <2> HIDE DEF Sol, op
  <2>4. Folds(F, Seq(E), <<>>, op(l), Len(l)) /\ Folds(G, Seq(E), <<>>, op(Append(l, x)), Len(l) + 1)
    BY <1>3, <2>1
  <2> HIDE DEF F, G
  <2>5. G[1 .. Len(l) + 1] = op(Append(l, x))[<<F[1 .. Len(l)], Len(l) + 1>>]
    BY <2>1, <2>2, <2>4, FoldMore
  <2>6. Chosen(l, T) = F[1 .. Len(l)] /\ Chosen(Append(l, x), T) = G[1 .. Len(l) + 1]
    BY <1>4, <2>1 DEF F, G
  <2> QED BY <2>3, <2>5, <2>6
<1> QED BY <1>5, <1>6, <1>7

\* The distinct actions, one record after the other.
LEMMA ActionsFold ==
    ASSUME NEW A,
           NEW E,
           \A y \in E : y.action \in A,
           NEW l \in Seq(E)
    PROVE  /\ DistinctActions(<<>>) = <<>>
           /\ DistinctActions(l) \in Seq(A)
           /\ \A x \in E : DistinctActions(Append(l, x)) = (IF Contains(DistinctActions(l), x.action) THEN DistinctActions(l) ELSE Append(DistinctActions(l), x.action))
<1> DEFINE op(s) == [p \in Seq(A) \X (1 .. Len(s)) |-> (IF Contains(p[1], s[p[2]].action) THEN p[1] ELSE Append(p[1], s[p[2]].action))]
           Solves(s, F) == F = [t \in SUBSET DOMAIN s |->
               IF t = {} THEN <<>> ELSE (IF Contains(F[t \ {Max(t)}], s[Max(t)].action) THEN F[t \ {Max(t)}] ELSE Append(F[t \ {Max(t)}], s[Max(t)].action))]
           Sol(s) == CHOOSE F : Solves(s, F)
<1>1. \A a \in Seq(A), y \in E : (IF Contains(a, y.action) THEN a ELSE Append(a, y.action)) \in Seq(A)
  <2>1. TAKE a \in Seq(A), y \in E
  <2>2. y.action \in A
    OBVIOUS
  <2> QED BY <2>2
<1>2. <<>> \in Seq(A)
  OBVIOUS
<1>3. ASSUME NEW s \in Seq(E)
      PROVE  Folds(Sol(s), Seq(A), <<>>, op(s), Len(s))
  <2>1. Len(s) \in Nat /\ DOMAIN s = 1 .. Len(s) /\ \A i \in 1 .. Len(s) : s[i] \in E
    OBVIOUS
  <2>2. op(s) \in [Seq(A) \X (1 .. Len(s)) -> Seq(A)]
    BY <1>1, <2>1
  <2>0. PICK f : Solved(f, Seq(A), <<>>, op(s), Len(s))
    <3>1. Foldable(Seq(A), <<>>, op(s), Len(s))
      <4> HIDE DEF op
      <4> QED BY <1>2, <2>1, <2>2 DEF Foldable
    <3> HIDE DEF op
    <3> QED BY <3>1, FoldExists
  <2>3. /\ f \in [SUBSET (1 .. Len(s)) -> Seq(A)]
        /\ f = [t \in SUBSET (1 .. Len(s)) |->
                     IF t = {} THEN <<>> ELSE op(s)[<<f[t \ {Max(t)}], Max(t)>>]]
    <3> HIDE DEF op
    <3> QED BY <2>0 DEF Solved
  <2>4. \A t \in SUBSET (1 .. Len(s)) : t # {} => Max(t) \in t
    BY <2>1, MaxIn
  <2>5. Solves(s, f)
    <3>1. ASSUME NEW t \in SUBSET (1 .. Len(s)), t # {}
          PROVE  op(s)[<<f[t \ {Max(t)}], Max(t)>>] = (IF Contains(f[t \ {Max(t)}], s[Max(t)].action) THEN f[t \ {Max(t)}] ELSE Append(f[t \ {Max(t)}], s[Max(t)].action))
      <4>1. Max(t) \in 1 .. Len(s) /\ t \ {Max(t)} \in SUBSET (1 .. Len(s))
        BY <2>4, <3>1
      <4>2. f[t \ {Max(t)}] \in Seq(A)
        BY <2>3, <4>1
      <4> QED BY <4>1, <4>2
    <3> HIDE DEF op
    <3> QED BY <2>1, <2>3, <3>1
  <2>6. Solves(s, Sol(s))
    <3> HIDE DEF Solves
    <3> QED BY <2>5
  <2> DEFINE F == Sol(s)
  <2> HIDE DEF F
  <2>7. Solves(s, F)
    BY <2>6 DEF F
  <2>8. Folds(F, Seq(A), <<>>, op(s), Len(s))
    <3>1. ASSUME NEW t \in SUBSET (1 .. Len(s)), t # {}, F[t \ {Max(t)}] \in Seq(A)
          PROVE  F[t] = op(s)[<<F[t \ {Max(t)}], Max(t)>>]
      <4>1. Max(t) \in 1 .. Len(s)
        BY <2>4, <3>1
      <4>2. F[t] = (IF Contains(F[t \ {Max(t)}], s[Max(t)].action) THEN F[t \ {Max(t)}] ELSE Append(F[t \ {Max(t)}], s[Max(t)].action))
        BY <2>1, <2>7, <3>1
      <4> QED BY <3>1, <4>1, <4>2
    <3>2. F[{}] = <<>>
      BY <2>1, <2>7
    <3> HIDE DEF op, Solves
    <3> QED BY <1>2, <2>1, <2>2, <3>1, <3>2 DEF Folds, Foldable
  <2> QED BY <2>8 DEF F
<1>4. \A s \in Seq(E) : DistinctActions(s) = Sol(s)[DOMAIN s]
  BY DEF DistinctActions, FoldLeft, MapThenFoldSet
<1>5. DistinctActions(<<>>) = <<>>
  <2>1. <<>> \in Seq(E) /\ DOMAIN <<>> = {}
    OBVIOUS
  <2>2. Sol(<<>>)[{}] = <<>>
    <3>1. Folds(Sol(<<>>), Seq(A), <<>>, op(<<>>), Len(<<>>))
      <4> HIDE DEF Sol, op
      <4> QED BY <1>3, <2>1
    <3> HIDE DEF Sol, op
    <3> QED BY <3>1 DEF Folds
  <2> HIDE DEF Sol
  <2> QED BY <1>4, <2>1, <2>2
<1>6. DistinctActions(l) \in Seq(A)
  <2>1. Len(l) \in Nat /\ DOMAIN l = 1 .. Len(l) /\ Len(l) \in 0 .. Len(l)
    OBVIOUS
  <2> DEFINE F == Sol(l)
  <2> HIDE DEF Sol, op
  <2>2. Folds(F, Seq(A), <<>>, op(l), Len(l))
    BY <1>3
  <2> HIDE DEF F
  <2>3. F[1 .. Len(l)] \in Seq(A)
    BY <2>1, <2>2, FoldSteps
  <2> QED BY <1>4, <2>1, <2>3 DEF F
<1>7. ASSUME NEW x \in E
      PROVE  DistinctActions(Append(l, x)) = (IF Contains(DistinctActions(l), x.action) THEN DistinctActions(l) ELSE Append(DistinctActions(l), x.action))
  <2>1. l \in Seq(E) /\ Append(l, x) \in Seq(E) /\ Len(l) \in Nat /\ Len(Append(l, x)) = Len(l) + 1
        /\ DOMAIN l = 1 .. Len(l) /\ DOMAIN Append(l, x) = 1 .. Len(l) + 1
        /\ Append(l, x)[Len(l) + 1] = x /\ Len(l) <= Len(l) + 1
        /\ \A i \in 1 .. Len(l) : Append(l, x)[i] = l[i]
    OBVIOUS
  <2>2. \A a \in Seq(A), n \in 1 .. Len(l) : op(Append(l, x))[<<a, n>>] = op(l)[<<a, n>>]
    BY <2>1
  <2>3. op(Append(l, x))[<<DistinctActions(l), Len(l) + 1>>] = (IF Contains(DistinctActions(l), x.action) THEN DistinctActions(l) ELSE Append(DistinctActions(l), x.action))
    BY <1>6, <2>1
  <2> DEFINE F == Sol(l)
             G == Sol(Append(l, x))
  <2> HIDE DEF Sol, op
  <2>4. Folds(F, Seq(A), <<>>, op(l), Len(l)) /\ Folds(G, Seq(A), <<>>, op(Append(l, x)), Len(l) + 1)
    BY <1>3, <2>1
  <2> HIDE DEF F, G
  <2>5. G[1 .. Len(l) + 1] = op(Append(l, x))[<<F[1 .. Len(l)], Len(l) + 1>>]
    BY <2>1, <2>2, <2>4, FoldMore
  <2>6. DistinctActions(l) = F[1 .. Len(l)] /\ DistinctActions(Append(l, x)) = G[1 .. Len(l) + 1]
    BY <1>4, <2>1 DEF F, G
  <2> QED BY <2>3, <2>5, <2>6
<1> QED BY <1>5, <1>6, <1>7

\* What holds of the empty sequence and passes to a sequence with one element more holds of
\* all sequences.
LEMMA AllSequences ==
    ASSUME NEW E, NEW S, <<>> \in S, \A s \in Seq(E), x \in E : s \in S => Append(s, x) \in S
    PROVE  Seq(E) \subseteq S
<1> DEFINE T == {n \in Nat : \A s \in Seq(E) : Len(s) = n => s \in S}
<1>1. 0 \in T
  <2>1. \A s \in Seq(E) : Len(s) = 0 => s = <<>>
    OBVIOUS
  <2> QED BY <2>1
<1>2. ASSUME NEW n \in Nat, n \in T PROVE n + 1 \in T
  <2>1. SUFFICES ASSUME NEW s \in Seq(E), Len(s) = n + 1 PROVE s \in S
    OBVIOUS
  <2>2. PICK t \in Seq(E), x \in E : s = Append(t, x) /\ Len(t) = n
    <3>1. SubSeq(s, 1, n) \in Seq(E) /\ s[n + 1] \in E /\ Len(SubSeq(s, 1, n)) = n
          /\ s = Append(SubSeq(s, 1, n), s[n + 1])
      BY <2>1
    <3> QED BY <3>1
  <2>3. t \in S
    BY <1>2, <2>2
  <2> QED BY <2>2, <2>3
<1>3. Nat \subseteq T
  <2> HIDE DEF T
  <2> QED BY <1>1, <1>2, AllNaturals
<1>4. \A s \in Seq(E) : Len(s) \in Nat
  OBVIOUS
<1> QED BY <1>3, <1>4

\* In a list a record of U with the action a comes before all those with the action b.
ComesFirst(s, U, a, b) ==
    \E i \in DOMAIN s : s[i] \in U /\ s[i].action = a /\ \A j \in 1 .. i : s[j] \in U => s[j].action # b

\* One record more.
LEMMA FirstOfMore ==
    ASSUME NEW E, NEW s \in Seq(E), NEW x \in E, NEW U, NEW a, NEW b
    PROVE  ComesFirst(Append(s, x), U, a, b) <=>
              \/ ComesFirst(s, U, a, b)
              \/ x \in U /\ x.action = a /\ a # b /\ \A y \in ToSet(s) : y \in U => y.action # b
<1>1. /\ Len(s) \in Nat /\ DOMAIN s = 1 .. Len(s) /\ DOMAIN Append(s, x) = 1 .. Len(s) + 1
      /\ Append(s, x)[Len(s) + 1] = x /\ \A i \in 1 .. Len(s) : Append(s, x)[i] = s[i]
  OBVIOUS
<1> DEFINE t == Append(s, x)
           N == Len(s)
           Ok(r, i) == r[i] \in U /\ r[i].action = a /\ \A j \in 1 .. i : r[j] \in U => r[j].action # b
<1> HIDE DEF t, N
<1>2. \A i \in 1 .. N : Ok(t, i) <=> Ok(s, i)
  <2>1. TAKE i \in 1 .. N
  <2>2. \A j \in 1 .. i : t[j] = s[j]
    BY <1>1 DEF t, N
  <2>3. t[i] = s[i]
    BY <1>1 DEF t, N
  <2> QED BY <2>2, <2>3
<1>3. Ok(t, N + 1) <=> x \in U /\ x.action = a /\ a # b /\ \A y \in ToSet(s) : y \in U => y.action # b
  <2>1. t[N + 1] = x /\ \A j \in 1 .. N : t[j] = s[j]
    BY <1>1 DEF t, N
  <2>2. \A j : j \in 1 .. N + 1 <=> j \in 1 .. N \/ j = N + 1
    BY <1>1 DEF N
  <2>3. ToSet(s) = {s[j] : j \in 1 .. N}
    BY <1>1 DEF ToSet, N
  <2> QED BY <2>1, <2>2, <2>3
<1>4. \A i : i \in DOMAIN t <=> i \in DOMAIN s \/ i = N + 1
  BY <1>1 DEF t, N
<1>5. DOMAIN s = 1 .. N
  BY <1>1 DEF N
<1>6. ComesFirst(t, U, a, b) <=> \E i \in DOMAIN t : Ok(t, i)
  BY DEF ComesFirst
<1>7. ComesFirst(s, U, a, b) <=> \E i \in DOMAIN s : Ok(s, i)
  BY DEF ComesFirst
<1> HIDE DEF Ok
<1>8. ComesFirst(t, U, a, b) <=> ComesFirst(s, U, a, b) \/ Ok(t, N + 1)
  BY <1>2, <1>4, <1>5, <1>6, <1>7
<1> QED BY <1>3, <1>8 DEF t

\* Of no records none comes first.
LEMMA NothingFirst == ASSUME NEW U, NEW a, NEW b PROVE ~ComesFirst(<<>>, U, a, b) /\ ToSet(<<>>) = {}
  BY DEF ComesFirst, ToSet

\* The elements of a sequence and one more.
LEMMA ElementsOfMore ==
    ASSUME NEW E, NEW s \in Seq(E), NEW x \in E
    PROVE  ToSet(Append(s, x)) = ToSet(s) \cup {x} /\ ToSet(s) \subseteq E
<1>1. /\ Len(s) \in Nat /\ DOMAIN s = 1 .. Len(s) /\ DOMAIN Append(s, x) = 1 .. Len(s) + 1
      /\ Append(s, x)[Len(s) + 1] = x /\ \A i \in 1 .. Len(s) : Append(s, x)[i] = s[i] /\ s[i] \in E
  OBVIOUS
<1>2. \A i : i \in 1 .. Len(s) + 1 <=> i \in 1 .. Len(s) \/ i = Len(s) + 1
  BY <1>1
<1> QED BY <1>1, <1>2 DEF ToSet

\* The chosen records are those of the set, in their order.
LEMMA ChosenInOrder ==
    ASSUME NEW E, NEW T, NEW s \in Seq(E)
    PROVE  /\ Chosen(s, T) \in Seq(E)
           /\ ToSet(Chosen(s, T)) = {y \in ToSet(s) : y \in T}
           /\ \A U, a, b : ComesFirst(Chosen(s, T), U, a, b) <=> ComesFirst(s, T \cap U, a, b)
<1> DEFINE S == {r \in Seq(E) :
                  /\ ToSet(Chosen(r, T)) = {y \in ToSet(r) : y \in T}
                  /\ \A U, a, b : ComesFirst(Chosen(r, T), U, a, b) <=> ComesFirst(r, T \cap U, a, b)}
<1>1. <<>> \in S
  <2>1. Chosen(<<>>, T) = <<>>
    BY ChosenFold
  <2>2. <<>> \in Seq(E)
    OBVIOUS
  <2> QED BY <2>1, <2>2, NothingFirst
<1>2. ASSUME NEW r \in Seq(E), NEW x \in E, r \in S PROVE Append(r, x) \in S
  <2>1. Chosen(Append(r, x), T) = (IF x \in T THEN Append(Chosen(r, T), x) ELSE Chosen(r, T)) /\ Chosen(r, T) \in Seq(E)
    BY ChosenFold
  <2>2. ToSet(Append(r, x)) = ToSet(r) \cup {x} /\ ToSet(Append(Chosen(r, T), x)) = ToSet(Chosen(r, T)) \cup {x}
    BY <2>1, ElementsOfMore
  <2>3. ToSet(Chosen(r, T)) = {y \in ToSet(r) : y \in T}
    BY <1>2
  <2>4. ToSet(Chosen(Append(r, x), T)) = {y \in ToSet(Append(r, x)) : y \in T}
    BY <2>1, <2>2, <2>3
  <2>5. ASSUME NEW U, NEW a, NEW b
        PROVE  ComesFirst(Chosen(Append(r, x), T), U, a, b) <=> ComesFirst(Append(r, x), T \cap U, a, b)
    <3>1. ComesFirst(Chosen(r, T), U, a, b) <=> ComesFirst(r, T \cap U, a, b)
      BY <1>2
    <3>2. ComesFirst(Append(r, x), T \cap U, a, b) <=>
              \/ ComesFirst(r, T \cap U, a, b)
              \/ x \in T \cap U /\ x.action = a /\ a # b /\ \A y \in ToSet(r) : y \in T \cap U => y.action # b
      BY FirstOfMore
    <3>3. x \in T => (ComesFirst(Chosen(Append(r, x), T), U, a, b) <=>
              \/ ComesFirst(Chosen(r, T), U, a, b)
              \/ x \in U /\ x.action = a /\ a # b /\ \A y \in ToSet(Chosen(r, T)) : y \in U => y.action # b)
      BY <2>1, FirstOfMore
    <3>4. (\A y \in ToSet(Chosen(r, T)) : y \in U => y.action # b)
             <=> \A y \in ToSet(r) : y \in T \cap U => y.action # b
      BY <2>3
    <3>5. CASE x \in T
      BY <3>1, <3>2, <3>3, <3>4, <3>5
    <3>6. CASE x \notin T
      BY <2>1, <3>1, <3>2, <3>6
    <3> QED BY <3>5, <3>6
  <2>6. Append(r, x) \in Seq(E)
    OBVIOUS
  <2> QED BY <2>4, <2>5, <2>6
<1>3. Seq(E) \subseteq S
  <2> HIDE DEF S
  <2> QED BY <1>1, <1>2, AllSequences
<1>4. Chosen(s, T) \in Seq(E)
  BY ChosenFold
<1> QED BY <1>3, <1>4

\* conflicts.rs: the distinct actions are in the order in which they come first.
LEMMA ActionsInOrder ==
    ASSUME NEW A, NEW E, \A y \in E : y.action \in A, NEW s \in Seq(E)
    PROVE  /\ DistinctActions(s) \in Seq(A)
           /\ ToSet(DistinctActions(s)) = {y.action : y \in ToSet(s)}
           /\ \A k, l \in DOMAIN DistinctActions(s) :
                 k < l => ComesFirst(s, E, DistinctActions(s)[k], DistinctActions(s)[l])
<1> DEFINE S == {r \in Seq(E) :
                  /\ ToSet(DistinctActions(r)) = {y.action : y \in ToSet(r)}
                  /\ \A k, l \in DOMAIN DistinctActions(r) :
                        k < l => ComesFirst(r, E, DistinctActions(r)[k], DistinctActions(r)[l])}
<1>1. <<>> \in S
  <2>1. DistinctActions(<<>>) = <<>>
    BY ActionsFold
  <2>2. <<>> \in Seq(E)
    OBVIOUS
  <2>3. DOMAIN DistinctActions(<<>>) = {}
    BY <2>1
  <2>4. ToSet(DistinctActions(<<>>)) = {} /\ ToSet(<<>>) = {}
    BY <2>1, NothingFirst
  <2> QED BY <2>2, <2>3, <2>4
<1>2. ASSUME NEW r \in Seq(E), NEW x \in E, r \in S PROVE Append(r, x) \in S
  <2> DEFINE D == DistinctActions(r)
             G == DistinctActions(Append(r, x))
  <2>0. /\ DistinctActions(r) \in Seq(A)
        /\ \A y \in E : DistinctActions(Append(r, y)) =
               (IF Contains(DistinctActions(r), y.action) THEN DistinctActions(r) ELSE Append(DistinctActions(r), y.action))
    BY ActionsFold
  <2>1. D \in Seq(A) /\ G = (IF Contains(D, x.action) THEN D ELSE Append(D, x.action)) /\ x.action \in A
    BY <2>0
  <2>2. ToSet(D) = {y.action : y \in ToSet(r)} /\ \A k, l \in DOMAIN D : k < l => ComesFirst(r, E, D[k], D[l])
    BY <1>2
  <2> HIDE DEF D, G
  <2>3. Contains(D, x.action) <=> x.action \in ToSet(D)
    <3>1. DOMAIN D = 1 .. Len(D)
      BY <2>1
    <3> QED BY <3>1, Zenon DEF Contains, ToSet
  <2>4. ToSet(Append(r, x)) = ToSet(r) \cup {x} /\ ToSet(r) \subseteq E
    BY ElementsOfMore
  <2>5. ToSet(Append(D, x.action)) = ToSet(D) \cup {x.action}
    BY <2>1, ElementsOfMore
  <2>6. ToSet(G) = {y.action : y \in ToSet(Append(r, x))}
    BY <2>1, <2>2, <2>3, <2>4, <2>5
  <2>7. \A a, b : ComesFirst(r, E, a, b) => ComesFirst(Append(r, x), E, a, b)
    BY FirstOfMore
  <2>8. ASSUME NEW k \in DOMAIN G, NEW l \in DOMAIN G, k < l
        PROVE  ComesFirst(Append(r, x), E, G[k], G[l])
    <3>1. CASE Contains(D, x.action)
      BY <2>1, <2>2, <2>7, <2>8, <3>1
    <3>2. CASE ~Contains(D, x.action)
      <4>1. G = Append(D, x.action) /\ Len(D) \in Nat /\ DOMAIN D = 1 .. Len(D) /\ DOMAIN G = 1 .. Len(D) + 1
            /\ G[Len(D) + 1] = x.action /\ (\A i \in 1 .. Len(D) : G[i] = D[i]) /\ k \in 1 .. Len(D)
        BY <2>1, <2>8, <3>2
      <4>2. CASE l \in 1 .. Len(D)
        BY <2>2, <2>7, <2>8, <4>1, <4>2
      <4>3. CASE l = Len(D) + 1
        <5>1. G[k] = D[k] /\ G[l] = x.action /\ D[k] \in ToSet(D)
          BY <4>1, <4>3 DEF ToSet
        <5>2. PICK y \in ToSet(r) : y.action = D[k]
          BY <2>2, <5>1
        <5>3. PICK i \in DOMAIN r : r[i] = y
          BY <5>2 DEF ToSet
        <5>4. \A j \in 1 .. i : j \in DOMAIN r /\ r[j] \in E
          BY <5>3
        <5>5. \A j \in 1 .. i : r[j].action \in ToSet(D)
          BY <2>2, <5>4 DEF ToSet
        <5>6. \A j \in 1 .. i : r[j].action # x.action
          BY <2>3, <3>2, <5>5
        <5>7. r[i] \in E /\ r[i].action = D[k]
          BY <5>2, <5>3
        <5>8. ComesFirst(r, E, D[k], x.action)
          BY <5>3, <5>6, <5>7 DEF ComesFirst
        <5> QED BY <2>7, <5>1, <5>8
      <4> QED BY <4>1, <4>2, <4>3
    <3> QED BY <3>1, <3>2
  <2>9. Append(r, x) \in Seq(E)
    OBVIOUS
  <2> QED BY <2>6, <2>8, <2>9 DEF G
<1>3. Seq(E) \subseteq S
  <2> HIDE DEF S
  <2> QED BY <1>1, <1>2, AllSequences
<1>4. DistinctActions(s) \in Seq(A)
  BY ActionsFold
<1> QED BY <1>3, <1>4

\* bindings.rs: sorting moves the records around, and keeps the order of those of a group.
LEMMA SortedIs ==
    ASSUME NEW listed \in Seq(ListRows)
    PROVE  \E p \in [1 .. Len(listed) -> 1 .. Len(listed)] :
              /\ Sorted(listed) = [k \in 1 .. Len(listed) |-> listed[p[k]]]
              /\ \A i \in 1 .. Len(listed) : \E k \in 1 .. Len(listed) : p[k] = i
              /\ \A k, l \in 1 .. Len(listed) :
                    Group(listed[p[k]]) = Group(listed[p[l]]) => (p[k] <= p[l] <=> k <= l)
<1> DEFINE N == Len(listed)
           before(i) == {j \in DOMAIN listed : Precedes(listed[j], listed[i]) \/ (j < i /\ ~Precedes(listed[i], listed[j]))}
           B == [i \in 1 .. N |-> before(i)]
           place(i) == Place(listed[i])
<1>1. N \in Nat /\ DOMAIN listed = 1 .. N /\ \A i \in 1 .. N : listed[i] \in ListRows
  OBVIOUS
<1>2. /\ \A i \in 1 .. N : place(i) \in Nat
      /\ \A i, j \in 1 .. N : Precedes(listed[i], listed[j]) <=> place(i) < place(j)
      /\ \A i, j \in 1 .. N : Group(listed[i]) = Group(listed[j]) <=> place(i) = place(j)
  BY <1>1, PrecedesIsByPlace
<1> HIDE DEF N, place
<1>3. \A i, j \in 1 .. N : j \in B[i] <=> place(j) < place(i) \/ (j < i /\ place(j) = place(i))
  <2>1. TAKE i \in 1 .. N, j \in 1 .. N
  <2>2. j \in B[i] <=> Precedes(listed[j], listed[i]) \/ (j < i /\ ~Precedes(listed[i], listed[j]))
    BY <1>1
  <2>3. place(i) \in Nat /\ place(j) \in Nat
    BY <1>2
  <2> QED BY <1>2, <2>2, <2>3
<1>4. B \in [1 .. N -> SUBSET (1 .. N)]
  BY <1>1
<1> HIDE DEF before, B
<1>5. \A i \in 1 .. N : i \notin B[i]
  BY <1>2, <1>3
<1>6. ASSUME NEW i \in 1 .. N, NEW j \in 1 .. N, i \in B[j] PROVE (B[i] \cup {i}) \subseteq B[j]
  <2>1. SUFFICES ASSUME NEW m \in 1 .. N, m \in B[i] PROVE m \in B[j]
    BY <1>4, <1>6
  <2>2. place(i) \in Nat /\ place(j) \in Nat /\ place(m) \in Nat /\ i \in Nat /\ j \in Nat /\ m \in Nat
    BY <1>1, <1>2
  <2>3. place(i) < place(j) \/ (i < j /\ place(i) = place(j))
    BY <1>3, <1>6
  <2>4. place(m) < place(i) \/ (m < i /\ place(m) = place(i))
    BY <1>3, <2>1
  <2>5. place(m) < place(j) \/ (m < j /\ place(m) = place(j))
    BY <2>2, <2>3, <2>4
  <2> QED BY <1>3, <2>5
<1>7. \A i, j \in 1 .. N : i # j => i \in B[j] \/ j \in B[i]
  <2>1. TAKE i \in 1 .. N, j \in 1 .. N
  <2>2. place(i) \in Nat /\ place(j) \in Nat /\ i \in Nat /\ j \in Nat
    BY <1>1, <1>2
  <2>3. i # j => (place(i) < place(j) \/ (i < j /\ place(i) = place(j))) \/ (place(j) < place(i) \/ (j < i /\ place(j) = place(i)))
    BY <2>2
  <2> QED BY <1>3, <2>3
<1>8. \A i, j \in 1 .. N : i # j => (B[i] \cup {i}) \subseteq B[j] \/ (B[j] \cup {j}) \subseteq B[i]
  BY <1>6, <1>7
<1>9. /\ \A i \in 1 .. N : Cardinality(B[i]) \in Nat
      /\ \A i, j \in 1 .. N : i \in B[j] => Cardinality(B[i]) < Cardinality(B[j])
      /\ \A i, j \in 1 .. N : Cardinality(B[i]) = Cardinality(B[j]) => i = j
      /\ \A k \in 1 .. N : \E i \in 1 .. N : Cardinality(B[i]) = k - 1
  BY <1>1, <1>4, <1>5, <1>8, Ranks
<1> DEFINE p == [k \in 1 .. N |-> CHOOSE i \in 1 .. N : Cardinality(B[i]) = k - 1]
<1>10. \A k \in 1 .. N : p[k] \in 1 .. N /\ Cardinality(B[p[k]]) = k - 1
  BY <1>9
<1>11. p \in [1 .. N -> 1 .. N]
  BY <1>10
<1>12. Sorted(listed) = [k \in 1 .. N |-> listed[p[k]]]
  <2>1. \A i \in 1 .. N : before(i) = B[i]
    BY DEF B
  <2>2. Sorted(listed) = [k \in DOMAIN listed |-> listed[CHOOSE i \in DOMAIN listed : Cardinality(before(i)) = k - 1]]
    BY Zenon DEF Sorted, before
  <2>3. Sorted(listed) = [k \in 1 .. N |-> listed[CHOOSE i \in 1 .. N : Cardinality(before(i)) = k - 1]]
    BY <1>1, <2>2
  <2>4. ASSUME NEW k \in 1 .. N
        PROVE  (CHOOSE i \in 1 .. N : Cardinality(before(i)) = k - 1) = p[k]
    <3>1. \A i \in 1 .. N : Cardinality(before(i)) = k - 1 => i = p[k]
      BY <1>9, <1>10, <2>1
    <3>2. Cardinality(before(p[k])) = k - 1
      BY <1>10, <2>1
    <3>3. \E i \in 1 .. N : Cardinality(before(i)) = k - 1
      BY <1>10, <3>2
    <3> DEFINE c == CHOOSE i \in 1 .. N : Cardinality(before(i)) = k - 1
    <3>4. c \in 1 .. N /\ Cardinality(before(c)) = k - 1
      BY <3>3
    <3> HIDE DEF p
    <3> QED BY <3>1, <3>4
  <2> QED BY <2>3, <2>4, Zenon
<1> HIDE DEF p
<1>13. ASSUME NEW i \in 1 .. N PROVE \E k \in 1 .. N : p[k] = i
  <2>1. Cardinality(B[i]) + 1 \in 1 .. N
    <3> DEFINE c == Cardinality(B[i])
    <3>1. c \in Nat
      BY <1>9
    <3>2. c < N
      <4>1. IsFiniteSet(1 .. N) /\ Cardinality(1 .. N) = N
        <5>1. 1 \in Int /\ N \in Int /\ (IF 1 > N THEN 0 ELSE N - 1 + 1) = N
          BY <1>1
        <5> QED BY <5>1, FS_Interval
      <4>2. B[i] \in SUBSET (1 .. N) /\ B[i] # 1 .. N
        BY <1>4, <1>5
      <4>3. c <= N /\ c # N
        BY <4>1, <4>2, FS_Subset
      <4> QED BY <1>1, <3>1, <4>3
    <3> HIDE DEF c
    <3>3. c + 1 \in 1 .. N
      BY <1>1, <3>1, <3>2
    <3> QED BY <3>3 DEF c
  <2>2. PICK k \in 1 .. N : k = Cardinality(B[i]) + 1
    BY <2>1
  <2>3. Cardinality(B[i]) \in Nat
    BY <1>9
  <2>4. Cardinality(B[i]) = k - 1
    BY <2>2, <2>3
  <2> QED BY <1>9, <1>10, <2>4
<1>14. ASSUME NEW k \in 1 .. N, NEW l \in 1 .. N, Group(listed[p[k]]) = Group(listed[p[l]])
       PROVE  p[k] <= p[l] <=> k <= l
  <2>1. p[k] \in 1 .. N /\ p[l] \in 1 .. N /\ Cardinality(B[p[k]]) = k - 1 /\ Cardinality(B[p[l]]) = l - 1
    BY <1>10
  <2>2. place(p[k]) = place(p[l])
    BY <1>2, <1>14, <2>1
  <2>3. p[k] < p[l] => p[k] \in B[p[l]]
    BY <1>3, <2>1, <2>2
  <2>4. p[l] < p[k] => p[l] \in B[p[k]]
    BY <1>3, <2>1, <2>2
  <2>5. p[k] < p[l] => k - 1 < l - 1
    <3>1. SUFFICES ASSUME p[k] < p[l] PROVE k - 1 < l - 1
      OBVIOUS
    <3>2. Cardinality(B[p[k]]) < Cardinality(B[p[l]])
      BY <1>9, <2>1, <2>3, <3>1
    <3> QED BY <2>1, <3>2, Zenon
  <2>6. p[l] < p[k] => l - 1 < k - 1
    <3>1. SUFFICES ASSUME p[l] < p[k] PROVE l - 1 < k - 1
      OBVIOUS
    <3>2. Cardinality(B[p[l]]) < Cardinality(B[p[k]])
      BY <1>9, <2>1, <2>4, <3>1
    <3> QED BY <2>1, <3>2, Zenon
  <2>7. k \in Nat /\ l \in Nat /\ p[k] \in Nat /\ p[l] \in Nat
    BY <1>1, <2>1
  <2>8. p[k] = p[l] => k = l
    BY <2>1, <2>7
  <2> QED BY <2>5, <2>6, <2>7, <2>8
<1> QED BY <1>11, <1>12, <1>13, <1>14 DEF N

\* Nothing comes before itself, and of two actions one comes first.
LEMMA OneComesFirst ==
    ASSUME NEW E, NEW s \in Seq(E), NEW U, NEW a, NEW b
    PROVE  /\ ~ComesFirst(s, U, a, a)
           /\ ~(ComesFirst(s, U, a, b) /\ ComesFirst(s, U, b, a))
           /\ \A y \in ToSet(s) : y \in U /\ (\A z \in ToSet(s) : z \in U => z.action # b) => ComesFirst(s, U, y.action, b)
<1>1. DOMAIN s = 1 .. Len(s) /\ Len(s) \in Nat
  OBVIOUS
<1>2. \A i \in DOMAIN s : i \in 1 .. i
  BY <1>1
<1>3. ~ComesFirst(s, U, a, a)
  BY <1>2 DEF ComesFirst
<1>4. ASSUME ComesFirst(s, U, a, b), ComesFirst(s, U, b, a) PROVE FALSE
  <2>1. PICK i \in DOMAIN s : s[i] \in U /\ s[i].action = a /\ \A j \in 1 .. i : s[j] \in U => s[j].action # b
    BY <1>4 DEF ComesFirst
  <2>2. PICK k \in DOMAIN s : s[k] \in U /\ s[k].action = b /\ \A j \in 1 .. k : s[j] \in U => s[j].action # a
    BY <1>4 DEF ComesFirst
  <2>3. i \in 1 .. k \/ k \in 1 .. i
    BY <1>1
  <2> QED BY <2>1, <2>2, <2>3
<1>5. ASSUME NEW y \in ToSet(s), y \in U, \A z \in ToSet(s) : z \in U => z.action # b
      PROVE  ComesFirst(s, U, y.action, b)
  <2>1. PICK i \in DOMAIN s : s[i] = y
    BY <1>5 DEF ToSet
  <2>2. \A j \in 1 .. i : s[j] \in ToSet(s)
    BY <1>1 DEF ToSet
  <2>3. \A j \in 1 .. i : s[j] \in U => s[j].action # b
    BY <1>5, <2>2
  <2>4. s[i] \in U /\ s[i].action = y.action
    BY <1>5, <2>1
  <2> QED BY <2>3, <2>4 DEF ComesFirst
<1> QED BY <1>3, <1>4, <1>5

\* What comes first is told by the records of the list.
LEMMA FirstOfSame ==
    ASSUME NEW E, NEW s \in Seq(E), NEW U, NEW V, \A y \in ToSet(s) : y \in U <=> y \in V
    PROVE  \A a, b : ComesFirst(s, U, a, b) <=> ComesFirst(s, V, a, b)
<1>1. \A i \in DOMAIN s : s[i] \in U <=> s[i] \in V
  BY DEF ToSet
<1>2. \A i \in DOMAIN s : \A j \in 1 .. i : j \in DOMAIN s
  OBVIOUS
<1> QED BY <1>1, <1>2 DEF ComesFirst

\* A list that is followed by records of other groups.
LEMMA FirstOfFollowed ==
    ASSUME NEW E, NEW s \in Seq(E), NEW t \in Seq(E), NEW U, \A y \in ToSet(t) : y \notin U
    PROVE  /\ \A a, b : ComesFirst(s \o t, U, a, b) <=> ComesFirst(s, U, a, b)
           /\ ToSet(s \o t) = ToSet(s) \cup ToSet(t)
<1> DEFINE M == Len(s)
           N == Len(t)
           r == s \o t
<1>1. /\ r \in Seq(E) /\ M \in Nat /\ N \in Nat /\ DOMAIN s = 1 .. M /\ DOMAIN t = 1 .. N /\ DOMAIN r = 1 .. (M + N)
      /\ \A i \in 1 .. M : r[i] = s[i] /\ i \in 1 .. (M + N)
      /\ \A i \in 1 .. N : r[M + i] = t[i] /\ M + i \in 1 .. (M + N)
  OBVIOUS
<1> HIDE DEF M, N, r
<1>2. ASSUME NEW i \in 1 .. (M + N) PROVE i \in 1 .. M \/ \E j \in 1 .. N : i = M + j /\ r[i] = t[j]
  <2>1. CASE i <= M
    BY <1>1, <2>1
  <2>2. CASE i > M
    <3>1. i - M \in 1 .. N /\ i = M + (i - M)
      BY <1>1, <2>2
    <3> QED BY <1>1, <3>1
  <2> QED BY <1>1, <2>1, <2>2
<1>3. ToSet(r) = ToSet(s) \cup ToSet(t)
  BY ConcatElements DEF r
<1>4. \A i \in 1 .. (M + N) : r[i] \in U => i \in 1 .. M
  <2>1. \A j \in 1 .. N : t[j] \in ToSet(t)
    BY <1>1 DEF ToSet
  <2> QED BY <1>2, <2>1
<1>5. \A i \in 1 .. M : \A j \in 1 .. i : j \in 1 .. M
  BY <1>1
<1>6. ASSUME NEW a, NEW b PROVE ComesFirst(r, U, a, b) <=> ComesFirst(s, U, a, b)
  <2>1. ASSUME ComesFirst(r, U, a, b) PROVE ComesFirst(s, U, a, b)
    <3>1. PICK i \in DOMAIN r : r[i] \in U /\ r[i].action = a /\ \A j \in 1 .. i : r[j] \in U => r[j].action # b
      BY <2>1 DEF ComesFirst
    <3>2. i \in 1 .. M
      BY <1>1, <1>4, <3>1
    <3> QED BY <1>1, <1>5, <3>1, <3>2 DEF ComesFirst
  <2>2. ASSUME ComesFirst(s, U, a, b) PROVE ComesFirst(r, U, a, b)
    <3>1. PICK i \in 1 .. M : s[i] \in U /\ s[i].action = a /\ \A j \in 1 .. i : s[j] \in U => s[j].action # b
      BY <1>1, <2>2 DEF ComesFirst
    <3>2. i \in DOMAIN r /\ r[i] = s[i] /\ \A j \in 1 .. i : r[j] = s[j]
      BY <1>1, <1>5
    <3> QED BY <3>1, <3>2 DEF ComesFirst
  <2> QED BY <2>1, <2>2
<1> QED BY <1>3, <1>6 DEF r

\* bindings.rs: sorting keeps the records and the order within a group.
LEMMA SortedInOrder ==
    ASSUME NEW listed \in Seq(ListRows)
    PROVE  /\ Sorted(listed) \in Seq(ListRows) /\ Len(Sorted(listed)) = Len(listed) /\ ToSet(Sorted(listed)) = ToSet(listed)
           /\ \A U, a, b : (\A x, y \in U : Group(x) = Group(y)) =>
                 (ComesFirst(Sorted(listed), U, a, b) <=> ComesFirst(listed, U, a, b))
<1> DEFINE N == Len(listed)
           s == Sorted(listed)
<1>1. N \in Nat /\ DOMAIN listed = 1 .. N /\ \A i \in 1 .. N : listed[i] \in ListRows
  OBVIOUS
<1>2. PICK p \in [1 .. N -> 1 .. N] :
          /\ s = [k \in 1 .. N |-> listed[p[k]]]
          /\ \A i \in 1 .. N : \E k \in 1 .. N : p[k] = i
          /\ \A k, l \in 1 .. N : Group(listed[p[k]]) = Group(listed[p[l]]) => (p[k] <= p[l] <=> k <= l)
  BY SortedIs
<1> HIDE DEF N, s
<1>3. DOMAIN s = 1 .. N /\ \A k \in 1 .. N : s[k] = listed[p[k]] /\ s[k] \in ListRows
  BY <1>1, <1>2
<1>4. s \in Seq(ListRows) /\ Len(s) = N
  BY <1>1, <1>2, <1>3
<1>5. ASSUME NEW x PROVE x \in ToSet(s) <=> x \in ToSet(listed)
  BY <1>1, <1>2, <1>3 DEF ToSet
<1>6. ASSUME NEW U, NEW a, NEW b, \A x, y \in U : Group(x) = Group(y)
      PROVE  ComesFirst(s, U, a, b) <=> ComesFirst(listed, U, a, b)
  <2>0. \A i, j \in 1 .. N : j \in 1 .. i <=> j <= i
    BY <1>1
  <2>1. ASSUME ComesFirst(s, U, a, b) PROVE ComesFirst(listed, U, a, b)
    <3>1. PICK k \in 1 .. N : s[k] \in U /\ s[k].action = a /\ \A l \in 1 .. k : s[l] \in U => s[l].action # b
      BY <1>3, <2>1 DEF ComesFirst
    <3>2. p[k] \in 1 .. N /\ listed[p[k]] = s[k]
      BY <1>3
    <3>3. ASSUME NEW j \in 1 .. p[k], listed[j] \in U PROVE listed[j].action # b
      <4>1. j \in 1 .. N /\ j <= p[k]
        BY <1>1, <3>2
      <4>2. PICK l \in 1 .. N : p[l] = j
        BY <1>2, <4>1
      <4>3. Group(listed[p[l]]) = Group(listed[p[k]])
        BY <1>6, <3>1, <3>2, <3>3, <4>2
      <4>4. l <= k
        BY <1>2, <4>1, <4>2, <4>3
      <4> QED BY <1>3, <2>0, <3>1, <3>3, <4>2, <4>4
    <3> QED BY <1>1, <3>1, <3>2, <3>3 DEF ComesFirst
  <2>2. ASSUME ComesFirst(listed, U, a, b) PROVE ComesFirst(s, U, a, b)
    <3>1. PICK i \in 1 .. N : listed[i] \in U /\ listed[i].action = a /\ \A j \in 1 .. i : listed[j] \in U => listed[j].action # b
      BY <1>1, <2>2 DEF ComesFirst
    <3>2. PICK k \in 1 .. N : p[k] = i
      BY <1>2
    <3>3. ASSUME NEW l \in 1 .. k, s[l] \in U PROVE s[l].action # b
      <4>1. l \in 1 .. N /\ l <= k
        BY <1>1
      <4>2. p[l] \in 1 .. N /\ s[l] = listed[p[l]]
        BY <1>3, <4>1
      <4>3. Group(listed[p[l]]) = Group(listed[p[k]])
        BY <1>6, <3>1, <3>2, <3>3, <4>2
      <4>4. p[l] <= p[k]
        BY <1>2, <4>1, <4>3
      <4> QED BY <2>0, <3>1, <3>2, <3>3, <4>2, <4>4
    <3> QED BY <1>3, <3>1, <3>2, <3>3 DEF ComesFirst
  <2> QED BY <2>1, <2>2
<1> QED BY <1>4, <1>5, <1>6 DEF N, s

\* Two different elements make a sequence longer than one.
LEMMA TwoAreMore ==
    ASSUME NEW A, NEW d \in Seq(A), NEW a \in ToSet(d), NEW b \in ToSet(d), a # b
    PROVE  Len(d) > 1
<1>1. PICK i \in 1 .. Len(d), j \in 1 .. Len(d) : d[i] = a /\ d[j] = b
  BY DEF ToSet
<1> QED BY <1>1

\* The actions of the records of a set.
ActionsOf(set) == {y.action : y \in set}

\* The binds of one key of Hyprland.
BoundTo(r) == {x \in ToSet(hyprland) : x.key = r.key /\ x.mods = r.mods /\ x.submap = r.submap}

\* What Hyprland runs on a key: the actions that come before its first submap bind, and that.
LEMMA FiredIs ==
    ASSUME hyprland \in Seq(ListRows), NEW r
    PROVE  \A b : b \in Fired(r.key, r.mods, r.submap) <=>
              b \in ActionsOf(BoundTo(r)) /\ (b = "submap x" \/ ComesFirst(hyprland, BoundTo(r), b, "submap x"))
<1> DEFINE T == BoundTo(r)
           F == Fired(r.key, r.mods, r.submap)
           M == Chosen(hyprland, T)
           stop == {i \in DOMAIN M : IsSubmap(M[i].action)}
<1>1. /\ M \in Seq(ListRows) /\ ToSet(M) = {y \in ToSet(hyprland) : y \in T}
      /\ \A a, b : ComesFirst(M, ListRows, a, b) <=> ComesFirst(hyprland, T \cap ListRows, a, b)
  <2> HIDE DEF T
  <2> QED BY ChosenInOrder
<1>2. ToSet(hyprland) \subseteq ListRows
  BY DEF ToSet
<1>3. \A a, b : ComesFirst(M, ListRows, a, b) <=> ComesFirst(hyprland, T, a, b)
  <2>1. T \cap ListRows = T
    BY <1>2 DEF BoundTo
  <2> QED BY <1>1, <2>1
<1>4. F = {M[i].action : i \in {j \in DOMAIN M : \A s \in stop : j <= s}}
  BY DEF Fired, BoundTo
<1> HIDE DEF M, F
<1>5. DOMAIN M = 1 .. Len(M) /\ Len(M) \in Nat /\ \A i \in DOMAIN M : M[i] \in ListRows
  BY <1>1
<1>6. \A b : b \in ActionsOf(T) <=> \E i \in DOMAIN M : M[i].action = b
  <2>1. ToSet(M) = T
    BY <1>1 DEF BoundTo
  <2> QED BY <2>1 DEF ActionsOf, ToSet
<1>7. ASSUME NEW b, b # "submap x"
      PROVE  b \in F <=> ComesFirst(M, ListRows, b, "submap x")
  <2>1. \A i \in DOMAIN M : M[i].action = b =>
            ((\A s \in stop : i <= s) <=> \A j \in 1 .. i : M[j] \in ListRows => M[j].action # "submap x")
    <3>1. TAKE i \in DOMAIN M
    <3>2. HAVE M[i].action = b
    <3>3. ASSUME \A s \in stop : i <= s, NEW j \in 1 .. i PROVE M[j].action # "submap x"
      <4>1. j \in DOMAIN M /\ j <= i
        BY <1>5
      <4>2. SUFFICES ASSUME M[j].action = "submap x" PROVE FALSE
        OBVIOUS
      <4>3. j \in stop
        BY <4>1, <4>2 DEF IsSubmap
      <4>4. i <= j
        BY <3>3, <4>3
      <4>5. i = j
        BY <1>5, <4>1, <4>4
      <4> QED BY <1>7, <3>2, <4>2, <4>5
    <3>4. ASSUME \A j \in 1 .. i : M[j] \in ListRows => M[j].action # "submap x", NEW s \in stop PROVE i <= s
      <4>1. s \in DOMAIN M /\ M[s].action = "submap x" /\ M[s] \in ListRows
        BY <1>5 DEF IsSubmap
      <4>2. s \notin 1 .. i
        BY <3>4, <4>1
      <4>3. i \in Nat /\ s \in Nat /\ s >= 1
        <5>1. i \in 1 .. Len(M) /\ s \in 1 .. Len(M)
          BY <1>5, <4>1, Zenon
        <5> HIDE DEF stop
        <5> QED BY <1>5, <5>1
      <4>4. SUFFICES ASSUME ~(i <= s) PROVE FALSE
        OBVIOUS
      <4>5. s \in 1 .. i
        <5> HIDE DEF stop
        <5> QED BY <4>3, <4>4
      <4> QED BY <4>2, <4>5
    <3> QED BY <3>3, <3>4
  <2>2. b \in F <=> \E i \in DOMAIN M : (\A s \in stop : i <= s) /\ M[i].action = b
    BY <1>4
  <2>3. ComesFirst(M, ListRows, b, "submap x") <=>
            \E i \in DOMAIN M : M[i].action = b /\ \A j \in 1 .. i : M[j] \in ListRows => M[j].action # "submap x"
    BY <1>5 DEF ComesFirst
  <2> HIDE DEF stop
  <2> QED BY <2>1, <2>2, <2>3
<1>8. \A b : b \in F => b \in ActionsOf(T)
  BY <1>4, <1>6
<1>9. ASSUME "submap x" \in ActionsOf(T) PROVE "submap x" \in F
  <2>1. PICK i \in DOMAIN M : M[i].action = "submap x"
    BY <1>6, <1>9
  <2>2. stop \in SUBSET Nat /\ stop # {}
    <3>1. i \in stop
      BY <2>1 DEF IsSubmap
    <3>2. \A j \in DOMAIN M : j \in Nat
      BY <1>5
    <3> QED BY <3>1, <3>2
  <2>3. PICK s \in stop : \A t \in stop : s <= t
    <3> HIDE DEF stop
    <3> QED BY <2>2, LeastNatural
  <2>4. s \in DOMAIN M /\ M[s].action = "submap x"
    BY DEF IsSubmap
  <2> HIDE DEF stop
  <2> QED BY <1>4, <2>3, <2>4
<1> HIDE DEF T
<1>10. \A b : b \in F <=> b \in ActionsOf(T) /\ (b = "submap x" \/ ComesFirst(hyprland, T, b, "submap x"))
  <2>1. ASSUME NEW b, b # "submap x", b \in F PROVE b \in ActionsOf(T) /\ ComesFirst(hyprland, T, b, "submap x")
    BY <1>3, <1>7, <1>8, <2>1
  <2>2. ASSUME NEW b, b # "submap x", ComesFirst(hyprland, T, b, "submap x") PROVE b \in F
    BY <1>3, <1>7, <2>2
  <2> QED BY <1>8, <1>9, <2>1, <2>2
<1> QED BY <1>10 DEF T, F

\* bindings.rs: a whole listing is all binds of Hyprland and all records of the manifest, sorted.
ListInv ==
    part = "bindings" =>
        /\ listPc \in {"desktops", "extensions", "sort", "done"}
        /\ hyprland \in Seq(Records("hyprland")) /\ manifest \in Seq(Records("manifest"))
        /\ inventory \in Seq(ListRows)
        /\ listPc = "desktops" => inventory = <<>> /\ unavailable = {} /\ limitations = {}
        /\ listPc = "extensions" => limitations = {} /\ (unavailable = {} => inventory = hyprland)
        /\ listPc = "sort" => limitations = {} /\ (unavailable = {} => inventory = hyprland \o manifest)
        /\ listPc = "done" => (Whole => inventory = Sorted(hyprland \o manifest))

\* What Hyprland and a manifest may list are records.
LEMMA RecordsAreRows ==
    /\ Records("hyprland") \subseteq ListRows /\ Records("manifest") \subseteq ListRows
    /\ \A r \in Records("hyprland") : r.source = "hyprland" /\ r.context
    /\ \A r \in Records("manifest") : r.source = "manifest"
  BY DEF Records, ListRows

\* It holds before the first source is asked.
LEMMA ListStarts == Init => ListInv
<1> SUFFICES ASSUME Init, part = "bindings" PROVE ListInv
  BY DEF ListInv
<1>1. ListInit
  BY DEF Init
<1>2. ASSUME NEW S, NEW n \in Nat PROVE SeqOf(S, n) \subseteq Seq(S)
  BY DEF SeqOf
<1>3. MaxRecords \in Nat /\ MaxForeign \in Nat
  BY BindingInventoryAssumption
<1>4. hyprland \in Seq(Records("hyprland")) /\ manifest \in Seq(Records("manifest"))
  BY <1>1, <1>2, <1>3 DEF ListInit
<1>5. inventory \in Seq(ListRows)
  <2>1. <<>> \in Seq(ListRows)
    OBVIOUS
  <2> QED BY <1>1, <2>1 DEF ListInit
<1> QED BY <1>1, <1>4, <1>5 DEF ListInit, ListInv

\* It survives every answer, and the sorting.
LEMMA ListSteps == ListInv /\ [Next]_mcVars => ListInv'
<1> SUFFICES ASSUME ListInv, [Next]_mcVars, part' = "bindings" PROVE ListInv'
  BY DEF ListInv
<1>1. CASE UNCHANGED <<part, listVars>>
  BY <1>1 DEF ListInv, listVars, Whole
<1>2. CASE BindingsStep
  <2>1. part = "bindings" /\ ListNext
    BY <1>2 DEF BindingsStep
  <2>2. /\ hyprland \in Seq(Records("hyprland")) /\ manifest \in Seq(Records("manifest")) /\ inventory \in Seq(ListRows)
        /\ listPc = "desktops" => inventory = <<>> /\ unavailable = {} /\ limitations = {}
        /\ listPc = "extensions" => limitations = {} /\ (unavailable = {} => inventory = hyprland)
        /\ listPc = "sort" => limitations = {} /\ (unavailable = {} => inventory = hyprland \o manifest)
    BY <2>1 DEF ListInv
  <2>3. hyprland \in Seq(ListRows) /\ manifest \in Seq(ListRows)
    BY <2>2, RecordsAreRows
  <2>4. CASE CollectDesktop
    <3>1. /\ listPc = "desktops" /\ listPc' = "extensions" /\ hyprland' = hyprland /\ manifest' = manifest
          /\ limitations' = limitations
          /\ \/ inventory' = inventory \o hyprland
             \/ unavailable' = unavailable \union {"hyprland"} /\ inventory' = inventory
      BY <2>4 DEF CollectDesktop
    <3>2. inventory = <<>> /\ <<>> \o hyprland = hyprland
      BY <2>2, <3>1
    <3>3. inventory' \in Seq(ListRows) /\ (unavailable' = {} => inventory' = hyprland')
      BY <2>2, <2>3, <3>1, <3>2
    <3> QED BY <2>2, <3>1, <3>3 DEF ListInv
  <2>5. CASE CollectExtension
    <3>1. /\ listPc = "extensions" /\ listPc' = "sort" /\ hyprland' = hyprland /\ manifest' = manifest
          /\ limitations' = limitations
          /\ \/ inventory' = inventory \o manifest /\ unavailable' = unavailable
             \/ unavailable' = unavailable \union {"manifest"} /\ inventory' = inventory
             \/ manifest # <<>> /\ inventory' = inventory \o Tail(manifest) /\ unavailable' = unavailable \union {"entries"}
      BY <2>5 DEF CollectExtension
    <3>2. manifest # <<>> => Tail(manifest) \in Seq(ListRows)
      BY <2>3
    <3>3. inventory' \in Seq(ListRows)
      <4>1. \A x, y \in Seq(ListRows) : x \o y \in Seq(ListRows)
        OBVIOUS
      <4> QED BY <2>2, <2>3, <3>1, <3>2, <4>1
    <3>4. unavailable' = {} => inventory' = hyprland' \o manifest'
      BY <2>2, <3>1
    <3> QED BY <2>2, <3>1, <3>3, <3>4 DEF ListInv
  <2>6. CASE SortAndCut
    <3> DEFINE s == Sorted(inventory)
               N == Len(inventory)
    <3>1. /\ listPc = "sort" /\ listPc' = "done" /\ hyprland' = hyprland /\ manifest' = manifest
          /\ unavailable' = unavailable
          /\ inventory' = SubSeq(s, 1, IF N > MaxBindings THEN MaxBindings ELSE N)
          /\ limitations' = (IF N > MaxBindings THEN limitations \union {"truncated"} ELSE limitations)
      BY <2>6 DEF SortAndCut
    <3>2. s \in Seq(ListRows) /\ Len(s) = N /\ N \in Nat /\ MaxBindings \in Nat
      BY <2>2, SortedInOrder, BindingInventoryAssumption
    <3> HIDE DEF s, N
    <3>3. inventory' \in Seq(ListRows)
      <4>1. \A m \in Nat : m <= N => SubSeq(s, 1, m) \in Seq(ListRows)
        BY <3>2
      <4>2. PICK m \in Nat : m <= N /\ m = (IF N > MaxBindings THEN MaxBindings ELSE N)
        BY <3>2
      <4> QED BY <3>1, <4>1, <4>2
    <3>4. SubSeq(s, 1, Len(s)) = s
      BY <3>2
    <3>5. Whole' => inventory' = Sorted(hyprland \o manifest)
      <4>1. SUFFICES ASSUME Whole' PROVE inventory' = Sorted(hyprland \o manifest)
        OBVIOUS
      <4>2. ~(N > MaxBindings) /\ unavailable = {}
        BY <3>1, <4>1 DEF Whole
      <4> QED BY <2>2, <3>1, <3>2, <3>4, <4>2 DEF s
    <3> QED BY <2>2, <3>1, <3>3, <3>5 DEF ListInv
  <2> QED BY <2>1, <2>4, <2>5, <2>6 DEF ListNext
<1> QED BY <1>1, <1>2 DEF Next, mcVars, HyprlandStep, CompositorStep, DesktopStep, MethodStep, AppStep, ChainStep

\* The records of the group of a record.
GroupOf(list, r) == {x \in ToSet(list) : Group(x) = Group(r)}

\* The actions a conflict lists of a group.
ListedActions(list, r) == DistinctActions(Members(Chosen(list, {x \in ToSet(list) : ~Hidden(x)}), r))

\* conflicts.rs: a group's actions are listed once each, in the order in which they are met.
LEMMA MembersAre ==
    ASSUME NEW list \in Seq(ListRows), NEW r
    PROVE  LET D == DistinctActions(Members(list, r)) IN
           /\ D \in Seq(ToSet(ActionNames)) /\ ToSet(D) = ActionsOf(GroupOf(list, r))
           /\ \A k, l \in DOMAIN D : k < l => ComesFirst(list, GroupOf(list, r), D[k], D[l])
<1> DEFINE T == GroupOf(list, r)
           M == Members(list, r)
           D == DistinctActions(M)
<1>1. M = Chosen(list, T)
  BY DEF Members, GroupOf
<1>2. ToSet(list) \subseteq ListRows
  BY DEF ToSet
<1>3. /\ M \in Seq(ListRows) /\ ToSet(M) = {y \in ToSet(list) : y \in T}
      /\ \A U, a, b : ComesFirst(M, U, a, b) <=> ComesFirst(list, T \cap U, a, b)
  <2> HIDE DEF T, M
  <2> QED BY <1>1, ChosenInOrder
<1>4. ToSet(M) = T /\ T \cap ListRows = T
  BY <1>2, <1>3 DEF GroupOf
<1>5. \A y \in ListRows : y.action \in ToSet(ActionNames)
  BY DEF ListRows
<1> HIDE DEF T, M
<1>6. /\ D \in Seq(ToSet(ActionNames)) /\ ToSet(D) = {y.action : y \in ToSet(M)}
      /\ \A k, l \in DOMAIN D : k < l => ComesFirst(M, ListRows, D[k], D[l])
  BY <1>3, <1>5, ActionsInOrder
<1> HIDE DEF D
<1>7. \A a, b : ComesFirst(M, ListRows, a, b) <=> ComesFirst(list, T, a, b)
  BY <1>3, <1>4
<1>8. ToSet(D) = ActionsOf(T) /\ \A k, l \in DOMAIN D : k < l => ComesFirst(list, T, D[k], D[l])
  BY <1>4, <1>6, <1>7 DEF ActionsOf
<1> QED BY <1>6, <1>8 DEF D, T, M

\* The records of hidden keys are left out first, which changes no other group.
LEMMA ListedAre ==
    ASSUME NEW list \in Seq(ListRows), NEW r \in ToSet(list), ~Hidden(r)
    PROVE  /\ ListedActions(list, r) \in Seq(ToSet(ActionNames))
           /\ ToSet(ListedActions(list, r)) = ActionsOf(GroupOf(list, r))
           /\ \A k, l \in DOMAIN ListedActions(list, r) :
                 k < l => ComesFirst(list, GroupOf(list, r), ListedActions(list, r)[k], ListedActions(list, r)[l])
<1> DEFINE V == {x \in ToSet(list) : ~Hidden(x)}
           C == Chosen(list, V)
           D == ListedActions(list, r)
           T == GroupOf(list, r)
<1>1. /\ C \in Seq(ListRows) /\ ToSet(C) = {y \in ToSet(list) : y \in V}
      /\ \A U, a, b : ComesFirst(C, U, a, b) <=> ComesFirst(list, V \cap U, a, b)
  <2> HIDE DEF V
  <2> QED BY ChosenInOrder
<1>2. \A x : Group(x) = Group(r) => (Hidden(x) <=> Hidden(r))
  BY DEF Group, Hidden
<1>3. GroupOf(C, r) = T /\ V \cap T = T
  BY <1>1, <1>2 DEF GroupOf
<1>4. D = DistinctActions(Members(C, r))
  BY DEF ListedActions
<1> HIDE DEF C
<1>5. LET E == DistinctActions(Members(C, r)) IN
           /\ E \in Seq(ToSet(ActionNames)) /\ ToSet(E) = ActionsOf(GroupOf(C, r))
           /\ \A k, l \in DOMAIN E : k < l => ComesFirst(C, GroupOf(C, r), E[k], E[l])
  BY <1>1, MembersAre
<1> HIDE DEF D, T, V
<1>6. /\ D \in Seq(ToSet(ActionNames)) /\ ToSet(D) = ActionsOf(T)
      /\ \A k, l \in DOMAIN D : k < l => ComesFirst(C, T, D[k], D[l])
  BY <1>3, <1>4, <1>5
<1>7. \A a, b : ComesFirst(C, T, a, b) <=> ComesFirst(list, T, a, b)
  BY <1>1, <1>3
<1>8. \A k, l \in DOMAIN D : k < l => ComesFirst(list, T, D[k], D[l])
  BY <1>6, <1>7
<1> QED BY <1>6, <1>8 DEF D, T

\* build_conflicts: the conflicts are the groups of a known context with several actions.
LEMMA ConflictIs ==
    ASSUME NEW list \in Seq(ListRows), NEW c
    PROVE  c \in ConflictsOf(list) <=>
              \E r \in ToSet(list) :
                 /\ ~Hidden(r) /\ r.context /\ Len(ListedActions(list, r)) > 1
                 /\ c = [group |-> Group(r), actions |-> ListedActions(list, r),
                         class |-> Classification(r.source, ListedActions(list, r))]
<1> DEFINE V == {x \in ToSet(list) : ~Hidden(x)}
           C == Chosen(list, V)
           D(r) == DistinctActions(Members(C, r))
<1>1. ToSet(C) = {y \in ToSet(list) : y \in V}
  <2> HIDE DEF V
  <2> QED BY ChosenInOrder
<1>2. \A r : r \in ToSet(C) <=> r \in ToSet(list) /\ ~Hidden(r)
  BY <1>1
<1>3. c \in ConflictsOf(list) <=>
         \E r \in ToSet(C) : r.context /\ Len(D(r)) > 1
            /\ c = [group |-> Group(r), actions |-> D(r), class |-> Classification(r.source, D(r))]
  BY DEF ConflictsOf
<1>4. \A r : D(r) = ListedActions(list, r)
  BY DEF ListedActions
<1> HIDE DEF C, D
<1> QED BY <1>2, <1>3, <1>4

\* Two bindings of one key are in a conflict, or a limit speaks of them.
LEMMA NoneIsDropped ==
    ASSUME inventory \in Seq(ListRows), NEW r \in ToSet(inventory), NEW x \in ToSet(inventory),
           Group(r) = Group(x), r.action # x.action
    PROVE  \/ \E c \in ShownConflicts(r.key, r.mods) : {r.action, x.action} \subseteq ToSet(c.actions)
           \/ (IF Hidden(r) \/ Hidden(x) THEN "keys not reported" ELSE "unknown context") \in ReportedLimits
<1>1. Hidden(x) <=> Hidden(r)
  BY DEF Group, Hidden
<1>2. r.action \in ActionsOf(GroupOf(inventory, r)) /\ x.action \in ActionsOf(GroupOf(inventory, r))
  BY DEF ActionsOf, GroupOf
<1>3. CASE Hidden(r)
  <2>1. "keys not reported" \in ReportedLimits
    BY <1>3 DEF ReportedLimits
  <2> QED BY <1>3, <2>1
<1>4. CASE ~Hidden(r) /\ ~r.context
  <2> DEFINE D == DistinctActions(Members(inventory, r))
  <2>1. D \in Seq(ToSet(ActionNames)) /\ r.action \in ToSet(D) /\ x.action \in ToSet(D)
    BY <1>2, MembersAre
  <2>2. Len(D) > 1
    <3> HIDE DEF D
    <3> QED BY <2>1, TwoAreMore
  <2>3. "unknown context" \in ReportedLimits
    BY <1>4, <2>2 DEF ReportedLimits
  <2> QED BY <1>1, <1>4, <2>3
<1>5. CASE ~Hidden(r) /\ r.context
  <2> DEFINE D == ListedActions(inventory, r)
             c == [group |-> Group(r), actions |-> D, class |-> Classification(r.source, D)]
  <2>1. D \in Seq(ToSet(ActionNames)) /\ r.action \in ToSet(D) /\ x.action \in ToSet(D)
    BY <1>2, <1>5, ListedAre
  <2>2. Len(D) > 1
    <3> HIDE DEF D
    <3> QED BY <2>1, TwoAreMore
  <2>3. c \in ConflictsOf(inventory)
    BY <1>5, <2>2, ConflictIs
  <2>4. c.group[2] = r.key /\ c.group[3] = r.mods /\ c.actions = D
    BY DEF Group
  <2> HIDE DEF c, D
  <2>5. c \in ShownConflicts(r.key, r.mods)
    BY <2>3, <2>4 DEF ShownConflicts
  <2> QED BY <2>1, <2>4, <2>5
<1> QED BY <1>3, <1>4, <1>5

\* The positions of a sequence before its last one.
LEMMA Positions ==
    ASSUME NEW A, NEW d \in Seq(A)
    PROVE  /\ \A i \in 1 .. (Len(d) - 1) : i \in DOMAIN d /\ i + 1 \in DOMAIN d /\ i < i + 1
           /\ \A k, l \in DOMAIN d : l \notin 1 .. (Len(d) - 1) /\ k # l => k < l
<1>1. DOMAIN d = 1 .. Len(d) /\ Len(d) \in Nat
  OBVIOUS
<1>2. \A i \in 1 .. (Len(d) - 1) : i \in DOMAIN d /\ i + 1 \in DOMAIN d /\ i < i + 1
  BY <1>1
<1>3. \A k, l \in DOMAIN d : l \notin 1 .. (Len(d) - 1) /\ k # l => k < l
  BY <1>1
<1> QED BY <1>2, <1>3

\* A list whose last action alone may be a submap bind runs whole.
LEMMA TogetherIs ==
    ASSUME NEW s \in Seq(ListRows), NEW T, T \subseteq ToSet(s), NEW A, NEW D \in Seq(A), ToSet(D) = ActionsOf(T),
           \A k, l \in DOMAIN D : k < l => ComesFirst(s, T, D[k], D[l]),
           NEW F, \A b : b \in F <=> b \in ActionsOf(T) /\ (b = "submap x" \/ ComesFirst(s, T, b, "submap x"))
    PROVE  Classification("hyprland", D) = "fire together" <=> ToSet(D) = F
<1>1. /\ \A i \in 1 .. (Len(D) - 1) : i \in DOMAIN D /\ i + 1 \in DOMAIN D /\ i < i + 1
      /\ \A k, l \in DOMAIN D : l \notin 1 .. (Len(D) - 1) /\ k # l => k < l
  BY Positions
<1>2. Classification("hyprland", D) = "fire together" <=> \A i \in 1 .. (Len(D) - 1) : D[i] # "submap x"
  BY DEF Classification, IsSubmap
<1>3. ASSUME NEW i \in 1 .. (Len(D) - 1), D[i] = "submap x", ToSet(D) = F PROVE FALSE
  <2>1. i \in DOMAIN D /\ i + 1 \in DOMAIN D /\ i < i + 1
    BY <1>1
  <2>2. PICK k, l : k = i /\ l = i + 1
    OBVIOUS
  <2>3. ComesFirst(s, T, "submap x", D[l])
    BY <1>3, <2>1, <2>2
  <2>4. D[l] \in F
    BY <1>3, <2>1, <2>2 DEF ToSet
  <2>5. D[l] = "submap x" \/ ComesFirst(s, T, D[l], "submap x")
    BY <2>4
  <2>6. /\ ~ComesFirst(s, T, "submap x", "submap x")
        /\ ~(ComesFirst(s, T, "submap x", D[l]) /\ ComesFirst(s, T, D[l], "submap x"))
    BY OneComesFirst
  <2> QED BY <2>3, <2>5, <2>6
<1>4. ASSUME \A i \in 1 .. (Len(D) - 1) : D[i] # "submap x", NEW b \in ActionsOf(T), b # "submap x"
      PROVE  ComesFirst(s, T, b, "submap x")
  <2>1. CASE "submap x" \in ActionsOf(T)
    <3>1. PICK k \in DOMAIN D, l \in DOMAIN D : D[k] = b /\ D[l] = "submap x"
      <4>1. b \in ToSet(D) /\ "submap x" \in ToSet(D)
        BY <2>1
      <4> QED BY <4>1, Zenon DEF ToSet
    <3>2. ~(l \in 1 .. (Len(D) - 1)) /\ k # l
      BY <1>4, <3>1
    <3>3. k < l
      BY <1>1, <3>2
    <3> QED BY <3>1, <3>3
  <2>2. CASE "submap x" \notin ActionsOf(T)
    <3>1. PICK y \in T : y.action = b
      BY DEF ActionsOf
    <3>2. y \in ToSet(s) /\ \A z \in ToSet(s) : z \in T => z.action # "submap x"
      BY <2>2, <3>1 DEF ActionsOf
    <3>3. ComesFirst(s, T, y.action, "submap x")
      BY <3>1, <3>2, OneComesFirst
    <3> QED BY <3>1, <3>3
  <2> QED BY <2>1, <2>2
<1>5. ASSUME \A i \in 1 .. (Len(D) - 1) : D[i] # "submap x" PROVE ToSet(D) = F
  <2>1. \A b : b \in F <=> b \in ActionsOf(T)
    BY <1>4, <1>5
  <2> QED BY <2>1
<1> QED BY <1>2, <1>3, <1>5

\* A whole listing has every bind of Hyprland, in Hyprland's order within a group.
LEMMA WholeListIs ==
    ASSUME ListInv, part = "bindings", listPc = "done", Whole
    PROVE  /\ Len(inventory) = Len(hyprland) + Len(manifest)
           /\ ToSet(hyprland) \subseteq ToSet(inventory)
           /\ \A r \in ToSet(hyprland) : r \in ListRows /\ r.source = "hyprland" /\ r.context
           /\ \A r \in ToSet(inventory) : r.source = "hyprland" =>
                 /\ r \in ToSet(hyprland)
                 /\ GroupOf(inventory, r) = BoundTo(r)
                 /\ \A a, b : ComesFirst(inventory, GroupOf(inventory, r), a, b)
                                 <=> ComesFirst(hyprland, GroupOf(inventory, r), a, b)
<1>1. /\ hyprland \in Seq(Records("hyprland")) /\ manifest \in Seq(Records("manifest"))
      /\ inventory = Sorted(hyprland \o manifest)
  BY DEF ListInv
<1>2. hyprland \in Seq(ListRows) /\ manifest \in Seq(ListRows)
  BY <1>1, RecordsAreRows
<1>3. hyprland \o manifest \in Seq(ListRows) /\ Len(hyprland \o manifest) = Len(hyprland) + Len(manifest)
  BY <1>2
<1>4. /\ Len(inventory) = Len(hyprland \o manifest) /\ ToSet(inventory) = ToSet(hyprland \o manifest)
      /\ \A U, a, b : (\A x, y \in U : Group(x) = Group(y)) =>
            (ComesFirst(inventory, U, a, b) <=> ComesFirst(hyprland \o manifest, U, a, b))
  <2>1. PICK w : w = hyprland \o manifest
    OBVIOUS
  <2>2. w \in Seq(ListRows) /\ inventory = Sorted(w)
    BY <1>1, <1>3, <2>1
  <2>3. /\ Len(inventory) = Len(w) /\ ToSet(inventory) = ToSet(w)
        /\ \A U, a, b : (\A x, y \in U : Group(x) = Group(y)) => (ComesFirst(inventory, U, a, b) <=> ComesFirst(w, U, a, b))
    BY <2>2, SortedInOrder
  <2> QED BY <2>1, <2>3
<1>5. ToSet(hyprland \o manifest) = ToSet(hyprland) \cup ToSet(manifest)
  <2>1. PICK U : U = {}
    OBVIOUS
  <2>2. \A y \in ToSet(manifest) : y \notin U
    BY <2>1
  <2> QED BY <1>2, <2>2, FirstOfFollowed
<1>6. /\ \A r \in ToSet(hyprland) : r \in ListRows /\ r.source = "hyprland" /\ r.context
      /\ \A r \in ToSet(manifest) : r \in ListRows /\ r.source = "manifest"
  <2>1. ToSet(hyprland) \subseteq Records("hyprland") /\ ToSet(manifest) \subseteq Records("manifest")
    BY <1>1 DEF ToSet
  <2> QED BY <2>1, RecordsAreRows
<1>7. ASSUME NEW r \in ToSet(inventory), r.source = "hyprland"
      PROVE  /\ r \in ToSet(hyprland)
             /\ GroupOf(inventory, r) = BoundTo(r)
             /\ \A a, b : ComesFirst(inventory, GroupOf(inventory, r), a, b)
                             <=> ComesFirst(hyprland, GroupOf(inventory, r), a, b)
  <2> DEFINE T == GroupOf(inventory, r)
  <2>1. r \in ToSet(hyprland)
    BY <1>4, <1>5, <1>6, <1>7
  <2>2. \A x : Group(x) = Group(r) <=> /\ x.source = r.source /\ x.key = r.key /\ x.mods = r.mods
                                       /\ x.context = r.context /\ x.submap = r.submap
    BY DEF Group
  <2>3. \A x \in ToSet(manifest) : x \notin T
    BY <1>6, <1>7, <2>2 DEF GroupOf
  <2>4. T = {x \in ToSet(hyprland) : Group(x) = Group(r)}
    BY <1>4, <1>5, <2>3 DEF GroupOf
  <2>5. T = BoundTo(r)
    <3>1. \A x \in ToSet(hyprland) : x.source = r.source /\ x.context = r.context
      BY <1>6, <2>1 DEF ListRows
    <3> QED BY <2>2, <2>4, <3>1 DEF BoundTo
  <2>6. \A x, y \in T : Group(x) = Group(y)
    BY DEF GroupOf
  <2> HIDE DEF T
  <2>7. \A a, b : ComesFirst(hyprland \o manifest, T, a, b) <=> ComesFirst(hyprland, T, a, b)
    BY <1>2, <2>3, FirstOfFollowed
  <2>8. \A a, b : ComesFirst(inventory, T, a, b) <=> ComesFirst(hyprland \o manifest, T, a, b)
    BY <1>4, <2>6
  <2> QED BY <2>1, <2>5, <2>7, <2>8 DEF T
<1> QED BY <1>3, <1>4, <1>5, <1>6, <1>7

\* What the inductive invariant says of a finished listing.
LEMMA ListSound == ListInv /\ part = "bindings" => ConflictsAreRight
<1> SUFFICES ASSUME ListInv, part = "bindings", listPc = "done" PROVE ConflictsAreRight
  BY DEF ConflictsAreRight
<1>1. hyprland \in Seq(Records("hyprland")) /\ manifest \in Seq(Records("manifest")) /\ inventory \in Seq(ListRows)
  BY DEF ListInv
<1>2. hyprland \in Seq(ListRows)
  BY <1>1, RecordsAreRows
<1>3. ASSUME NEW c \in ConflictsOf(inventory), c.group[1] = "hyprland", Whole
      PROVE  c.class = "fire together" <=> ToSet(c.actions) = Fired(c.group[2], c.group[3], c.group[5])
  <2>1. PICK r \in ToSet(inventory) :
            /\ ~Hidden(r) /\ r.context
            /\ c = [group |-> Group(r), actions |-> ListedActions(inventory, r),
                    class |-> Classification(r.source, ListedActions(inventory, r))]
    BY <1>1, <1>3, ConflictIs
  <2> DEFINE D == ListedActions(inventory, r)
             T == GroupOf(inventory, r)
             F == Fired(r.key, r.mods, r.submap)
  <2>2. /\ r.source = "hyprland" /\ c.actions = D /\ c.class = Classification("hyprland", D)
        /\ c.group[2] = r.key /\ c.group[3] = r.mods /\ c.group[5] = r.submap
    BY <1>3, <2>1 DEF Group
  <2>3. /\ T = BoundTo(r)
        /\ \A a, b : ComesFirst(inventory, T, a, b) <=> ComesFirst(hyprland, T, a, b)
    BY <1>3, <2>2, WholeListIs
  <2>4. /\ D \in Seq(ToSet(ActionNames)) /\ ToSet(D) = ActionsOf(T)
        /\ \A k, l \in DOMAIN D : k < l => ComesFirst(inventory, T, D[k], D[l])
    BY <1>1, <2>1, ListedAre
  <2> HIDE DEF D, T
  <2>5. \A b : b \in F <=> b \in ActionsOf(T) /\ (b = "submap x" \/ ComesFirst(hyprland, T, b, "submap x"))
    BY <1>2, <2>3, FiredIs
  <2>6. T \subseteq ToSet(hyprland)
    BY <2>3 DEF BoundTo
  <2>7. \A k, l \in DOMAIN D : k < l => ComesFirst(hyprland, T, D[k], D[l])
    BY <2>3, <2>4
  <2> HIDE DEF F
  <2>8. Classification("hyprland", D) = "fire together" <=> ToSet(D) = F
    BY <1>2, <2>4, <2>5, <2>6, <2>7, TogetherIs
  <2> QED BY <2>2, <2>8 DEF F
<1>4. ASSUME Whole, NEW r \in ToSet(hyprland), ~Hidden(r), Cardinality(Fired(r.key, r.mods, r.submap)) > 1
      PROVE  \E c \in ConflictsOf(inventory) : c.group = Group(r)
  <2> DEFINE D == ListedActions(inventory, r)
             T == GroupOf(inventory, r)
             F == Fired(r.key, r.mods, r.submap)
             c == [group |-> Group(r), actions |-> D, class |-> Classification(r.source, D)]
  <2>1. r \in ToSet(inventory) /\ r.context /\ r.source = "hyprland"
    BY <1>4, WholeListIs
  <2>2. T = BoundTo(r)
    BY <1>4, <2>1, WholeListIs
  <2>3. D \in Seq(ToSet(ActionNames)) /\ ToSet(D) = ActionsOf(T)
    BY <1>1, <1>4, <2>1, ListedAre
  <2> HIDE DEF D, T
  <2>4. \A b : b \in F => b \in ActionsOf(T)
    BY <1>2, <2>2, FiredIs
  <2>5. PICK a \in F, b \in F : a # b
    <3> HIDE DEF F
    <3>1. SUFFICES ASSUME \A a, b \in F : a = b PROVE FALSE
      OBVIOUS
    <3>2. Cardinality(F) > 1
      BY <1>4 DEF F
    <3>3. CASE F = {}
      <4>1. Cardinality(F) = 0
        BY <3>3, FS_EmptySet
      <4> QED BY <3>2, <4>1
    <3>4. CASE F # {}
      <4>1. PICK a : F = {a}
        BY <3>1, <3>4
      <4>2. Cardinality(F) = 1
        BY <4>1, FS_Singleton
      <4> QED BY <3>2, <4>2
    <3> QED BY <3>3, <3>4
  <2>6. a \in ToSet(D) /\ b \in ToSet(D)
    BY <2>3, <2>4, <2>5
  <2>7. Len(D) > 1
    BY <2>3, <2>5, <2>6, TwoAreMore
  <2>8. c \in ConflictsOf(inventory)
    BY <1>1, <1>4, <2>1, <2>7, ConflictIs DEF D
  <2> QED BY <2>8
<1>5. ASSUME Whole, NEW r \in ToSet(hyprland)
      PROVE  r \in ToSet(IF Hidden(r) THEN PossibleMatches(r.mods) ELSE Filtered(r.key, r.mods))
  <2>1. r \in ToSet(inventory)
    BY <1>5, WholeListIs
  <2>2. \A T : ToSet(Chosen(inventory, T)) = {y \in ToSet(inventory) : y \in T}
    BY <1>1, ChosenInOrder
  <2>3. CASE Hidden(r)
    <3>1. r \in {y \in ToSet(inventory) : Hidden(y) /\ y.mods = r.mods}
      BY <2>1, <2>3
    <3>2. PossibleMatches(r.mods) = Chosen(inventory, {y \in ToSet(inventory) : Hidden(y) /\ y.mods = r.mods})
      BY DEF PossibleMatches
    <3> QED BY <2>1, <2>2, <2>3, <3>1, <3>2
  <2>4. CASE ~Hidden(r)
    <3>1. r \in {y \in ToSet(inventory) : MatchesKey(y, r.key, r.mods)}
      BY <2>1 DEF MatchesKey
    <3>2. Filtered(r.key, r.mods) = Chosen(inventory, {y \in ToSet(inventory) : MatchesKey(y, r.key, r.mods)})
      BY DEF Filtered
    <3> QED BY <2>1, <2>2, <2>4, <3>1, <3>2
  <2> QED BY <2>3, <2>4
<1>6. \A r, x \in ToSet(inventory) : Group(r) = Group(x) /\ r.action # x.action =>
          \/ \E c \in ShownConflicts(r.key, r.mods) : {r.action, x.action} \subseteq ToSet(c.actions)
          \/ (IF Hidden(r) \/ Hidden(x) THEN "keys not reported" ELSE "unknown context") \in ReportedLimits
  BY <1>1, NoneIsDropped
<1>7. ASSUME Whole PROVE ~(Len(inventory) < Len(hyprland) + Len(manifest))
  <2>1. Len(inventory) = Len(hyprland) + Len(manifest)
    BY <1>7, WholeListIs
  <2>2. Len(inventory) \in Nat
    BY <1>1
  <2> QED BY <2>1, <2>2
<1> QED BY <1>3, <1>4, <1>5, <1>6, <1>7 DEF ConflictsAreRight

\* bindings.rs, conflicts.rs: a conflict says which of its actions run, and no
\* collision of two bindings is left out without a word.
THEOREM BindingsConflictsAreRight == Spec => []Bindings_ConflictsAreRight
<1>1. ListInv => Bindings_ConflictsAreRight
  BY ListSound DEF Bindings_ConflictsAreRight
<1> QED BY <1>1, ListStarts, ListSteps, PTL DEF Spec

-----------------------------------------------------------------------------
(* Applications: the target, its ancestors and its editor. *)
\* The processes run below the window: each is started by one of a lower number here.
Programs == Interactive \cup {"sh", "less", "terminal", "whykey", "gone"}

\* The tree of processes: everything is started by the window or below it.
TreeOk(t) ==
    /\ t \in [1 .. 5 -> [program : Programs, parent : 0 .. 3]]
    /\ t[1].parent = Nobody /\ t[2].parent \in {Nobody, 1} /\ t[3].parent \in {Nobody, 2}
    /\ t[4].parent \in {Nobody, 1} /\ t[5].parent \in {Nobody, 2, 3}

\* The process above one, of nobody's nobody.
Parent(w, p) == IF p = Nobody THEN Nobody ELSE w.tree[p].parent

\* The processes above one are itself, its parent, and the two above that.
LEMMA AboveIs ==
    ASSUME NEW w, TreeOk(w.tree), NEW p \in 1 .. 5
    PROVE  \A q : q \in Above(w, p) <=>
               /\ q # Nobody
               /\ \/ q = p \/ q = Parent(w, p) \/ q = Parent(w, Parent(w, p))
                  \/ q = Parent(w, Parent(w, Parent(w, p)))
<1> DEFINE Up(some) == some \cup {w.tree[q].parent : q \in some \ {Nobody}}
<1>1. Above(w, p) = Up(Up(Up({p}))) \ {Nobody}
  BY DEF Above
<1>2. \A x : Up({x}) = {x, Parent(w, x)} \/ (x = Nobody /\ Up({x}) = {x})
  BY DEF Parent
<1>3. ASSUME NEW s PROVE \A q : q \in Up(s) \ {Nobody} <=> q # Nobody /\ (q \in s \/ \E x \in s : q = Parent(w, x))
  BY DEF Parent
<1>4. \A q, s : q \in Up(s) <=> q \in s \/ \E x \in s \ {Nobody} : q = w.tree[x].parent
  OBVIOUS
<1> HIDE DEF Up
<1>5. \A q : q \in Up(Up(Up({p}))) \ {Nobody} <=>
              q # Nobody /\ (q \in Up(Up({p})) \/ \E x \in Up(Up({p})) : q = Parent(w, x))
  BY <1>3
<1>6. \A q : q # Nobody => (q \in Up(Up({p})) <=> q \in Up({p}) \/ \E x \in Up({p}) : q = Parent(w, x))
  BY <1>3
<1>7. \A q : q # Nobody => (q \in Up({p}) <=> q = p \/ q = Parent(w, p))
  BY <1>3
<1>8. Parent(w, Nobody) = Nobody
  BY DEF Parent
<1>9. \A q : q # Nobody => (q \in Up(Up({p})) <=> q = p \/ q = Parent(w, p) \/ q = Parent(w, Parent(w, p)))
  BY <1>6, <1>7, <1>8
<1> QED BY <1>1, <1>5, <1>8, <1>9

\* Who the parents are.
LEMMA ParentsAre ==
    ASSUME NEW w, TreeOk(w.tree)
    PROVE  /\ Parent(w, 0) = 0 /\ Parent(w, 1) = 0 /\ Parent(w, 2) \in {0, 1} /\ Parent(w, 3) \in {0, 2}
           /\ Parent(w, 4) \in {0, 1} /\ Parent(w, 5) \in {0, 2, 3}
BY DEF Parent, TreeOk, Nobody

\* Above a process are the process and what is above its parent.
LEMMA AboveUp ==
    ASSUME NEW w, TreeOk(w.tree), NEW p \in 1 .. 5
    PROVE  /\ p \in Above(w, p) /\ Above(w, p) \subseteq 1 .. 5
           /\ w.tree[p].parent = Nobody => Above(w, p) = {p}
           /\ w.tree[p].parent # Nobody =>
                  w.tree[p].parent \in 1 .. 5 /\ Above(w, p) = {p} \cup Above(w, w.tree[p].parent)
<1>1. Parent(w, p) = w.tree[p].parent
  BY DEF Parent, Nobody
<1>2. CASE Parent(w, p) = 0
  BY <1>1, <1>2, AboveIs, ParentsAre DEF Nobody
<1>3. CASE Parent(w, p) # 0
  <2>1. Parent(w, p) \in 1 .. 5 /\ Parent(w, Parent(w, Parent(w, Parent(w, p)))) = 0
    BY <1>3, ParentsAre
  <2>2. \A q : q \in Above(w, Parent(w, p)) <=>
            q # 0 /\ (q = Parent(w, p) \/ q = Parent(w, Parent(w, p)) \/ q = Parent(w, Parent(w, Parent(w, p)))
                      \/ q = Parent(w, Parent(w, Parent(w, Parent(w, p)))))
    BY <2>1, AboveIs DEF Nobody
  <2>3. \A q : q \in Above(w, p) <=> q # 0 /\ (q = p \/ q \in Above(w, Parent(w, p)))
    BY <2>1, <2>2, AboveIs DEF Nobody
  <2>4. Above(w, p) \subseteq 1 .. 5
    BY <2>1, AboveIs, ParentsAre DEF Nobody
  <2>5. p # 0
    OBVIOUS
  <2> QED BY <1>1, <1>3, <2>1, <2>2, <2>3, <2>4, <2>5 DEF Nobody
<1> QED BY <1>2, <1>3

\* Some of the processes lose their parent: fewer are above another, on the same way.
LEMMA AboveShrinks ==
    ASSUME NEW v, NEW w, TreeOk(v.tree), TreeOk(w.tree), NEW p \in 1 .. 5, NEW mid \in Above(v, p),
           \A q \in 1 .. 5 : w.tree[q].parent \in {v.tree[q].parent, Nobody}
    PROVE  /\ Above(w, p) \subseteq Above(v, p)
           /\ \A q \in Above(w, p) : q \in Above(v, mid) => q \in Above(w, mid)
<1>1. \A q \in 0 .. 5 : Parent(w, q) = Parent(v, q) \/ Parent(w, q) = 0
  BY DEF Parent, Nobody
<1>2. mid \in 1 .. 5
  BY AboveUp
<1> DEFINE Is(u, q, x) == q # 0 /\ (q = x \/ q = Parent(u, x) \/ q = Parent(u, Parent(u, x))
                                    \/ q = Parent(u, Parent(u, Parent(u, x))))
<1>3. \A q : /\ q \in Above(w, p) <=> Is(w, q, p)
             /\ q \in Above(v, p) <=> Is(v, q, p)
             /\ q \in Above(w, mid) <=> Is(w, q, mid)
             /\ q \in Above(v, mid) <=> Is(v, q, mid)
  BY <1>2, AboveIs DEF Nobody
<1>4. Is(v, mid, p)
  BY <1>3
<1>5. /\ Parent(w, 0) = 0 /\ Parent(w, 1) = 0 /\ Parent(w, 2) \in {0, 1} /\ Parent(w, 3) \in {0, 2}
      /\ Parent(w, 4) \in {0, 1} /\ Parent(w, 5) \in {0, 2, 3}
      /\ Parent(v, 0) = 0 /\ Parent(v, 1) = 0 /\ Parent(v, 2) \in {0, 1} /\ Parent(v, 3) \in {0, 2}
      /\ Parent(v, 4) \in {0, 1} /\ Parent(v, 5) \in {0, 2, 3}
  BY ParentsAre
<1> DEFINE P(x) == Parent(v, x)
           Q(x) == Parent(w, x)
<1>6. \A q : Is(w, q, p) => Is(v, q, p) /\ (Is(v, q, mid) => Is(w, q, mid))
  BY <1>1, <1>2, <1>4, <1>5
<1> QED BY <1>3, <1>6

\* No editor is above a process.
Clean(w, p) == \A q \in Above(w, p) : w.tree[q].program \notin Interactive

\* The terminal of the window: a shell on one pty, whose foreground may be its job's, and
\* maybe a shell on another.
TtyOk(t) == t \in [of : {<<"none", "a", "a", "b", "a">>}, group : [a : {2, Job}, b : {4}]]

\* The shells that whykey finds under the window are all there are.
AloneIn(c) == \A q \in {2, 4} \ {c} : ~Alive(q)
\* Who has the foreground of a shell's pty.
Leader(w, c) == w.tty.group[w.tty.of[c]]
\* The target that it leads to.
Follow(g, c) == IF Alive(g) THEN g ELSE c

\* A shell that is taken for the target was in the foreground.
Just(t) == tree[t].program = "sh" => \E w \in worlds : w.tree[t].program = "sh" /\ InForeground(w, t)

\* What was read of the foreground of a shell's pty holds until something changes, and then
\* leads to a target that had it before or has it now.
Told(c, g) ==
    /\ turns = 0 => g = Leader(World, c)
    /\ turns = 1 /\ AloneIn(c) => Just(Follow(g, c))

\* The world, and how its shells and its foreground are at first.
WorldInv ==
    /\ TreeOk(tree) /\ TtyOk(tty) /\ World \in worlds /\ turns \in {0, 1}
    /\ editors \in [named : {"argument", "NVIM_LISTEN_ADDRESS", "NVIM", "none"},
                    own : EditorAnswers, outer : EditorAnswers]
    /\ tree[Window].program # "sh"
    /\ Alive(Window) => \A q \in {2, 4} : Alive(q) => tree[q].parent = Window
    /\ turns = 0 => tty.group["a"] = IF Alive(Job) THEN Job ELSE 2

\* The target that was chosen, or will be, had the foreground of the window.
TargetInv ==
    /\ target \in 1 .. 5 /\ selected \in {"focus", "pid", "own"}
    /\ appPc \in {"window", "children"} => selected = "focus" /\ target = Window
    /\ appPc = "children" =>
           /\ \A c \in children :
                  /\ c.pid \in {2, 4} /\ c = Child(c.pid, c.pty, c.group)
                  /\ c.pty # "unread" =>
                         c.pty = tty.of[c.pid] /\ c.group \in (IF c.pid = 2 THEN {2, Job} ELSE {4}) /\ Told(c.pid, c.group)
           /\ \A c, d \in children : c.pid = d.pid => c = d
           /\ \A q \in {2, 4} : Alive(q) => \E c \in children : c.pid = q
    /\ selected = "focus" /\ appPc \notin {"window", "children"} =>
           /\ turns = 0 => target = Window \/ \E c \in {2, 4} : AloneIn(c) /\ target = Follow(Leader(World, c), c)
           /\ turns = 1 => Just(target)

\* Below the ancestor that is read next no editor was seen; nor was one above it, once the
\* search has ended without one.
WalkInv ==
    /\ appPc = "walk" =>
           /\ walk \in 1 .. 5
           /\ turns = 0 =>
                  /\ walk \in Above(World, target)
                  /\ \A q \in Above(World, target) \ Above(World, walk) : tree[q].program \notin Interactive
           /\ turns = 1 => \E w \in worlds : Clean(World, walk) => Clean(w, target)
    /\ found = "none" /\ (appPc = "again" \/ layerSays \in {"no editor", "unadapted"}) =>
           \E w \in worlds : Clean(w, target)

\* What was answered was so at some moment.
AnswerInv ==
    /\ \A i \in DOMAIN configRows : configRows[i] \in ConfigRow
    /\ layerSays = "runtime" /\ Server = "own" =>
           \E w \in worlds : w.tree[Job].program = found /\ Head(modes) \in w.editors.own.maps
    /\ layerSays = "config" => \E i \in DOMAIN configRows : Matches(found, i, configRows)
    /\ endpoint = "shell" /\ selected = "focus" =>
           \E w \in worlds : w.tree[target].program = "sh" /\ InForeground(w, target)
    /\ appPc \notin {"endpoint", "done"} => layerSays = "none"
    /\ appPc # "done" => endpoint = "none"
    /\ appPc \in {"window", "children", "shell", "walk"} => found = "none"
    /\ appPc = "again" \/ layerSays \in {"no editor", "unadapted"} => found \in {"none", "broken"}
    /\ appPc \in {"mode", "maps", "config"} => found \in Interactive

\* The invariant of the inspection of the target.
AppIInv == WorldInv /\ TargetInv /\ WalkInv /\ AnswerInv

\* What else happens meanwhile.
Meanwhile == ProcessExits \/ JobStarts \/ ProcessExecs \/ ForegroundMoves \/ EditorTurns

\* What one change may be: a process ends, one starts, one becomes another, the foreground
\* moves, or an editor answers differently.
Ended(p) == /\ Alive(p) /\ tree' = Orphaned(p)
            /\ tty' = tty \/ (p = Job /\ tty' = [tty EXCEPT !.group["a"] = 2])
Started == /\ ~Alive(Job) /\ \E x \in NewPrograms : tree' = [tree EXCEPT ![Job] = Running(x, 2)]
           /\ tty' = [tty EXCEPT !.group["a"] = Job]
Became(p) == Alive(p) /\ tty' = tty /\ \E x \in NewPrograms : tree' = [tree EXCEPT ![p].program = x]
Moved == Alive(Job) /\ tree' = tree /\ tty' = [tty EXCEPT !.group["a"] = IF @ = 2 THEN Job ELSE 2]

\* A change is one of these.
LEMMA TurnIs ==
    ASSUME WorldInv, turns' <= 1, Meanwhile
    PROVE  /\ turns = 0 /\ turns' = 1 /\ worlds' = worlds \cup {World'}
           /\ configRows' = configRows /\ selected' = selected /\ appPc' = appPc /\ target' = target
           /\ children' = children /\ walk' = walk /\ found' = found /\ modes' = modes
           /\ layerSays' = layerSays /\ endpoint' = endpoint
           /\ \/ editors' = editors
              \/ /\ tree' = tree /\ tty' = tty
                 /\ \E now \in EditorAnswers : editors' = [editors EXCEPT !.own = now]
           /\ \/ \E p \in {Window, 2, Job, 4} : Ended(p)
              \/ Started \/ Moved
              \/ tree' = tree /\ tty' = tty
              \/ \E p \in {2, Job} : Became(p)
<1>1. Turn
  BY DEF Meanwhile, ProcessExits, JobStarts, ProcessExecs, ForegroundMoves, EditorTurns
<1>2. turns = 0 /\ turns' = 1
  BY <1>1 DEF Turn, WorldInv
<1>3. CASE ProcessExits
  BY <1>1, <1>2, <1>3 DEF Turn, Remember, ProcessExits, Ended
<1>4. CASE JobStarts
  BY <1>1, <1>2, <1>4 DEF Turn, Remember, JobStarts, Started
<1>5. CASE ProcessExecs
  BY <1>1, <1>2, <1>5 DEF Turn, Remember, ProcessExecs, Became
<1>6. CASE ForegroundMoves
  <2>1. Moved /\ editors' = editors
    BY <1>6, Zenon DEF ForegroundMoves, Moved
  <2> QED BY <1>1, <1>2, <2>1 DEF Turn, Remember
<1>7. CASE EditorTurns
  BY <1>1, <1>2, <1>7 DEF Turn, Remember, EditorTurns
<1> QED BY <1>3, <1>4, <1>5, <1>6, <1>7 DEF Meanwhile

\* The records of the processes after a change.
LEMMA TreesAre ==
    ASSUME WorldInv
    PROVE  /\ \A p \in {Window, 2, Job, 4} : Ended(p) =>
                  \A q \in 1 .. 5 : IF q = p THEN tree'[q] = Gone
                                    ELSE /\ tree'[q].program = tree[q].program
                                         /\ tree'[q].parent = IF tree[q].parent = p THEN Nobody ELSE tree[q].parent
                                         /\ tree[q].parent # p => tree'[q] = tree[q]
           /\ Started => /\ tree[Job] = Gone /\ tree'[Job].program \in NewPrograms /\ tree'[Job].parent = 2
                         /\ \A q \in 1 .. 5 \ {Job} : tree'[q] = tree[q]
           /\ \A p \in {2, Job} : Became(p) =>
                  /\ tree[p] # Gone /\ tree'[p].program \in NewPrograms /\ tree'[p].parent = tree[p].parent
                  /\ \A q \in 1 .. 5 \ {p} : tree'[q] = tree[q]
           /\ (\E p \in {Window, 2, Job, 4} : Ended(p)) \/ Started \/ (\E p \in {2, Job} : Became(p)) \/ tree' = tree =>
                  TreeOk(tree')
<1>1. /\ tree \in [1 .. 5 -> [program : Programs, parent : 0 .. 3]] /\ DOMAIN tree = 1 .. 5 /\ TreeOk(tree)
      /\ tree[1].parent = Nobody /\ tree[2].parent \in {Nobody, 1} /\ tree[3].parent \in {Nobody, 2}
      /\ tree[4].parent \in {Nobody, 1} /\ tree[5].parent \in {Nobody, 2, 3}
  BY DEF WorldInv, TreeOk
<1>2. NewPrograms \subseteq Programs /\ "gone" \in Programs
  BY DEF NewPrograms, Programs, Interactive, Configured, AskedAtRuntime, VimLike
<1>3. ASSUME NEW p \in {Window, 2, Job, 4}, Ended(p)
      PROVE  /\ \A q \in 1 .. 5 : IF q = p THEN tree'[q] = Gone
                                  ELSE /\ tree'[q].program = tree[q].program
                                       /\ tree'[q].parent = IF tree[q].parent = p THEN Nobody ELSE tree[q].parent
                                       /\ tree[q].parent # p => tree'[q] = tree[q]
             /\ TreeOk(tree')
  <2>1. tree' = [q \in 1 .. 5 |-> IF q = p THEN Gone
                   ELSE IF tree[q].parent = p THEN [tree[q] EXCEPT !.parent = Nobody] ELSE tree[q]]
    BY <1>1, <1>3 DEF Ended, Orphaned
  <2>2. \A q \in 1 .. 5 : tree[q] \in [program : Programs, parent : 0 .. 3]
    BY <1>1
  <2>3. \A q \in 1 .. 5 : tree'[q] = IF q = p THEN Gone
                   ELSE IF tree[q].parent = p THEN [tree[q] EXCEPT !.parent = Nobody] ELSE tree[q]
    BY <2>1
  <2>4. \A q \in 1 .. 5 : [tree[q] EXCEPT !.parent = Nobody] = [program |-> tree[q].program, parent |-> Nobody]
    BY <2>2
  <2>5. \A q \in 1 .. 5 : IF q = p THEN tree'[q] = Gone
                                  ELSE /\ tree'[q].program = tree[q].program
                                       /\ tree'[q].parent = IF tree[q].parent = p THEN Nobody ELSE tree[q].parent
                                       /\ tree[q].parent # p => tree'[q] = tree[q]
    BY <2>3, <2>4
  <2>6. \A q \in 1 .. 5 : tree'[q] \in [program : Programs, parent : 0 .. 3]
    BY <1>2, <2>2, <2>3, <2>4 DEF Gone, Nobody
  <2>7. \A q \in 1 .. 5 : tree'[q].parent \in {tree[q].parent, Nobody}
    BY <2>5 DEF Gone
  <2>8. tree' \in [1 .. 5 -> [program : Programs, parent : 0 .. 3]]
    BY <2>1, <2>6
  <2>9. TreeOk(tree')
    BY <1>1, <2>7, <2>8 DEF TreeOk
  <2> QED BY <2>5, <2>9
<1>4. ASSUME Started
      PROVE  /\ tree[Job] = Gone /\ tree'[Job].program \in NewPrograms /\ tree'[Job].parent = 2
             /\ \A q \in 1 .. 5 \ {Job} : tree'[q] = tree[q]
             /\ TreeOk(tree')
  <2>1. PICK x \in NewPrograms : tree' = [tree EXCEPT ![Job] = Running(x, 2)]
    BY <1>4 DEF Started
  <2>2. tree'[Job] = [program |-> x, parent |-> 2] /\ \A q \in 1 .. 5 \ {Job} : tree'[q] = tree[q]
    BY <1>1, <2>1 DEF Running, Job
  <2>3. tree[Job] = Gone
    BY <1>1, <1>4 DEF Started, Alive, Job
  <2>4. tree' \in [1 .. 5 -> [program : Programs, parent : 0 .. 3]]
    BY <1>1, <1>2, <2>1 DEF Running, Job
  <2>5. TreeOk(tree')
    BY <1>1, <2>2, <2>4 DEF TreeOk, Job
  <2> QED BY <2>2, <2>3, <2>5
<1>5. ASSUME NEW p \in {2, Job}, Became(p)
      PROVE  /\ tree[p] # Gone /\ tree'[p].program \in NewPrograms /\ tree'[p].parent = tree[p].parent
             /\ \A q \in 1 .. 5 \ {p} : tree'[q] = tree[q]
             /\ TreeOk(tree')
  <2>1. PICK x \in NewPrograms : tree' = [tree EXCEPT ![p].program = x]
    BY <1>5 DEF Became
  <2>2. p \in 1 .. 5 /\ tree[p] \in [program : Programs, parent : 0 .. 3]
    BY <1>1 DEF Job
  <2>3. tree'[p] = [tree[p] EXCEPT !.program = x] /\ \A q \in 1 .. 5 \ {p} : tree'[q] = tree[q]
    BY <1>1, <2>1, <2>2
  <2>4. tree'[p] = [program |-> x, parent |-> tree[p].parent]
    BY <2>2, <2>3
  <2>5. tree' \in [1 .. 5 -> [program : Programs, parent : 0 .. 3]]
    BY <1>1, <1>2, <2>1, <2>2
  <2>6. \A q \in 1 .. 5 : tree'[q].parent = tree[q].parent
    BY <2>3, <2>4
  <2>7. TreeOk(tree')
    BY <1>1, <2>5, <2>6 DEF TreeOk
  <2>8. tree[p] # Gone
    BY <1>5 DEF Became, Alive
  <2> QED BY <2>3, <2>4, <2>7, <2>8
<1>6. tree' = tree => TreeOk(tree')
  BY <1>1
<1> QED BY <1>3, <1>4, <1>5, <1>6

\* The ptys of the shells.
LEMMA TtyIs ==
    ASSUME NEW t, TtyOk(t)
    PROVE  /\ t.of[2] = "a" /\ t.of[Job] = "a" /\ t.of[4] = "b" /\ t.group["b"] = 4 /\ t.group["a"] \in {2, Job}
           /\ \A g \in {2, Job} : /\ TtyOk([t EXCEPT !.group["a"] = g])
                                  /\ [t EXCEPT !.group["a"] = g].group["a"] = g
                                  /\ [t EXCEPT !.group["a"] = g].of = t.of
<1>1. t.of = <<"none", "a", "a", "b", "a">> /\ t.group \in [a : {2, Job}, b : {4}]
  BY DEF TtyOk
<1>2. t.of[2] = "a" /\ t.of[Job] = "a" /\ t.of[4] = "b"
  BY <1>1 DEF Job
<1>3. t.group["b"] = 4 /\ t.group["a"] \in {2, Job}
  BY <1>1
<1>4. ASSUME NEW g \in {2, Job}
      PROVE  /\ TtyOk([t EXCEPT !.group["a"] = g])
             /\ [t EXCEPT !.group["a"] = g].group["a"] = g
             /\ [t EXCEPT !.group["a"] = g].of = t.of
  <2>1. PICK u : u = [t.group EXCEPT !["a"] = g]
    OBVIOUS
  <2>2. u \in [a : {2, Job}, b : {4}] /\ u["a"] = g
    BY <1>1, <2>1
  <2>3. [t EXCEPT !.group["a"] = g] = [t EXCEPT !.group = u]
    BY <2>1
  <2>4. [t EXCEPT !.group = u] = [of |-> t.of, group |-> u]
    BY DEF TtyOk
  <2> QED BY <1>1, <2>2, <2>3, <2>4 DEF TtyOk
<1> QED BY <1>2, <1>3, <1>4

\* The foreground after a change.
LEMMA TtysAre ==
    ASSUME WorldInv
    PROVE  /\ \A p \in {Window, 2, Job, 4} : Ended(p) =>
                  TtyOk(tty') /\ (tty'.group["a"] = tty.group["a"] \/ (p = Job /\ tty'.group["a"] = 2))
           /\ Started => TtyOk(tty') /\ tty'.group["a"] = Job
           /\ Moved => TtyOk(tty') /\ tty'.group["a"] = (IF tty.group["a"] = 2 THEN Job ELSE 2)
           /\ tty' = tty => TtyOk(tty')
<1>1. TtyOk(tty) /\ tty.group["a"] \in {2, Job}
  BY TtyIs DEF WorldInv
<1>2. \A p \in {Window, 2, Job, 4} : Ended(p) =>
          TtyOk(tty') /\ (tty'.group["a"] = tty.group["a"] \/ (p = Job /\ tty'.group["a"] = 2))
  <2> SUFFICES ASSUME NEW p \in {Window, 2, Job, 4}, Ended(p)
               PROVE  TtyOk(tty') /\ (tty'.group["a"] = tty.group["a"] \/ (p = Job /\ tty'.group["a"] = 2))
    OBVIOUS
  <2>1. tty' = tty \/ (p = Job /\ tty' = [tty EXCEPT !.group["a"] = 2])
    BY Zenon DEF Ended
  <2>2. CASE tty' = tty
    BY <1>1, <2>2
  <2>3. CASE p = Job /\ tty' = [tty EXCEPT !.group["a"] = 2]
    BY <1>1, <2>3, TtyIs
  <2> QED BY <2>1, <2>2, <2>3
<1>3. Started => TtyOk(tty') /\ tty'.group["a"] = Job
  <2> SUFFICES ASSUME Started PROVE TtyOk(tty') /\ tty'.group["a"] = Job
    OBVIOUS
  <2>1. tty' = [tty EXCEPT !.group["a"] = Job]
    BY Zenon DEF Started
  <2> QED BY <1>1, <2>1, TtyIs
<1>4. Moved => TtyOk(tty') /\ tty'.group["a"] = (IF tty.group["a"] = 2 THEN Job ELSE 2)
  <2> SUFFICES ASSUME Moved PROVE TtyOk(tty') /\ tty'.group["a"] = (IF tty.group["a"] = 2 THEN Job ELSE 2)
    OBVIOUS
  <2>1. PICK g \in {2, Job} : g = IF tty.group["a"] = 2 THEN Job ELSE 2
    OBVIOUS
  <2>2. tty' = [tty EXCEPT !.group["a"] = g]
    BY <2>1, Zenon DEF Moved
  <2> QED BY <1>1, <2>1, <2>2, TtyIs
<1> QED BY <1>1, <1>2, <1>3, <1>4

\* What a change leaves of the world.
LEMMA TurnKeepsWorld ==
    ASSUME WorldInv, turns' <= 1, Meanwhile
    PROVE  WorldInv' /\ World' = [tree |-> tree', tty |-> tty', editors |-> editors'] /\ editors'.named = editors.named
<1>1. turns = 0 /\ turns' = 1 /\ World' \in worlds'
  BY TurnIs
<1>2. TreeOk(tree')
  BY TurnIs, TreesAre DEF Moved
<1>3. TtyOk(tty')
  BY TurnIs, TtysAre DEF Became
<1>4. editors' \in [named : {"argument", "NVIM_LISTEN_ADDRESS", "NVIM", "none"}, own : EditorAnswers, outer : EditorAnswers] /\ editors'.named = editors.named
  BY TurnIs DEF WorldInv
<1>5. 1 \in 1 .. 5 /\ 2 \in 1 .. 5 /\ 4 \in 1 .. 5 /\ DOMAIN tree = 1 .. 5 /\ DOMAIN tree' = 1 .. 5
  BY <1>2 DEF TreeOk, WorldInv
<1>6. "sh" \notin {Gone.program} /\ tree[Window].program # "sh" /\ tree[Window].parent = Nobody
  BY DEF Gone, WorldInv, TreeOk, Window
<1>7. tree'[Window].program # "sh"
  BY <1>5, <1>6, TurnIs, TreesAre DEF Window, Job, Moved
<1>8. ASSUME Alive(Window)', NEW q \in {2, 4}, Alive(q)'
      PROVE  tree'[q].parent = 1
  <2>1. tree'[Window] # Gone /\ tree'[q] # Gone
    BY <1>5, <1>8 DEF Alive, Window
  <2>2. tree[Window] # Gone /\ tree[q] # Gone => tree[q].parent = 1
    BY <1>5 DEF WorldInv, Alive, Window
  <2>3. ASSUME NEW p \in {Window, 2, Job, 4}, Ended(p) PROVE tree'[q].parent = 1
    <3>1. p # Window /\ p # q
      BY <1>5, <2>1, <2>3, TreesAre DEF Window
    <3>2. tree[Window] # Gone /\ tree[q] # Gone
      BY <1>5, <2>1, <2>3, <3>1, TreesAre DEF Window, Gone, WorldInv, TreeOk
    <3> QED BY <1>5, <2>2, <2>3, <3>1, <3>2, TreesAre DEF Window
  <2>4. CASE Started
    BY <1>5, <2>1, <2>2, <2>4, TreesAre DEF Window, Job
  <2>5. CASE tree' = tree
    BY <2>1, <2>2, <2>5
  <2>6. ASSUME NEW p \in {2, Job}, Became(p) PROVE tree'[q].parent = 1
    BY <1>5, <2>1, <2>2, <2>6, TreesAre DEF Window, Job
  <2>7. Moved => tree' = tree
    BY Zenon DEF Moved
  <2>8. \/ \E p \in {Window, 2, Job, 4} : Ended(p)
        \/ Started \/ tree' = tree
        \/ \E p \in {2, Job} : Became(p)
    BY <2>7, TurnIs
  <2> QED BY <2>3, <2>4, <2>5, <2>6, <2>8
<1>9. Alive(Window)' => \A q \in {2, 4} : Alive(q)' => tree'[q].parent = Window
  BY <1>8 DEF Window
<1> QED BY <1>1, <1>2, <1>3, <1>4, <1>7, <1>9 DEF WorldInv, World

\* The only shell's foreground is the window's.
LEMMA InFront ==
    ASSUME NEW w, TtyOk(w.tty), NEW c \in {2, 4}, \A q \in {2, 4} \ {c} : w.tree[q] = Gone,
           NEW t \in {c, Leader(w, c)}, t = Leader(w, c) \/ w.tree[Leader(w, c)] = Gone
    PROVE  InForeground(w, t)
<1>1. /\ w.tty.of[2] = "a" /\ w.tty.of[Job] = "a" /\ w.tty.of[4] = "b"
      /\ w.tty.group["b"] = 4 /\ w.tty.group["a"] \in {2, Job}
  BY TtyIs
<1>2. w.tty.of[t] = w.tty.of[c] /\ w.tty.group[w.tty.of[t]] = Leader(w, c)
  BY <1>1 DEF Leader
<1>3. \A other \in {2, 4} : w.tree[other] # Gone => w.tty.of[other] = w.tty.of[t]
  BY <1>2
<1> QED BY <1>2, <1>3 DEF InForeground

\* The leaders of the foreground.
LEMMA LeaderIs ==
    ASSUME NEW w, TtyOk(w.tty)
    PROVE  Leader(w, 2) = w.tty.group["a"] /\ Leader(w, 4) = 4 /\ w.tty.group["a"] \in {2, Job}
BY TtyIs DEF Leader

\* A target that is followed while nothing changes had the foreground.
LEMMA HereIsJust ==
    ASSUME WorldInv, NEW c \in {2, 4}, AloneIn(c)
    PROVE  Just(Follow(Leader(World, c), c))
<1>1. PICK t : t = Follow(Leader(World, c), c)
  OBVIOUS
<1>2. World.tree = tree /\ World.tty = tty /\ TtyOk(tty) /\ World \in worlds /\ DOMAIN tree = 1 .. 5
  BY DEF World, WorldInv, TreeOk
<1>3. Leader(World, c) \in 1 .. 5
  BY <1>2, LeaderIs DEF Job
<1>4. \A q \in {2, 4} \ {c} : tree[q] = Gone
  BY <1>2 DEF AloneIn, Alive
<1>5. t \in {c, Leader(World, c)} /\ (t = Leader(World, c) \/ tree[Leader(World, c)] = Gone)
  BY <1>1, <1>2, <1>3 DEF Follow, Alive
<1>6. InForeground(World, t)
  BY <1>2, <1>4, <1>5, InFront
<1> QED BY <1>1, <1>2, <1>6 DEF Just

\* One change after the foreground was read: the target that it leads to had it before, or
\* has it now.
LEMMA TurnIsJust ==
    ASSUME WorldInv, turns' <= 1, Meanwhile, NEW c \in {2, 4}, NEW g, g = Leader(World, c),
           \A q \in {2, 4} \ {c} : tree'[q] = Gone
    PROVE  /\ \A t : t = (IF tree'[g] # Gone THEN g ELSE c) => Just(t)'
           /\ \A t : t = (IF tree[g] # Gone THEN g ELSE c) => Just(t)'
<1>1. WorldInv' /\ World' = [tree |-> tree', tty |-> tty', editors |-> editors'] /\ worlds' = worlds \cup {World'}
      /\ turns = 0
  BY TurnKeepsWorld, TurnIs
<1>2. /\ World.tree = tree /\ World.tty = tty /\ TtyOk(tty) /\ World \in worlds'
      /\ World'.tree = tree' /\ World'.tty = tty' /\ TtyOk(tty') /\ World' \in worlds'
  BY <1>1 DEF World, WorldInv
<1>3. tty.group["a"] = IF tree[Job] # Gone THEN Job ELSE 2
  BY <1>1 DEF WorldInv, Alive, Job, TreeOk
<1>4. /\ Leader(World, 2) = (IF tree[Job] # Gone THEN Job ELSE 2) /\ Leader(World, 4) = 4
      /\ Leader(World', 2) = tty'.group["a"] /\ Leader(World', 4) = 4 /\ tty'.group["a"] \in {2, Job}
  BY <1>2, <1>3, LeaderIs
<1>5. ASSUME NEW t \in {c, g}, tree'[t].program = "sh",
             \/ t = Leader(World', c) \/ (tree'[Leader(World', c)] = Gone /\ t = c)
             \/ /\ tree[t] = tree'[t] /\ \A q \in {2, 4} \ {c} : tree[q] = Gone
                /\ t = g \/ tree[g] = Gone
      PROVE  \E w \in worlds' : w.tree[t].program = "sh" /\ InForeground(w, t)
  <2>1. CASE t = Leader(World', c) \/ (tree'[Leader(World', c)] = Gone /\ t = c)
    <3>1. t \in {c, Leader(World', c)}
      BY <2>1
    <3>2. InForeground(World', t)
      BY <1>2, <2>1, <3>1, InFront
    <3> QED BY <1>2, <1>5, <3>2
  <2>2. CASE /\ tree[t] = tree'[t] /\ \A q \in {2, 4} \ {c} : tree[q] = Gone
             /\ t = g \/ tree[g] = Gone
    <3>1. InForeground(World, t)
      BY <1>2, <2>2, InFront
    <3> QED BY <1>2, <1>5, <2>2, <3>1
  <2> QED BY <1>5, <2>1, <2>2
<1>6. 2 \in 1 .. 5 /\ 4 \in 1 .. 5 /\ Job \in 1 .. 5 /\ Job \notin {2, 4} /\ Window \notin {2, 4, Job} /\ "sh" # Gone.program
  BY DEF Job, Window, Gone
<1>7. ASSUME NEW t, t = (IF tree'[g] # Gone THEN g ELSE c), tree'[t].program = "sh"
      PROVE  \E w \in worlds' : w.tree[t].program = "sh" /\ InForeground(w, t)
  <2>1. CASE c = 4
    BY <1>4, <1>5, <1>7, <2>1
  <2> SUFFICES ASSUME c = 2, g = IF tree[Job] # Gone THEN Job ELSE 2
               PROVE  \E w \in worlds' : w.tree[t].program = "sh" /\ InForeground(w, t)
    BY <1>4, <2>1
  <2>2. ASSUME NEW p \in {Window, 2, Job, 4}, Ended(p)
        PROVE  \E w \in worlds' : w.tree[t].program = "sh" /\ InForeground(w, t)
    <3>1. tty'.group["a"] = tty.group["a"] \/ (p = Job /\ tty'.group["a"] = 2)
      BY <2>2, TtysAre
    <3>2. tree'[p] = Gone
      BY <1>6, <2>2, TreesAre DEF Window
    <3>3. CASE p = Job
      BY <1>3, <1>4, <1>5, <1>6, <1>7, <3>1, <3>2, <3>3
    <3>4. CASE p # Job
      <4>1. g = Leader(World', c)
        BY <1>3, <1>4, <3>1, <3>4
      <4>2. t \in {c, g} /\ (t = Leader(World', c) \/ (tree'[Leader(World', c)] = Gone /\ t = c))
        BY <1>7, <4>1
      <4> QED BY <1>5, <1>7, <4>2
    <3> QED BY <3>3, <3>4
  <2>3. CASE Started
    <3>1. tree[Job] = Gone /\ tree'[2] = tree[2] /\ tree'[4] = tree[4]
      BY <1>6, <2>3, TreesAre
    <3> QED BY <1>5, <1>7, <3>1
  <2>4. CASE Moved
    <3>1. tree' = tree
      BY <2>4, Zenon DEF Moved
    <3> QED BY <1>5, <1>7, <3>1
  <2>5. CASE tty' = tty
    <3>1. g = Leader(World', c)
      BY <1>3, <1>4, <2>5
    <3>2. t \in {c, g} /\ (t = Leader(World', c) \/ (tree'[Leader(World', c)] = Gone /\ t = c))
      BY <1>7, <3>1
    <3> QED BY <1>5, <1>7, <3>2
  <2>6. ASSUME NEW p \in {2, Job}, Became(p) PROVE tty' = tty
    BY <2>6 DEF Became
  <2> QED BY <2>2, <2>3, <2>4, <2>5, <2>6, TurnIs
<1>8. ASSUME NEW t, t = (IF tree[g] # Gone THEN g ELSE c), tree'[t].program = "sh"
      PROVE  t = IF tree'[g] # Gone THEN g ELSE c
  <2>1. CASE tree[g] # Gone
    BY <1>6, <1>8, <2>1
  <2>2. CASE tree[g] = Gone
    <3>1. g = c
      BY <1>4, <2>2
    <3> QED BY <1>8, <3>1
  <2> QED BY <2>1, <2>2
<1> QED BY <1>7, <1>8 DEF Just

\* A shell that is gone does not come back.
LEMMA StayGone ==
    ASSUME WorldInv, turns' <= 1, Meanwhile, NEW q \in {2, 4}, tree[q] = Gone
    PROVE  tree'[q] = Gone
<1>1. q \in 1 .. 5 /\ q # Job /\ TreeOk(tree)
  BY DEF Job, WorldInv
<1>2. ASSUME NEW p \in {Window, 2, Job, 4}, Ended(p) PROVE tree'[q] = Gone
  <2>1. tree[q].parent # p
    BY DEF Gone, Nobody, Window, Job
  <2> QED BY <1>1, <1>2, <2>1, TreesAre
<1>3. CASE Started
  BY <1>1, <1>3, TreesAre
<1>4. ASSUME Moved PROVE tree' = tree
  BY <1>4, Zenon DEF Moved
<1>5. ASSUME NEW p \in {2, Job}, Became(p) PROVE tree'[q] = Gone
  BY <1>1, <1>5, TreesAre
<1> QED BY <1>2, <1>3, <1>4, <1>5, TurnIs

\* What was read of the shells leads to a target that had the foreground.
LEMMA TurnKeepsTarget ==
    ASSUME AppIInv, turns' <= 1, Meanwhile
    PROVE  TargetInv'
<1>1. /\ WorldInv /\ WorldInv' /\ TargetInv /\ turns = 0 /\ turns' = 1
      /\ selected' = selected /\ appPc' = appPc /\ target' = target /\ children' = children
  BY TurnKeepsWorld, TurnIs DEF AppIInv
<1>2. \A q \in 1 .. 5 : (Alive(q) <=> tree[q] # Gone) /\ (Alive(q)' <=> tree'[q] # Gone)
  BY <1>1 DEF Alive, WorldInv, TreeOk
<1>3. {2, 4, Job} \subseteq 1 .. 5
  BY DEF Job
<1>4. \A q \in {2, 4} : ~Alive(q) => ~Alive(q)'
  BY <1>1, <1>2, <1>3, StayGone
<1>5. \A c \in {2, 4} : Leader(World, c) \in {2, 4, Job} /\ (AloneIn(c) => AloneIn(c)')
  BY <1>1, <1>4, LeaderIs DEF AloneIn, World, WorldInv
<1>6. ASSUME NEW c \in {2, 4}, NEW g, g = Leader(World, c), AloneIn(c)'
      PROVE  Just(Follow(g, c))' /\ \A t : t = Follow(g, c) => Just(t)'
  <2>1. \A q \in {2, 4} \ {c} : tree'[q] = Gone
    BY <1>2, <1>3, <1>6 DEF AloneIn
  <2>2. g \in 1 .. 5
    BY <1>3, <1>5, <1>6
  <2>3. PICK u : u = IF tree'[g] # Gone THEN g ELSE c
    OBVIOUS
  <2>4. Follow(g, c)' = u
    BY <1>2, <2>2, <2>3 DEF Follow
  <2>5. Just(u)'
    BY <1>1, <1>6, <2>1, <2>3, TurnIsJust
  <2>6. \A t : t = Follow(g, c) => t = IF tree[g] # Gone THEN g ELSE c
    BY <1>2, <2>2 DEF Follow
  <2>7. \A t : t = Follow(g, c) => Just(t)'
    BY <1>1, <1>6, <2>1, <2>6, TurnIsJust
  <2> QED BY <2>4, <2>5, <2>7 DEF Just
<1>7. ASSUME NEW c \in {2, 4}, NEW g, Told(c, g) PROVE Told(c, g)'
  BY <1>1, <1>6, <1>7 DEF Told
<1>8. ASSUME appPc = "children"
      PROVE  /\ \A c \in children :
                  /\ c.pid \in {2, 4} /\ c = Child(c.pid, c.pty, c.group)
                  /\ c.pty # "unread" =>
                         c.pty = tty'.of[c.pid] /\ c.group \in (IF c.pid = 2 THEN {2, Job} ELSE {4}) /\ Told(c.pid, c.group)'
             /\ \A c, d \in children : c.pid = d.pid => c = d
             /\ \A q \in {2, 4} : Alive(q)' => \E c \in children : c.pid = q
  <2>1. tty'.of = tty.of
    BY <1>1 DEF WorldInv, TtyOk
  <2> QED BY <1>1, <1>4, <1>7, <1>8, <2>1 DEF TargetInv
<1>9. ASSUME selected = "focus", appPc \notin {"window", "children"} PROVE Just(target)'
  <2>1. CASE target = Window
    BY <1>1, <2>1 DEF Just, WorldInv
  <2>2. CASE \E c \in {2, 4} : AloneIn(c) /\ target = Follow(Leader(World, c), c)
    <3>1. PICK c \in {2, 4} : AloneIn(c) /\ target = Follow(Leader(World, c), c)
      BY <2>2
    <3>2. PICK g : g = Leader(World, c)
      OBVIOUS
    <3>3. PICK t : t = target
      OBVIOUS
    <3>4. Just(t)'
      BY <1>5, <1>6, <3>1, <3>2, <3>3
    <3> QED BY <1>1, <3>3, <3>4 DEF Just
  <2> QED BY <1>1, <1>9, <2>1, <2>2 DEF TargetInv
<1>10. target' \in 1 .. 5 /\ selected' \in {"focus", "pid", "own"}
  BY <1>1 DEF TargetInv
<1>11. appPc' \in {"window", "children"} => selected' = "focus" /\ target' = Window
  BY <1>1 DEF TargetInv
<1>12. appPc' = "children" =>
           /\ \A c \in children' :
                  /\ c.pid \in {2, 4} /\ c = Child(c.pid, c.pty, c.group)
                  /\ c.pty # "unread" =>
                         c.pty = tty'.of[c.pid] /\ c.group \in (IF c.pid = 2 THEN {2, Job} ELSE {4}) /\ Told(c.pid, c.group)'
           /\ \A c, d \in children' : c.pid = d.pid => c = d
           /\ \A q \in {2, 4} : Alive(q)' => \E c \in children' : c.pid = q
  BY <1>1, <1>8
<1>13. selected' = "focus" /\ appPc' \notin {"window", "children"} => Just(target)'
  BY <1>1, <1>9
<1>14. turns' # 0
  BY <1>1
<1> HIDE DEF Job
<1> QED BY <1>10, <1>11, <1>12, <1>13, <1>14 DEF TargetInv

\* Processes without a parent get one: what is above another and not above one of these
\* stays as it was.
LEMMA AboveGrows ==
    ASSUME NEW v, NEW w, TreeOk(v.tree), TreeOk(w.tree), NEW p \in 1 .. 5, NEW mid \in Above(v, p),
           \A q \in 1 .. 5 : v.tree[q].parent # Nobody => w.tree[q].parent = v.tree[q].parent
    PROVE  /\ \A q \in Above(w, p) : q \in Above(w, mid) \/ q \in Above(v, p) \ Above(v, mid)
           /\ \A q \in Above(v, p) \ Above(v, mid) : v.tree[q].parent # Nobody
<1>1. \A q \in 0 .. 5 : Parent(v, q) # 0 => Parent(w, q) = Parent(v, q)
  BY DEF Parent, Nobody
<1>2. mid \in 1 .. 5
  BY AboveUp
<1> DEFINE Is(u, q, x) == q # 0 /\ (q = x \/ q = Parent(u, x) \/ q = Parent(u, Parent(u, x))
                                    \/ q = Parent(u, Parent(u, Parent(u, x))))
<1>3. \A q : /\ q \in Above(w, p) <=> Is(w, q, p)
             /\ q \in Above(v, p) <=> Is(v, q, p)
             /\ q \in Above(w, mid) <=> Is(w, q, mid)
             /\ q \in Above(v, mid) <=> Is(v, q, mid)
  BY <1>2, AboveIs DEF Nobody
<1>4. Is(v, mid, p)
  BY <1>3
<1>5. /\ Parent(w, 0) = 0 /\ Parent(w, 1) = 0 /\ Parent(w, 2) \in {0, 1} /\ Parent(w, 3) \in {0, 2}
      /\ Parent(w, 4) \in {0, 1} /\ Parent(w, 5) \in {0, 2, 3}
      /\ Parent(v, 0) = 0 /\ Parent(v, 1) = 0 /\ Parent(v, 2) \in {0, 1} /\ Parent(v, 3) \in {0, 2}
      /\ Parent(v, 4) \in {0, 1} /\ Parent(v, 5) \in {0, 2, 3}
  BY ParentsAre
<1>6. \A q : Is(w, q, p) => Is(w, q, mid) \/ (Is(v, q, p) /\ ~Is(v, q, mid))
  BY <1>1, <1>2, <1>4, <1>5
<1>7. \A q : Is(v, q, p) /\ ~Is(v, q, mid) => Parent(v, q) # 0
  BY <1>2, <1>4, <1>5
<1>8. \A q \in Above(v, p) : v.tree[q].parent = Parent(v, q)
  BY AboveUp DEF Parent, Nobody
<1> QED BY <1>3, <1>6, <1>7, <1>8 DEF Nobody

\* A change while the ancestors are read: there is a moment, before it or after it, at which
\* no editor was below the next one.
LEMMA TurnKeepsWalk ==
    ASSUME AppIInv, turns' <= 1, Meanwhile, appPc = "walk"
    PROVE  \E w \in worlds' : Clean(World', walk) => Clean(w, target)
<1>1. /\ WorldInv /\ World' \in worlds' /\ World \in worlds'
      /\ World.tree = tree /\ World'.tree = tree' /\ TreeOk(tree) /\ TreeOk(tree')
  BY TurnKeepsWorld, TurnIs DEF AppIInv, WorldInv, World
<1>2. /\ walk \in Above(World, target) /\ target \in 1 .. 5 /\ walk \in 1 .. 5
      /\ \A q \in Above(World, target) \ Above(World, walk) : tree[q].program \notin Interactive
  BY TurnIs DEF AppIInv, WalkInv, TargetInv
<1>3. /\ \A q \in Above(World, target) : q \in 1 .. 5
      /\ \A q \in Above(World', target) : q \in 1 .. 5
      /\ \A q \in Above(World, walk) : q \in 1 .. 5
      /\ \A q \in Above(World', walk) : q \in 1 .. 5
  BY <1>1, <1>2, AboveUp
<1>4. ASSUME NEW p \in {Window, 2, Job, 4}, Ended(p) PROVE Clean(World', walk) => Clean(World', target)
  <2>1. \A q \in 1 .. 5 : tree'[q].parent \in {tree[q].parent, Nobody}
    BY <1>1, <1>4, TreesAre DEF Gone
  <2>2. /\ Above(World', target) \subseteq Above(World, target)
        /\ \A q \in Above(World', target) : q \in Above(World, walk) => q \in Above(World', walk)
    BY <1>1, <1>2, <2>1, AboveShrinks
  <2>3. \A q \in 1 .. 5 : tree'[q].program \in {tree[q].program, "gone"}
    BY <1>1, <1>4, TreesAre DEF Gone
  <2>4. "gone" \notin Interactive
    BY DEF Interactive, Configured, AskedAtRuntime, VimLike
  <2> SUFFICES ASSUME Clean(World', walk), NEW q \in Above(World', target) PROVE tree'[q].program \notin Interactive
    BY <1>1 DEF Clean
  <2> QED BY <1>1, <1>2, <1>3, <2>2, <2>3, <2>4 DEF Clean
<1>5. ASSUME Started PROVE Clean(World', walk) => Clean(World', target)
  <2>1. /\ tree[Job] = Gone /\ \A q \in 1 .. 5 \ {Job} : tree'[q] = tree[q]
    BY <1>1, <1>5, TreesAre
  <2>2. \A q \in 1 .. 5 : tree[q].parent # Nobody => q # Job /\ tree'[q] = tree[q]
    BY <2>1 DEF Gone
  <2>3. /\ \A q \in Above(World', target) : q \in Above(World', walk) \/ q \in Above(World, target) \ Above(World, walk)
        /\ \A q \in Above(World, target) \ Above(World, walk) : tree[q].parent # Nobody
    BY <1>1, <1>2, <2>2, AboveGrows
  <2> SUFFICES ASSUME Clean(World', walk), NEW q \in Above(World', target) PROVE tree'[q].program \notin Interactive
    BY <1>1 DEF Clean
  <2> QED BY <1>1, <1>2, <1>3, <2>2, <2>3 DEF Clean
<1>6. ASSUME \A q \in 1 .. 5 : tree'[q].parent = tree[q].parent, NEW p, \A q \in 1 .. 5 \ {p} : tree'[q] = tree[q]
      PROVE  \E w \in worlds' : Clean(World', walk) => Clean(w, target)
  <2>1. \A q : (q \in Above(World', target) <=> q \in Above(World, target))
               /\ (q \in Above(World', walk) <=> q \in Above(World, walk))
    <3>1. \A q \in 0 .. 5 : Parent(World', q) = Parent(World, q)
      BY <1>1, <1>6 DEF Parent, Nobody
    <3>2. \A q \in 0 .. 5 : Parent(World, q) \in 0 .. 5
      BY <1>1, ParentsAre
    <3> QED BY <1>1, <1>2, <3>1, <3>2, AboveIs
  <2>2. CASE p \in Above(World, walk)
    <3> SUFFICES ASSUME Clean(World', walk), NEW q \in Above(World', target) PROVE tree'[q].program \notin Interactive
      BY <1>1 DEF Clean
    <3> QED BY <1>1, <1>2, <1>3, <1>6, <2>1, <2>2 DEF Clean
  <2>3. CASE p \notin Above(World, walk)
    <3> SUFFICES ASSUME Clean(World', walk), NEW q \in Above(World, target) PROVE tree[q].program \notin Interactive
      BY <1>1 DEF Clean
    <3> QED BY <1>1, <1>2, <1>3, <1>6, <2>1, <2>3 DEF Clean
  <2> QED BY <2>2, <2>3
<1>7. ASSUME NEW p \in {2, Job}, Became(p) PROVE \E w \in worlds' : Clean(World', walk) => Clean(w, target)
  <2>1. tree'[p].parent = tree[p].parent /\ \A q \in 1 .. 5 \ {p} : tree'[q] = tree[q]
    BY <1>1, <1>7, TreesAre
  <2>2. \A q \in 1 .. 5 : tree'[q].parent = tree[q].parent
    BY <2>1
  <2> QED BY <1>6, <2>1, <2>2
<1>8. CASE tree' = tree
  <2>1. \A q \in 1 .. 5 : tree'[q] = tree[q] /\ tree'[q].parent = tree[q].parent
    BY <1>8
  <2> QED BY <1>6, <2>1
<1>9. \/ \E p \in {Window, 2, Job, 4} : Ended(p)
      \/ Started \/ tree' = tree
      \/ \E p \in {2, Job} : Became(p)
  <2>1. Moved => tree' = tree
    BY Zenon DEF Moved
  <2> QED BY <1>1, <2>1, TurnIs
<1> QED BY <1>1, <1>4, <1>5, <1>7, <1>8, <1>9

\* Something else happens meanwhile.
LEMMA TurnKeeps ==
    ASSUME AppIInv, turns' <= 1, Meanwhile
    PROVE  AppIInv'
<1>1. /\ WorldInv /\ turns = 0 /\ turns' = 1 /\ worlds' = worlds \cup {World'}
      /\ configRows' = configRows /\ selected' = selected /\ appPc' = appPc /\ target' = target
      /\ walk' = walk /\ found' = found /\ modes' = modes
      /\ layerSays' = layerSays /\ endpoint' = endpoint
  BY TurnIs DEF AppIInv
<1>2. WorldInv' /\ editors'.named = editors.named
  BY <1>1, TurnKeepsWorld
<1>3. Server' = Server
  BY <1>1, <1>2 DEF Server
<1>4. WalkInv'
  <2>1. appPc' = "walk" => walk' \in 1 .. 5 /\ \E w \in worlds' : Clean(World', walk') => Clean(w, target')
    BY <1>1, TurnKeepsWalk DEF AppIInv, WalkInv
  <2>2. found' = "none" /\ (appPc' = "again" \/ layerSays' \in {"no editor", "unadapted"}) =>
           \E w \in worlds' : Clean(w, target')
    BY <1>1 DEF AppIInv, WalkInv
  <2>3. turns' # 0
    BY <1>1
  <2> QED BY <2>1, <2>2, <2>3 DEF WalkInv
<1>5. AnswerInv'
  <2>1. \A i : Matches(found', i, configRows') <=> Matches(found, i, configRows)
    BY <1>1
  <2>2. worlds \subseteq worlds'
    BY <1>1
  <2> QED BY <1>1, <1>3, <2>1, <2>2 DEF AppIInv, AnswerInv
<1> QED BY <1>1, <1>2, <1>4, <1>5, TurnKeepsTarget DEF AppIInv

\* What a step of whykey leaves of the world.
LEMMA ReadingLeaves ==
    ASSUME AppIInv, Reading
    PROVE  /\ WorldInv' /\ World' = World /\ worlds' = worlds /\ turns' = turns /\ tree' = tree /\ tty' = tty
           /\ editors' = editors /\ configRows' = configRows /\ selected' = selected
           /\ \A g, c : Told(g, c)' <=> Told(g, c)
           /\ \A t : Just(t)' <=> Just(t)
<1>1. /\ worlds' = worlds /\ turns' = turns /\ tree' = tree /\ tty' = tty
      /\ editors' = editors /\ configRows' = configRows /\ selected' = selected
  BY DEF Reading
<1>2. World' = World
  BY <1>1 DEF World
<1>3. WorldInv'
  BY <1>1, <1>2 DEF AppIInv, WorldInv, Alive
<1>4. \A t : Just(t)' <=> Just(t)
  BY <1>1 DEF Just
<1>5. \A g, c : (Told(g, c)' <=> Told(g, c))
  BY <1>1, <1>2 DEF Told, Just, AloneIn, Follow, Alive
<1> QED BY <1>1, <1>2, <1>3, <1>4, <1>5

\* focus.rs: the children of the window's process that are alive are its shells.
LEMMA LookKeeps == AppIInv /\ LookAtWindow => AppIInv'
<1> SUFFICES ASSUME AppIInv, LookAtWindow PROVE AppIInv'
  OBVIOUS
<1>1. /\ Reading /\ appPc = "window" /\ target' = target /\ walk' = walk /\ found' = found /\ modes' = modes
      /\ layerSays' = layerSays /\ endpoint' = endpoint
  BY DEF LookAtWindow
<1>2. /\ WorldInv' /\ World' = World /\ worlds' = worlds /\ turns' = turns /\ tree' = tree /\ tty' = tty
      /\ editors' = editors /\ configRows' = configRows /\ selected' = selected
  BY <1>1, ReadingLeaves
<1>3. CASE Alive(Window)
  <2>1. /\ appPc' = "children"
        /\ children' = {Child(p, "unread", Nobody) : p \in {q \in DOMAIN tree : Alive(q) /\ tree[q].parent = Window}}
    BY <1>3 DEF LookAtWindow
  <2>2. \A p \in DOMAIN tree : tree[p].parent = Window => p \in {2, 4}
    BY DEF AppIInv, WorldInv, TreeOk, Window, Nobody
  <2>3. \A c \in children' : c.pid \in {2, 4} /\ c = Child(c.pid, c.pty, c.group) /\ c.pty = "unread" /\ c.group = Nobody
    BY <2>1, <2>2 DEF Child
  <2>4. \A c, d \in children' : c.pid = d.pid => c = d
    BY <2>3
  <2>5. \A q \in {2, 4} : Alive(q) => \E c \in children' : c.pid = q
    <3>1. \A q \in {2, 4} : Alive(q) => q \in DOMAIN tree /\ tree[q].parent = Window
      BY <1>3 DEF AppIInv, WorldInv, Alive
    <3>2. \A q \in {2, 4} : Alive(q) => Child(q, "unread", Nobody) \in children' /\ Child(q, "unread", Nobody).pid = q
      BY <2>1, <3>1 DEF Child
    <3> QED BY <3>2
  <2>6. \A q : Alive(q)' <=> Alive(q)
    BY <1>2 DEF Alive
  <2>7. TargetInv'
    BY <1>1, <1>2, <2>1, <2>3, <2>4, <2>5, <2>6 DEF AppIInv, TargetInv
  <2>8. WalkInv' /\ AnswerInv'
    BY <1>1, <1>2, <2>1 DEF AppIInv, WalkInv, AnswerInv, Server
  <2> QED BY <1>2, <2>7, <2>8 DEF AppIInv
<1>4. CASE ~Alive(Window)
  <2>1. appPc' = "shell"
    BY <1>4 DEF LookAtWindow
  <2>2. target' = Window /\ Just(target)'
    BY <1>1, <1>2 DEF AppIInv, TargetInv, WorldInv, Just
  <2>3. TargetInv'
    BY <1>1, <1>2, <2>1, <2>2 DEF AppIInv, TargetInv
  <2>4. WalkInv' /\ AnswerInv'
    BY <1>1, <1>2, <2>1 DEF AppIInv, WalkInv, AnswerInv, Server
  <2> QED BY <1>2, <2>3, <2>4 DEF AppIInv
<1> QED BY <1>3, <1>4

\* The terminal of a child and its foreground are read.
LEMMA ReadChildKeeps == AppIInv /\ ReadChild => AppIInv'
<1> SUFFICES ASSUME AppIInv, ReadChild PROVE AppIInv'
  OBVIOUS
<1>1. /\ Reading /\ appPc = "children" /\ appPc' = appPc /\ target' = target /\ walk' = walk /\ found' = found /\ modes' = modes
      /\ layerSays' = layerSays /\ endpoint' = endpoint
  BY DEF ReadChild
<1>2. /\ WorldInv' /\ World' = World /\ worlds' = worlds /\ turns' = turns /\ tree' = tree /\ tty' = tty
      /\ editors' = editors /\ configRows' = configRows /\ selected' = selected
      /\ \A g, c : Told(g, c)' <=> Told(g, c)
  BY <1>1, ReadingLeaves
<1>3. PICK c \in children : c.pty = "unread" /\ children' = (children \ {c})
          \cup (IF Alive(c.pid) THEN {Child(c.pid, tty.of[c.pid], tty.group[tty.of[c.pid]])} ELSE {})
  BY DEF ReadChild
<1>4. PICK d : d = Child(c.pid, tty.of[c.pid], tty.group[tty.of[c.pid]])
  OBVIOUS
<1>5. c.pid \in {2, 4} /\ d.pid = c.pid /\ d.pty = tty.of[c.pid] /\ d.group = Leader(World, c.pid)
      /\ d = Child(d.pid, d.pty, d.group)
  BY <1>1, <1>4 DEF AppIInv, TargetInv, Child, Leader, World
<1>6. d.group \in (IF c.pid = 2 THEN {2, Job} ELSE {4})
  BY <1>5, LeaderIs DEF AppIInv, WorldInv, World
<1>7. Told(d.pid, d.group)
  <2>1. AloneIn(c.pid) => Just(Follow(d.group, c.pid))
    BY <1>5, HereIsJust DEF AppIInv
  <2> QED BY <1>5, <2>1 DEF Told
<1>8. \A q : Alive(q)' <=> Alive(q)
  BY <1>2 DEF Alive
<1>9. \A e \in children' : e \in children \/ e = d
  BY <1>3, <1>4
<1>10. \A e \in children' :
           /\ e.pid \in {2, 4} /\ e = Child(e.pid, e.pty, e.group)
           /\ e.pty # "unread" =>
                  e.pty = tty.of[e.pid] /\ e.group \in (IF e.pid = 2 THEN {2, Job} ELSE {4}) /\ Told(e.pid, e.group)
  BY <1>1, <1>5, <1>6, <1>7, <1>9 DEF AppIInv, TargetInv
<1>11. \A e, f \in children' : e.pid = f.pid => e = f
  <2>1. \A e, f \in children : e.pid = f.pid => e = f
    BY <1>1 DEF AppIInv, TargetInv
  <2>2. \A e \in children' : (e \in children /\ e.pid # c.pid) \/ e = d
    BY <1>3, <1>4, <2>1
  <2> QED BY <1>5, <2>1, <2>2
<1>12. \A q \in {2, 4} : Alive(q) => \E e \in children' : e.pid = q
  <2>1. \A q \in {2, 4} : Alive(q) => \E e \in children : e.pid = q
    BY <1>1 DEF AppIInv, TargetInv
  <2>2. Alive(c.pid) => d \in children'
    BY <1>3, <1>4
  <2>3. \A e \in children : e \in children' \/ e = c
    BY <1>3
  <2> QED BY <1>5, <2>1, <2>2, <2>3
<1>13. TargetInv'
  BY <1>1, <1>2, <1>8, <1>10, <1>11, <1>12 DEF AppIInv, TargetInv
<1>14. WalkInv' /\ AnswerInv'
  BY <1>1, <1>2 DEF AppIInv, WalkInv, AnswerInv, Server
<1> QED BY <1>2, <1>13, <1>14 DEF AppIInv

\* through_terminal: with shells on one pty, its foreground is followed.
LEMMA ThroughKeeps == AppIInv /\ through_terminal => AppIInv'
<1> SUFFICES ASSUME AppIInv, through_terminal PROVE AppIInv'
  OBVIOUS
<1>1. /\ Reading /\ appPc = "children" /\ appPc' = "shell" /\ "unread" \notin Ptys
      /\ target' = (IF Cardinality(Ptys) = 1 THEN Followed ELSE target)
      /\ walk' = walk /\ found' = found /\ modes' = modes
      /\ layerSays' = layerSays /\ endpoint' = endpoint
  BY DEF through_terminal
<1>2. /\ WorldInv' /\ World' = World /\ worlds' = worlds /\ turns' = turns /\ tree' = tree /\ tty' = tty
      /\ editors' = editors /\ configRows' = configRows /\ selected' = selected
      /\ \A t : Just(t)' <=> Just(t)
  BY <1>1, ReadingLeaves
<1>3. WalkInv' /\ AnswerInv'
  BY <1>1, <1>2 DEF AppIInv, WalkInv, AnswerInv, Server
<1>4. selected = "focus" /\ target = Window
  BY <1>1 DEF AppIInv, TargetInv
<1>5. CASE Cardinality(Ptys) # 1
  <2>1. target' = Window /\ Just(target)'
    BY <1>1, <1>2, <1>4, <1>5 DEF Just, WorldInv
  <2>2. Window \in 1 .. 5
    BY DEF Window
  <2> QED BY <1>1, <1>2, <1>3, <1>4, <2>1, <2>2 DEF AppIInv, TargetInv
<1>6. CASE Cardinality(Ptys) = 1
  <2>1. \A c \in children : /\ c.pid \in {2, 4} /\ c.pty # "unread" /\ c.pty = tty.of[c.pid]
                            /\ c.group \in (IF c.pid = 2 THEN {2, Job} ELSE {4}) /\ Told(c.pid, c.group)
    BY <1>1 DEF AppIInv, TargetInv, Ptys
  <2>2. TtyOk(tty)
    BY DEF AppIInv, WorldInv
  <2>3. Ptys \subseteq {"a", "b"}
    <3>1. tty.of[2] = "a" /\ tty.of[4] = "b"
      BY <2>2, TtyIs
    <3>2. \A c \in children : c.pty \in {"a", "b"}
      BY <2>1, <3>1
    <3> QED BY <3>2 DEF Ptys
  <2>4. IsFiniteSet({"a", "b"})
    <3>1. IsFiniteSet({} \cup {"a"})
      BY FS_EmptySet, FS_AddElement
    <3>2. IsFiniteSet(({} \cup {"a"}) \cup {"b"})
      BY <3>1, FS_AddElement
    <3>3. ({} \cup {"a"}) \cup {"b"} = {"a", "b"}
      OBVIOUS
    <3> QED BY <3>2, <3>3
  <2>5. IsFiniteSet(Ptys)
    BY <2>3, <2>4, FS_Subset
  <2>6. PICK x : Ptys = {x}
    BY <1>6, <2>5, FS_Singleton
  <2>7. OneChild \in children
    BY <2>6 DEF OneChild, Ptys
  <2>8. PICK c \in children : c = OneChild
    BY <2>7
  <2>9. AloneIn(c.pid)
    <3>1. \A q \in {2, 4} : Alive(q) => \E d \in children : d.pid = q
      BY <1>1 DEF AppIInv, TargetInv
    <3>2. \A d \in children : tty.of[d.pid] = tty.of[c.pid]
      BY <2>1, <2>6 DEF Ptys
    <3>3. tty.of[2] # tty.of[4]
      BY <2>2, TtyIs
    <3> QED BY <2>1, <3>1, <3>2, <3>3 DEF AloneIn
  <2>10. Followed = Follow(c.group, c.pid)
    BY <2>8 DEF Followed, Follow
  <2>11. target' = Follow(c.group, c.pid)
    BY <1>1, <1>6, <2>10
  <2>12. target' \in 1 .. 5
    BY <2>1, <2>11 DEF Follow, Job
  <2>13. turns = 0 => \E q \in {2, 4} : AloneIn(q) /\ target' = Follow(Leader(World, q), q)
    BY <2>1, <2>9, <2>11 DEF Told
  <2>14. turns = 1 => Just(target')
    BY <2>1, <2>9, <2>11 DEF Told
  <2>15. Just(target)' <=> Just(target')
    BY <1>2 DEF Just
  <2>16. \A q, t : /\ (AloneIn(q)' <=> AloneIn(q))
                   /\ Follow(Leader(World, q), q)' = Follow(Leader(World, q), q)
    BY <1>2 DEF AloneIn, Alive, Follow, Leader
  <2>17. turns' = 0 => \E q \in {2, 4} : AloneIn(q)' /\ target' = Follow(Leader(World, q), q)'
    BY <1>2, <2>13, <2>16
  <2>18. turns' = 1 => Just(target)'
    BY <1>2, <2>14, <2>15
  <2>19. selected' \in {"focus", "pid", "own"}
    BY <1>2, <1>4
  <2>20. TargetInv'
    BY <1>1, <2>12, <2>17, <2>18, <2>19 DEF TargetInv
  <2> QED BY <1>2, <1>3, <2>20 DEF AppIInv
<1> QED BY <1>5, <1>6

\* The application layer and the choice of the endpoint touch the target no more.
LEMMA InspectingLeaves ==
    ASSUME AppIInv, Inspecting, appPc \notin {"window", "children"}, appPc' \notin {"window", "children"}
    PROVE  /\ WorldInv' /\ TargetInv' /\ World' = World /\ worlds' = worlds /\ turns' = turns /\ tree' = tree /\ tty' = tty
           /\ editors' = editors /\ configRows' = configRows /\ selected' = selected /\ target' = target
<1>1. /\ WorldInv' /\ World' = World /\ worlds' = worlds /\ turns' = turns /\ tree' = tree /\ tty' = tty
      /\ editors' = editors /\ configRows' = configRows /\ selected' = selected
      /\ \A t : Just(t)' <=> Just(t)
  BY ReadingLeaves DEF Inspecting
<1>2. target' = target /\ children' = children
  BY DEF Inspecting
<1>3. \A q : /\ (AloneIn(q)' <=> AloneIn(q))
             /\ Follow(Leader(World, q), q)' = Follow(Leader(World, q), q)
  BY <1>1 DEF AloneIn, Alive, Follow, Leader
<1>4. Just(target)' <=> Just(target)
  BY <1>1, <1>2 DEF Just
<1>5. TargetInv'
  BY <1>1, <1>2, <1>3, <1>4 DEF AppIInv, TargetInv
<1> QED BY <1>1, <1>2, <1>5

\* The way up goes on above a process that is above the target.
LEMMA WayUp ==
    ASSUME NEW w, TreeOk(w.tree), NEW p \in 1 .. 5, NEW mid \in Above(w, p), w.tree[mid].parent # Nobody
    PROVE  w.tree[mid].parent \in Above(w, p)
<1>1. mid \in 1 .. 5 /\ Parent(w, mid) = w.tree[mid].parent /\ Parent(w, mid) # 0
  BY AboveUp DEF Parent, Nobody
<1>2. \A q : q \in Above(w, p) <=> q # 0 /\ (q = p \/ q = Parent(w, p) \/ q = Parent(w, Parent(w, p))
                                              \/ q = Parent(w, Parent(w, Parent(w, p))))
  BY AboveIs DEF Nobody
<1>3. /\ Parent(w, 0) = 0 /\ Parent(w, 1) = 0 /\ Parent(w, 2) \in {0, 1} /\ Parent(w, 3) \in {0, 2}
      /\ Parent(w, 4) \in {0, 1} /\ Parent(w, 5) \in {0, 2, 3}
  BY ParentsAre
<1>4. Parent(w, mid) \in Above(w, p)
  BY <1>1, <1>2, <1>3
<1> QED BY <1>1, <1>4

\* Reading one ancestor.
LEMMA ClimbKeeps == AppIInv /\ Climb => AppIInv'
<1> SUFFICES ASSUME AppIInv, Climb PROVE AppIInv'
  OBVIOUS
<1>1. appPc = "walk" /\ Inspecting /\ appPc' \in {"again", "endpoint", "mode", "maps", "config", "walk"}
      /\ endpoint' = endpoint
  BY DEF Climb, NoEditor, AppIInv
<1>2. /\ WorldInv' /\ TargetInv' /\ World' = World /\ worlds' = worlds /\ turns' = turns /\ tree' = tree
      /\ configRows' = configRows /\ selected' = selected /\ target' = target
  BY <1>1, InspectingLeaves
<1>3. /\ walk \in 1 .. 5 /\ target \in 1 .. 5 /\ World.tree = tree /\ TreeOk(tree) /\ World \in worlds /\ turns \in {0, 1}
      /\ layerSays = "none" /\ endpoint = "none" /\ found = "none" /\ DOMAIN tree = 1 .. 5
  BY <1>1 DEF AppIInv, WalkInv, WorldInv, TargetInv, AnswerInv, World, TreeOk
<1>4. process_info(walk) = tree[walk]
  BY <1>3 DEF process_info, Alive
<1>5. /\ turns = 0 => /\ walk \in Above(World, target)
                      /\ \A q \in Above(World, target) \ Above(World, walk) : tree[q].program \notin Interactive
      /\ turns = 1 => \E w \in worlds : Clean(World, walk) => Clean(w, target)
  BY <1>1 DEF AppIInv, WalkInv
<1>6. Clean(World, walk) => \E w \in worlds : Clean(w, target)
  BY <1>3, <1>5 DEF Clean
<1>7. \A i \in DOMAIN configRows : configRows[i] \in ConfigRow
  BY DEF AppIInv, AnswerInv
<1>8. CASE \E how \in {"broken", "none"} : NoEditor(how) /\ (how = "none" => Clean(World, walk))
  <2>1. PICK how \in {"broken", "none"} : NoEditor(how) /\ (how = "none" => Clean(World, walk))
    BY <1>8
  <2>2. /\ found' = how /\ appPc' \in {"endpoint", "again"} /\ layerSays' \in {"none", "no editor"}
        /\ appPc' = "again" => layerSays' = "none"
    BY <1>3, <2>1 DEF NoEditor
  <2>3. WalkInv'
    BY <1>2, <1>6, <2>1, <2>2 DEF WalkInv
  <2>4. AnswerInv'
    BY <1>1, <1>2, <1>3, <1>7, <2>2 DEF AnswerInv
  <2> QED BY <1>2, <2>3, <2>4 DEF AppIInv
<1>9. CASE process_info(walk) = Gone /\ NoEditor("broken")
  BY <1>8, <1>9
<1>10. CASE /\ process_info(walk) # Gone /\ process_info(walk).program \notin Interactive
            /\ process_info(walk).parent = Nobody /\ NoEditor("none")
  <2>1. Above(World, walk) = {walk}
    BY <1>3, <1>4, <1>10, AboveUp
  <2>2. Clean(World, walk)
    BY <1>3, <1>4, <1>10, <2>1 DEF Clean
  <2> QED BY <1>8, <1>10, <2>2
<1>11. CASE /\ process_info(walk).program \in Interactive /\ found' = process_info(walk).program
            /\ appPc' \in {"mode", "maps", "config"} /\ UNCHANGED <<walk, layerSays, endpoint>>
  <2>1. "none" \notin Interactive
    BY DEF Interactive, Configured, AskedAtRuntime, VimLike
  <2>2. WalkInv'
    BY <1>11, <2>1 DEF WalkInv
  <2>3. AnswerInv'
    BY <1>2, <1>3, <1>7, <1>11 DEF AnswerInv
  <2> QED BY <1>2, <2>2, <2>3 DEF AppIInv
<1>12. CASE /\ process_info(walk).program \notin Interactive /\ process_info(walk).parent # Nobody
            /\ walk' = process_info(walk).parent /\ UNCHANGED <<appPc, found, modes, layerSays, endpoint>>
  <2>1. /\ walk' \in 1 .. 5 /\ Above(World, walk) = {walk} \cup Above(World, walk')
        /\ walk' = tree[walk].parent /\ tree[walk].program \notin Interactive
    BY <1>3, <1>4, <1>12, AboveUp
  <2>2. turns = 0 => /\ walk' \in Above(World, target)
                     /\ \A q \in Above(World, target) \ Above(World, walk') : tree[q].program \notin Interactive
    BY <1>3, <1>4, <1>5, <1>12, <2>1, WayUp
  <2>3. Clean(World, walk') => Clean(World, walk)
    BY <1>3, <2>1 DEF Clean
  <2>4. turns = 1 => \E w \in worlds : Clean(World, walk') => Clean(w, target)
    BY <1>5, <2>3
  <2>5. WalkInv'
    BY <1>1, <1>2, <1>3, <1>12, <2>1, <2>2, <2>4 DEF WalkInv
  <2>6. AnswerInv'
    BY <1>1, <1>2, <1>3, <1>7, <1>12 DEF AnswerInv
  <2> QED BY <1>2, <2>5, <2>6 DEF AppIInv
<1> QED
  <2>1. ~(process_info(walk).program \in Interactive /\ process_info(walk) = Gone)
    BY DEF Gone, Interactive, Configured, AskedAtRuntime, VimLike
  <2>2. /\ process_info(walk).program \in Interactive /\ found' = process_info(walk).program
        /\ appPc' = (IF process_info(walk).program \in VimLike THEN "mode"
                     ELSE IF process_info(walk).program = "emacs" THEN "maps" ELSE "config")
        /\ UNCHANGED <<walk, layerSays, endpoint>>
        => AppIInv'
    BY <1>11
  <2> QED BY <1>9, <1>10, <1>12, <2>2, Zenon DEF Climb

\* The other steps of the application layer.
LEMMA LayerKeeps ==
    AppIInv /\ (TargetIsShell \/ StartWalk \/ ReadAgain \/ AskMode \/ AskMapping \/ ReadRows) => AppIInv'
<1> SUFFICES ASSUME AppIInv, TargetIsShell \/ StartWalk \/ ReadAgain \/ AskMode \/ AskMapping \/ ReadRows
             PROVE  AppIInv'
  OBVIOUS
<1>1. /\ Inspecting /\ appPc \in {"shell", "again", "mode", "maps", "config"}
      /\ appPc' \in {"endpoint", "walk", "maps", "config"} \cup {appPc} /\ endpoint' = endpoint
  BY DEF TargetIsShell, StartWalk, ReadAgain, AskMode, AskMapping, ReadRows, Says
<1>2. /\ WorldInv' /\ TargetInv' /\ World' = World /\ worlds' = worlds /\ turns' = turns /\ tree' = tree /\ editors' = editors
      /\ configRows' = configRows /\ selected' = selected /\ target' = target
  BY <1>1, InspectingLeaves
<1>3. /\ \A i \in DOMAIN configRows : configRows[i] \in ConfigRow
      /\ layerSays = "none" /\ endpoint = "none" /\ World \in worlds /\ turns \in {0, 1} /\ target \in 1 .. 5
      /\ appPc = "shell" => found = "none"
      /\ appPc = "again" => found \in {"none", "broken"}
      /\ appPc \in {"mode", "maps", "config"} => found \in Interactive
      /\ World.tree = tree /\ TreeOk(tree)
  BY <1>1 DEF AppIInv, AnswerInv, WorldInv, TargetInv, World
<1>4. "none" \notin Interactive
  BY DEF Interactive, Configured, AskedAtRuntime, VimLike
<1>5. CASE TargetIsShell
  <2>1. layerSays' = "shell" /\ appPc' = "endpoint"
    BY <1>5 DEF TargetIsShell, Says
  <2> QED BY <1>1, <1>2, <1>3, <2>1 DEF AppIInv, WalkInv, AnswerInv
<1>6. CASE StartWalk
  <2>1. appPc = "shell" /\ appPc' = "walk" /\ walk' = target /\ found' = found /\ layerSays' = layerSays
    BY <1>6 DEF StartWalk
  <2>2. target \in Above(World, target)
    BY <1>3, AboveUp
  <2>3. WalkInv'
    BY <1>2, <1>3, <2>1, <2>2 DEF WalkInv
  <2>4. AnswerInv'
    BY <1>1, <1>2, <1>3, <2>1 DEF AnswerInv
  <2> QED BY <1>2, <2>3, <2>4 DEF AppIInv
<1>7. CASE ReadAgain
  <2>1. appPc = "again" /\ appPc' = "endpoint" /\ layerSays' \in {"unadapted", "unavailable"} /\ found' = found
    BY <1>7 DEF ReadAgain, Says
  <2>2. WalkInv'
    BY <1>2, <2>1 DEF AppIInv, WalkInv
  <2>3. AnswerInv'
    BY <1>1, <1>2, <1>3, <2>1 DEF AnswerInv
  <2> QED BY <1>2, <2>2, <2>3 DEF AppIInv
<1>8. CASE AskMode
  <2>1. appPc = "mode" /\ appPc' \in {"maps", "config"} /\ found' = found /\ layerSays' = layerSays
    BY <1>8 DEF AskMode
  <2> QED BY <1>1, <1>2, <1>3, <1>4, <2>1 DEF AppIInv, WalkInv, AnswerInv
<1>9. CASE AskMapping
  <2>1. appPc = "maps" /\ found' = found
    BY <1>9 DEF AskMapping, Says
  <2>2. CASE Reachable /\ Head(modes) \in AsksFor.maps /\ Says("runtime")
    <3>1. modes' = modes /\ layerSays' = "runtime" /\ appPc' = "endpoint" /\ Server' = Server
      BY <1>2, <2>1, <2>2 DEF Says, Server
    <3>2. Server = "own" => World.tree[Job].program = found /\ Head(modes) \in World.editors.own.maps
      BY <2>2 DEF Reachable, AsksFor, World
    <3>3. AnswerInv'
      BY <1>1, <1>2, <1>3, <2>1, <3>1, <3>2 DEF AnswerInv
    <3> QED BY <1>2, <1>3, <1>4, <2>1, <3>1, <3>3 DEF AppIInv, WalkInv
  <2>3. CASE layerSays' = layerSays /\ appPc' \in {"maps", "config"}
    BY <1>1, <1>2, <1>3, <1>4, <2>1, <2>3 DEF AppIInv, WalkInv, AnswerInv
  <2> QED BY <1>9, <2>1, <2>2, <2>3 DEF AskMapping
<1>10. CASE ReadRows
  <2>1. appPc = "config" /\ appPc' = "endpoint" /\ found' = found
    BY <1>10 DEF ReadRows, Says
  <2>2. layerSays' \in {"config", "unknown"}
        /\ (layerSays' = "config" => \E i \in DOMAIN configRows : Matches(found, i, configRows))
    BY <1>10 DEF ReadRows, Says
  <2>3. \A i : Matches(found', i, configRows') <=> Matches(found, i, configRows)
    BY <1>2, <2>1
  <2>4. AnswerInv'
    BY <1>1, <1>2, <1>3, <2>1, <2>2, <2>3 DEF AnswerInv
  <2> QED BY <1>2, <1>3, <1>4, <2>1, <2>2, <2>4 DEF AppIInv, WalkInv
<1> QED BY <1>5, <1>6, <1>7, <1>8, <1>9, <1>10

\* select_target_endpoint: the shell is inspected if one is the target.
LEMMA EndpointKeeps == AppIInv /\ SelectEndpoint => AppIInv'
<1> SUFFICES ASSUME AppIInv, SelectEndpoint PROVE AppIInv'
  OBVIOUS
<1>1. /\ Inspecting /\ appPc = "endpoint" /\ appPc' = "done" /\ walk' = walk /\ found' = found /\ modes' = modes
      /\ layerSays' = layerSays
      /\ endpoint' = "shell" /\ selected = "focus" => is_shell_process(target)
  BY DEF SelectEndpoint
<1>2. /\ WorldInv' /\ TargetInv' /\ World' = World /\ worlds' = worlds /\ turns' = turns /\ tree' = tree /\ editors' = editors
      /\ configRows' = configRows /\ selected' = selected /\ target' = target
  BY <1>1, InspectingLeaves
<1>3. WalkInv'
  BY <1>1, <1>2 DEF AppIInv, WalkInv
<1>4. ASSUME selected = "focus", is_shell_process(target)
      PROVE  \E w \in worlds : w.tree[target].program = "sh" /\ InForeground(w, target)
  <2>1. tree[target].program = "sh"
    BY <1>4 DEF is_shell_process, process_info, Gone
  <2>2. Just(target)
    <3>1. CASE turns = 1
      BY <1>1, <1>4, <3>1 DEF AppIInv, TargetInv
    <3>2. CASE turns = 0
      <4>1. target # Window
        BY <2>1 DEF AppIInv, WorldInv
      <4>2. PICK c \in {2, 4} : AloneIn(c) /\ target = Follow(Leader(World, c), c)
        BY <1>1, <1>4, <3>2, <4>1 DEF AppIInv, TargetInv
      <4> QED BY <4>2, HereIsJust DEF AppIInv
    <3> QED BY <3>1, <3>2 DEF AppIInv, WorldInv
  <2> QED BY <2>1, <2>2 DEF Just
<1>5. AnswerInv'
  <2>1. Server' = Server
    BY <1>1, <1>2 DEF Server
  <2>2. \A i : Matches(found', i, configRows') <=> Matches(found, i, configRows)
    BY <1>1, <1>2
  <2> QED BY <1>1, <1>2, <1>4, <2>1, <2>2 DEF AppIInv, AnswerInv
<1> QED BY <1>2, <1>3, <1>5 DEF AppIInv

\* The whole inspection of the target.
LEMMA AppKeeps ==
    ASSUME AppIInv, turns' <= 1, [AppNext]_appVars
    PROVE  AppIInv'
<1>1. CASE UNCHANGED appVars
  <2>1. Reading /\ Inspecting /\ appPc' = appPc /\ walk' = walk /\ found' = found /\ modes' = modes
        /\ layerSays' = layerSays /\ endpoint' = endpoint /\ target' = target /\ children' = children
    BY <1>1 DEF appVars, Reading, Inspecting
  <2>2. /\ WorldInv' /\ World' = World /\ worlds' = worlds /\ turns' = turns /\ tree' = tree /\ tty' = tty /\ editors' = editors
        /\ configRows' = configRows /\ selected' = selected
        /\ \A c, g : Told(c, g)' <=> Told(c, g)
        /\ \A t : Just(t)' <=> Just(t)
    BY <2>1, ReadingLeaves
  <2>7. WalkInv'
    BY <2>1, <2>2 DEF AppIInv, WalkInv
  <2>3. AnswerInv'
    <3>1. \A i : Matches(found', i, configRows') <=> Matches(found, i, configRows)
      BY <2>1, <2>2
    <3>2. Server' = Server
      BY <2>1, <2>2 DEF Server
    <3> QED BY <2>1, <2>2, <3>1, <3>2 DEF AppIInv, AnswerInv
  <2>4. \A q : /\ (AloneIn(q)' <=> AloneIn(q)) /\ (Alive(q)' <=> Alive(q))
               /\ Follow(Leader(World, q), q)' = Follow(Leader(World, q), q)
    BY <2>2 DEF AloneIn, Alive, Follow, Leader
  <2>5. Just(target)' <=> Just(target)
    BY <2>1, <2>2 DEF Just
  <2>6. TargetInv'
    BY <2>1, <2>2, <2>4, <2>5 DEF AppIInv, TargetInv
  <2> QED BY <2>2, <2>3, <2>6, <2>7 DEF AppIInv
<1>2. CASE AppNext
  BY <1>2, TurnKeeps, LookKeeps, ReadChildKeeps, ThroughKeeps, ClimbKeeps, LayerKeeps, EndpointKeeps
     DEF AppNext, Meanwhile
<1> QED BY <1>1, <1>2

\* A line that matches binds the key, or only names it.
LEMMA MatchesNames ==
    ASSUME NEW editor, NEW i, NEW lines, lines[i] \in ConfigRow, Matches(editor, i, lines)
    PROVE  BindsKey(editor, i, lines) \/ NamesOnly(lines[i])
<1>1. CASE editor \in VimLike
  <2>1. VimMatches(lines[i]) /\ editor # "code" /\ editor # "helix"
    BY <1>1 DEF Matches, VimLike
  <2> QED BY <2>1 DEF VimMatches, BindsKey, NamesOnly, ConfigRow
<1>2. CASE editor = "helix"
  <2>1. HelixMatches(i, lines)
    BY <1>2 DEF Matches, VimLike
  <2> QED BY <1>2, <2>1 DEF HelixMatches, BindsKey
<1>3. CASE editor = "emacs"
  <2>1. EmacsMatches(lines[i])
    BY <1>3 DEF Matches, VimLike
  <2> QED BY <1>3, <2>1 DEF EmacsMatches, BindsKey, NamesOnly
<1>4. CASE editor = "code"
  <2>1. CodeMatches(lines[i])
    BY <1>4 DEF Matches, VimLike
  <2> QED BY <1>4, <2>1 DEF CodeMatches, BindsKey, NamesOnly
<1>5. CASE editor \notin VimLike \cup {"helix", "emacs", "code"}
  <2>1. FirstKeyMatches(lines[i])
    BY <1>5 DEF Matches
  <2> QED BY <1>5, <2>1 DEF FirstKeyMatches, BindsKey
<1> QED BY <1>1, <1>2, <1>3, <1>4, <1>5

\* What the application layer says is so.
LEMMA AppIsSound == AppIInv => ApplicationIsSound
<1> SUFFICES ASSUME AppIInv, appPc = "done" PROVE ApplicationIsSound
  BY DEF ApplicationIsSound
<1>1. layerSays = "config" =>
          \E i \in DOMAIN configRows : Matches(found, i, configRows) /\ (BindsKey(found, i, configRows) \/ NamesOnly(configRows[i]))
  BY MatchesNames DEF AppIInv, AnswerInv
<1>2. layerSays \in {"no editor", "unadapted"} /\ found # "broken" => found = "none"
  BY DEF AppIInv, AnswerInv
<1>3. layerSays \in {"no editor", "unadapted"} /\ found # "broken" =>
          \E w \in worlds : \A p \in Above(w, target) : w.tree[p].program \notin Interactive
  BY <1>2 DEF AppIInv, WalkInv, Clean
<1> QED BY <1>1, <1>3 DEF AppIInv, AnswerInv, ApplicationIsSound

\* It holds before anything is asked.
LEMMA AppBegins == AppInit => AppIInv
<1> SUFFICES ASSUME AppInit PROVE AppIInv
  OBVIOUS
<1>1. /\ selected \in {"focus", "pid", "own"} /\ appPc = (IF selected = "focus" THEN "window" ELSE "shell")
      /\ children = {} /\ walk = 0 /\ found = "none" /\ modes = <<>> /\ layerSays = "none" /\ endpoint = "none"
      /\ turns = 0 /\ worlds = {World}
  BY DEF AppInit
<1>2. PICK window \in WindowPrograms, job \in JobPrograms \cup {"gone"}, second \in BOOLEAN, inside \in BOOLEAN :
          /\ tree = [p \in 1..5 |->
                CASE p = 1 -> Running(window, Nobody)
                  [] p = 2 -> Running("sh", Window)
                  [] p = Job -> IF job = "gone" THEN Gone ELSE Running(job, 2)
                  [] p = 4 -> IF second THEN Running("sh", Window) ELSE Gone
                  [] OTHER -> IF selected = "own" THEN Running("whykey", IF inside THEN Job ELSE 2) ELSE Gone]
          /\ inside => selected = "own" /\ job # "gone"
          /\ second => selected = "focus" /\ window = "terminal"
          /\ tty = [of |-> <<"none", "a", "a", "b", "a">>,
                    group |-> [a |-> IF job = "gone" THEN 2 ELSE Job, b |-> 4]]
          /\ window # "terminal" => selected = "focus" /\ ~second /\ job = "gone"
  BY DEF AppInit
<1>3. /\ tree[1] = Running(window, Nobody) /\ tree[2] = Running("sh", Window)
      /\ tree[3] = (IF job = "gone" THEN Gone ELSE Running(job, 2))
      /\ tree[4] = (IF second THEN Running("sh", Window) ELSE Gone)
      /\ tree[5] = (IF selected = "own" THEN Running("whykey", IF inside THEN Job ELSE 2) ELSE Gone)
      /\ DOMAIN tree = 1 .. 5 /\ tree = [p \in 1 .. 5 |-> tree[p]]
  BY <1>2 DEF Job
<1>4. /\ window \in Programs /\ job \in Programs /\ {"sh", "whykey", "gone"} \subseteq Programs /\ window # "sh" /\ window # "gone"
  BY DEF Programs, Interactive, Configured, AskedAtRuntime, VimLike, WindowPrograms, JobPrograms
<1>5. \A p \in {1, 2, 3, 4, 5} : tree[p] \in [program : Programs, parent : 0 .. 3]
  BY <1>3, <1>4 DEF Running, Gone, Nobody, Window, Job
<1>6. tree \in [1 .. 5 -> [program : Programs, parent : 0 .. 3]]
  <2>1. 1 .. 5 = {1, 2, 3, 4, 5}
    OBVIOUS
  <2> QED BY <1>3, <1>5, <2>1
<1>7. TreeOk(tree)
  <2>1. tree[1].parent = Nobody /\ tree[2].parent = 1 /\ tree[3].parent \in {Nobody, 2} /\ tree[4].parent \in {Nobody, 1}
        /\ tree[5].parent \in {Nobody, 2, 3}
    BY <1>3 DEF Running, Gone, Nobody, Window, Job
  <2> QED BY <1>6, <2>1 DEF TreeOk
<1>8. TtyOk(tty) /\ tty.group["a"] = IF job = "gone" THEN 2 ELSE Job
  BY <1>2 DEF TtyOk
<1>9. Alive(Job) <=> job # "gone"
  <2>1. Job \in DOMAIN tree /\ tree[Job] = (IF job = "gone" THEN Gone ELSE Running(job, 2))
    BY <1>3 DEF Job
  <2>2. Gone.program = "gone" /\ Running(job, 2).program = job
    BY DEF Gone, Running
  <2> QED BY <2>1, <2>2 DEF Alive
<1>10. editors \in [named : {"argument", "NVIM_LISTEN_ADDRESS", "NVIM", "none"}, own : EditorAnswers, outer : EditorAnswers]
  <2>1. \/ editors \in [named : {"argument", "NVIM_LISTEN_ADDRESS", "NVIM", "none"}, own : EditorAnswers,
                        outer : {Silent, [Silent EXCEPT !.maps = {"n"}]}]
        \/ editors = [named |-> "none", own |-> Silent, outer |-> Silent]
    BY Zenon DEF AppInit
  <2>2. Silent \in EditorAnswers /\ [Silent EXCEPT !.maps = {"n"}] \in EditorAnswers
    BY DEF Silent, EditorAnswers, Modes
  <2> HIDE DEF Silent, EditorAnswers
  <2> QED BY <2>1, <2>2
<1>11. WorldInv
  <2>1. tree[Window].program # "sh"
    BY <1>3, <1>4 DEF Window, Running
  <2>2. \A q \in {2, 4} : Alive(q) => tree[q].parent = Window
    BY <1>3 DEF Alive, Running
  <2> QED BY <1>1, <1>7, <1>8, <1>9, <1>10, <2>1, <2>2 DEF WorldInv
<1>12. target \in 1 .. 5 /\ (selected = "focus" => target = Window)
  BY <1>1 DEF AppInit, Window, Job, Whykey
<1>13. \A i \in DOMAIN configRows : configRows[i] \in ConfigRow
  <2>1. CASE configRows = <<>>
    BY <2>1
  <2>2. CASE configRows \in SeqOf(ConfigRow, MaxConfigRows)
    BY <2>2 DEF SeqOf
  <2>3. configRows = <<>> \/ configRows \in SeqOf(ConfigRow, MaxConfigRows)
    BY Zenon DEF AppInit
  <2> QED BY <2>1, <2>2, <2>3
<1>14. TargetInv
  BY <1>1, <1>12 DEF TargetInv
<1>15. WalkInv
  BY <1>1 DEF WalkInv
<1>16. AnswerInv
  BY <1>1, <1>13 DEF AnswerInv
<1> QED BY <1>11, <1>14, <1>15, <1>16 DEF AppIInv

\* The target is followed and judged right as long as no more than one thing changes.
AppInv == part = "app" => turns \in Nat /\ turns <= MaxTurns /\ (turns <= 1 => AppIInv)

\* It holds before anything is asked.
LEMMA AppStarts == Init => AppInv
BY AppBegins, ApplicationsAssumption DEF Init, AppInv, AppInit

\* It survives every question, every answer and a change.
LEMMA AppSteps == AppInv /\ [Next]_mcVars => AppInv'
<1> SUFFICES ASSUME AppInv, [Next]_mcVars, part' = "app"
             PROVE  turns' \in Nat /\ turns' <= MaxTurns /\ (turns' <= 1 => AppIInv')
  BY DEF AppInv
<1>1. part = "app" /\ [AppNext]_appVars
  BY DEF Next, mcVars, HyprlandStep, CompositorStep, DesktopStep, MethodStep, BindingsStep, AppStep, ChainStep
<1>2. turns \in Nat /\ turns <= MaxTurns /\ (turns <= 1 => AppIInv) /\ MaxTurns \in Nat
  BY <1>1, ApplicationsAssumption DEF AppInv
<1>3. turns' = turns \/ (turns < MaxTurns /\ turns' = turns + 1)
  <2>1. CASE UNCHANGED appVars
    BY <2>1 DEF appVars
  <2>2. CASE Meanwhile
    BY <2>2 DEF Meanwhile, ProcessExits, JobStarts, ProcessExecs, ForegroundMoves, EditorTurns, Turn
  <2>3. CASE Reading
    BY <2>3 DEF Reading
  <2>4. AppNext /\ ~Meanwhile => Reading
    BY DEF AppNext, Meanwhile, LookAtWindow, ReadChild, through_terminal, TargetIsShell, StartWalk, Climb, ReadAgain,
           AskMode, AskMapping, ReadRows, SelectEndpoint, Inspecting
  <2> QED BY <1>1, <2>1, <2>2, <2>3, <2>4
<1>4. turns' \in Nat /\ turns' <= MaxTurns /\ turns <= turns'
  BY <1>2, <1>3
<1>5. turns' <= 1 => AppIInv'
  BY <1>1, <1>2, <1>4, AppKeeps
<1> QED BY <1>4, <1>5

\* Applications: the target that whykey follows had the foreground of the window, and what
\* the application layer says of its editor was so at some moment while it was read, if at
\* most one thing changes until then.
THEOREM AppIsRight == Spec => [](part = "app" /\ turns <= 1 => ApplicationIsSound)
<1>1. AppInv => (part = "app" /\ turns <= 1 => ApplicationIsSound)
  BY AppIsSound DEF AppInv
<1> QED BY <1>1, AppStarts, AppSteps, PTL DEF Spec

\* Applications: so it is in every inspection that sees no more than one change.
THEOREM AppIsSoundWithOneTurn == MaxTurns <= 1 => (Spec => []App_IsSound)
<1> SUFFICES ASSUME MaxTurns <= 1 PROVE Spec => []App_IsSound
  OBVIOUS
<1>1. AppInv => App_IsSound
  <2>1. AppInv /\ part = "app" => turns <= 1
    BY ApplicationsAssumption DEF AppInv
  <2> QED BY <2>1, AppIsSound DEF AppInv, App_IsSound
<1> QED BY <1>1, AppStarts, AppSteps, PTL DEF Spec

\* HyprBinds, CompositorConfigs: what whykey says of a key under a compositor is what the
\* compositor did with it while whykey asked, whatever the configurations, if the user
\* changes at most two things of a compositor other than Hyprland meanwhile.
THEOREM CompositorVerdictIsSound == MaxConfigChanges <= 2 => (Spec => []Compositor_VerdictIsSound)
<1> SUFFICES ASSUME MaxConfigChanges <= 2 PROVE Spec => []Compositor_VerdictIsSound
  OBVIOUS
<1>1. (part = "hyprland" => VerdictIsSound) /\ (part = "compositor" => ConfigVerdictIsSound)
          => Compositor_VerdictIsSound
  BY DEF Compositor_VerdictIsSound
<1> QED BY <1>1, HyprlandIsRight, CompositorsAreRight, PTL
=============================================================================
