------------------------------ MODULE SwayCapture ------------------------------
(***************************************************************************)
(* The Sway capture session (sway_capture.rs): i3-ipc frames arrive in     *)
(* pieces, a binding event carries no flag for press or release, and       *)
(* whykey asks the configuration that runs when it decodes the event.      *)
(***************************************************************************)
EXTENDS Integers, Sequences, SequencesExt, FiniteSets

CONSTANTS
    MaxStrokes, \* bound: key presses and releases
    MaxReloads  \* bound: configurations that replace the running one

ASSUME SwayCaptureAssumption == {MaxStrokes, MaxReloads} \subseteq Nat

VARIABLES
    swayConfig, \* bindings of the one key: their mode, trigger and effect
    swayMode, keyHeld, releases, \* the mode, the key, its release binding
    swayWire,   \* what Sway has written and whykey has not read
    swayBuffer, \* what it has read and not decoded
    happened,   \* the events, in the order they were sent
    swayShown,  \* the events as reported
    strokes, reloads,
    swayClosed

swayVars ==
    <<swayConfig, swayMode, keyHeld, releases, swayWire, swayBuffer, happened, swayShown, strokes, reloads, swayClosed>>

SwayModes == {"default", "lab"}
SwayBind == [mode : SwayModes, trigger : {"press", "release"}, to : SwayModes]
NoBind == [mode |-> "none", trigger |-> "none", to |-> "none"]

\* Of each mode and trigger at most one binding.
SwayConfigs ==
    {c \in SUBSET SwayBind :
        \A x, y \in c : x # y => x.mode # y.mode \/ x.trigger # y.trigger}

BoundIn(mode, trigger) == {b \in swayConfig : b.mode = mode /\ b.trigger = trigger}

\* A frame: the magic, the kind with the length, the payload.
SwayFrame(kind, payload) == <<"magic", kind, payload>>
SwayEvent(b) == [trigger |-> b.trigger, changed |-> b.mode # swayMode, ambiguous |-> BoundIn(b.mode, "press") # {}]

SwayInit ==
    /\ swayConfig \in SwayConfigs /\ swayMode = "default" /\ keyHeld = FALSE /\ releases = NoBind
    \* send_subscribe, and Sway's reply to it.
    /\ swayWire = SwayFrame("subscribe", [trigger |-> "none", changed |-> FALSE, ambiguous |-> FALSE])
    /\ swayBuffer = <<>> /\ happened = <<>> /\ swayShown = <<>> /\ strokes = 0 /\ reloads = 0 /\ swayClosed = FALSE

-----------------------------------------------------------------------------
(* External: Sway.                                                         *)
Whykey == UNCHANGED <<swayBuffer, swayShown, swayClosed>>

\* Events not yet decoded when the mode or the configuration changes.
Overtaken(events) ==
    [i \in DOMAIN events |-> IF i > Len(swayShown) THEN [events[i] EXCEPT !.changed = TRUE] ELSE events[i]]

\* The binding runs: its event is sent and its mode is entered.
Execute(b) ==
    LET events == Append(happened, SwayEvent(b)) IN
    /\ happened' = (IF b.to # swayMode THEN Overtaken(events) ELSE events)
    /\ swayMode' = b.to
    /\ swayWire' = swayWire \o SwayFrame("binding", b.trigger)

Stroke == strokes < MaxStrokes /\ strokes' = strokes + 1 /\ UNCHANGED <<swayConfig, reloads>> /\ Whykey

\* The release binding is the one of the mode the key is pressed in.
PressKey ==
    /\ ~keyHeld /\ keyHeld' = TRUE /\ Stroke
    /\ releases' = (IF BoundIn(swayMode, "release") = {} THEN NoBind ELSE CHOOSE b \in BoundIn(swayMode, "release") : TRUE)
    /\ \/ \E b \in BoundIn(swayMode, "press") : Execute(b)
       \/ BoundIn(swayMode, "press") = {} /\ UNCHANGED <<swayMode, swayWire, happened>>

ReleaseKey ==
    /\ keyHeld /\ keyHeld' = FALSE /\ releases' = NoBind /\ Stroke
    /\ \/ releases # NoBind /\ Execute(releases)
       \/ releases = NoBind /\ UNCHANGED <<swayMode, swayWire, happened>>

Reload ==
    /\ reloads < MaxReloads /\ reloads' = reloads + 1
    /\ swayConfig' \in SwayConfigs \ {swayConfig} /\ swayMode' = "default" /\ happened' = Overtaken(happened)
    /\ releases' = NoBind /\ UNCHANGED <<keyHeld, swayWire, strokes>> /\ Whykey

-----------------------------------------------------------------------------
Sway == UNCHANGED <<swayConfig, swayMode, keyHeld, releases, happened, strokes, reloads>>

\* read_incoming: any part of what was sent.
ReadIncoming ==
    /\ ~swayClosed /\ Sway /\ UNCHANGED <<swayShown, swayClosed>>
    /\ \E n \in DOMAIN swayWire :
          swayBuffer' = swayBuffer \o SubSeq(swayWire, 1, n) /\ swayWire' = SubSeq(swayWire, n + 1, Len(swayWire))

\* Mutant of ReleaseFlag: a press binding of the same trigger is ignored.
AnyReleaseBind == BoundIn(swayMode, "release") # {}

\* release_flag_in: whether only release bindings of the active mode match;
\* without one that matches the event counts as a press.
ReleaseFlag == BoundIn(swayMode, "release") # {} /\ BoundIn(swayMode, "press") = {}

FrameLength == 3

\* parse_event: other frames are skipped, one event is decoded a time.
ParseEvent ==
    /\ ~swayClosed /\ Sway /\ UNCHANGED <<swayWire, swayClosed>>
    /\ Len(swayBuffer) >= FrameLength /\ swayBuffer[1] = "magic"
    /\ swayBuffer' = SubSeq(swayBuffer, FrameLength + 1, Len(swayBuffer))
    /\ swayShown' = (IF swayBuffer[2] = "binding" THEN Append(swayShown, IF ReleaseFlag THEN "release" ELSE "press") ELSE swayShown)

\* An invalid header ends the session, as does whykey.
CloseSway ==
    /\ ~swayClosed /\ swayClosed' = TRUE /\ Sway /\ UNCHANGED <<swayWire, swayBuffer, swayShown>>

SwayNext == PressKey \/ ReleaseKey \/ Reload \/ ReadIncoming \/ ParseEvent \/ CloseSway

SwaySpec == SwayInit /\ [][SwayNext]_swayVars

-----------------------------------------------------------------------------
\* Each event is reported once and in order, as the press or the release that
\* ran the binding, and none is left behind once everything was decoded. Not
\* counted: the trigger of events overtaken by a change of mode or of the
\* configuration, and that of releases of a key that is also bound on press.
SwayReportsAreRight ==
    /\ Len(swayShown) <= Len(happened)
    /\ \A i \in DOMAIN swayShown :
          ~happened[i].changed /\ ~(happened[i].trigger = "release" /\ happened[i].ambiguous) => swayShown[i] = happened[i].trigger
    /\ swayWire = <<>> /\ Len(swayBuffer) < FrameLength => swayBuffer = <<>> /\ Len(swayShown) = Len(happened)

=============================================================================
