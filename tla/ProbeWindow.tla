------------------------------ MODULE ProbeWindow ------------------------------
(***************************************************************************)
(* The probe window (src/probe/mod.rs, wayland.rs, x11.rs) and the chord   *)
(* tracker on top of it (src/listen/window.rs): a window of whykey's own   *)
(* that shows which keys a focused client receives.  Modifiers that are    *)
(* held and released without a key in between are reported as a key that   *)
(* was not delivered.                                                      *)
(***************************************************************************)
EXTENDS Integers, Sequences, SequencesExt

CONSTANTS
    ModKeys,      \* modifier keys: "lshift", "rshift", "ctrl"
    MaxInputs     \* bound: key presses and focus changes

ASSUME ProbeAssumption ==
    /\ ModKeys \subseteq {"lshift", "rshift", "ctrl"} /\ MaxInputs \in Nat

VARIABLES
    display,     \* WAYLAND_DISPLAY and DISPLAY: which of them are set
    probePc,     \* "closed", "globals", "configure", "map", "open", "failed"
    protocol,    \* the protocol of the window
    holds,       \* modifier keys that are down
    hasFocus,    \* the display server sends keys to the window
    hasKeyboard, \* the Wayland seat has a keyboard
    wire,        \* what the display server has sent
    focused,     \* the window's own view of its focus
    modmask,     \* its modifier state
    pending,     \* probe events that were not taken yet
    tracker,     \* ChordTracker: held, keySeen
    withheld,    \* what the last NotDelivered said; {} for another event
    inputs,
    chord,       \* history: modifiers held since all were up
    arrived,     \* history: a key came to the window meanwhile
    blurred      \* history: the focus moved, or two keys are one modifier

serverVars == <<holds, hasFocus, hasKeyboard, inputs, chord, arrived>>
openVars == <<display, probePc, protocol>>
clientVars == <<focused, modmask, pending, tracker, withheld>>
probeVars == <<serverVars, openVars, clientVars, wire, blurred>>

Displays == {"wayland", "x11"}
BitOf(key) == IF key \in {"lshift", "rshift"} THEN "shift" ELSE key
Bits(keys) == {BitOf(k) : k \in keys}

NoChord == [held |-> {}, keySeen |-> FALSE]

ProbeInit ==
    /\ display \in SUBSET Displays
    /\ probePc = "closed" /\ protocol = "none"
    /\ holds = {} /\ hasFocus = FALSE /\ hasKeyboard = TRUE
    /\ wire = <<>> /\ pending = <<>>
    /\ focused = FALSE /\ modmask = {}
    /\ tracker = NoChord /\ withheld = {}
    /\ inputs = 0 /\ chord = {} /\ arrived = FALSE /\ blurred = FALSE

-----------------------------------------------------------------------------
(* open_window.  A failure with Wayland leads to X11, if DISPLAY is set.   *)
FallsBack == IF "x11" \in display THEN "map" ELSE "failed"

OpenWindow ==
    /\ probePc = "closed"
    /\ IF "wayland" \in display THEN probePc' \in {"globals", FallsBack}
                                ELSE probePc' = FallsBack
    /\ UNCHANGED <<display, protocol, serverVars, clientVars, wire, blurred>>

\* The registry round trip and the four globals that are bound; then the
\* surface, its first commit and the round trip of the configure.
WaylandOpens ==
    /\ \/ probePc = "globals" /\ probePc' \in {"configure", FallsBack} /\ UNCHANGED protocol
       \/ probePc = "configure" /\ probePc' = FallsBack /\ UNCHANGED protocol
       \/ probePc = "configure" /\ probePc' = "open" /\ protocol' = "wayland"
    /\ UNCHANGED <<display, serverVars, clientVars, wire, blurred>>

\* The window is created, and mapped within MAP_TIMEOUT or not; events that
\* came meanwhile are deferred, and the focus is asked for.
X11Opens ==
    /\ probePc = "map"
    /\ \/ probePc' = "failed" /\ UNCHANGED <<protocol, focused>>
       \/ probePc' = "open" /\ protocol' = "x11" /\ focused' = hasFocus
    /\ UNCHANGED <<display, serverVars, modmask, pending, tracker, withheld, wire, blurred>>

-----------------------------------------------------------------------------
(* The user and the display server.                                        *)
WindowIsOpen == probePc = "open"
Input == inputs < MaxInputs /\ inputs' = inputs + 1
Focused == hasFocus /\ hasKeyboard

KeyEvent(key, press, ended) ==
    [kind |-> "key", key |-> key, press |-> press, state |-> Bits(holds), ended |-> ended]
Mask(keys, ended) == [kind |-> "modifiers", mask |-> Bits(keys), ended |-> ended]

\* Whether everything that was sent has been read, and no chord is going on.
Quiet == wire = <<>> /\ pending = <<>> /\ holds = {} /\ tracker.held = {}

\* X11: the focus has come, and the window has not asked for the modifiers.
AsksLate == protocol = "x11" /\ \E i \in DOMAIN wire : wire[i].kind = "enter"

\* What a chord that ends was, as the properties have it: its modifiers,
\* unless a key arrived.
Ended(keys) == IF keys = {} /\ chord # {} /\ ~arrived THEN chord ELSE {}

ChordGoesOn(keys) ==
    /\ chord' = IF keys = {} THEN {} ELSE chord \cup Bits(keys)
    /\ arrived' = IF keys = {} THEN FALSE ELSE arrived

\* A Wayland compositor sends the key and then the modifiers; an X11 key
\* event has the state of before.  `ended` is for the properties.
ModifierGoes(key) ==
    LET press == key \notin holds
        now == IF press THEN holds \cup {key} ELSE holds \ {key}
        twin == \E k \in holds \ {key} : BitOf(k) = BitOf(key)
    IN  /\ IF press THEN Input ELSE UNCHANGED inputs
        /\ holds' = now
        /\ ChordGoesOn(now)
        /\ blurred' = ((blurred /\ ~Quiet) \/ twin \/ AsksLate)
        /\ wire' = IF ~Focused THEN wire
                   ELSE wire \o <<KeyEvent(key, press, Ended(now))>>
                        \o IF protocol = "wayland" THEN <<Mask(now, Ended(now))>> ELSE <<>>

\* A key is delivered, or taken by a binding of the compositor.
LetterTapped ==
    /\ Input
    /\ \/ UNCHANGED <<wire, arrived>>
       \/ Focused /\ arrived' = (holds # {})
          /\ wire' = wire \o <<KeyEvent("letter", TRUE, {}), KeyEvent("letter", FALSE, {})>>
    /\ UNCHANGED <<holds, chord, blurred>>

\* Wayland sends the modifiers with the focus.
FocusMoves ==
    /\ hasKeyboard /\ Input
    /\ hasFocus' = ~hasFocus
    /\ blurred' = ((blurred /\ ~Quiet) \/ holds # {} \/ (protocol = "x11" /\ wire # <<>>))
    /\ wire' = Append(wire, [kind |-> IF hasFocus' THEN "enter" ELSE "leave"])
               \o IF hasFocus' /\ protocol = "wayland" THEN <<Mask(holds, {})>> ELSE <<>>
    /\ UNCHANGED <<holds, chord, arrived, hasKeyboard>>

\* The last keyboard of the seat goes, and comes back; without a leave.
SeatChanges ==
    /\ protocol = "wayland" /\ Input
    /\ hasKeyboard' = ~hasKeyboard /\ hasFocus' = FALSE
    /\ holds' = {} /\ ChordGoesOn({})
    /\ blurred' = ((blurred /\ ~Quiet) \/ holds # {})
    /\ wire' = Append(wire, [kind |-> IF hasKeyboard' THEN "gained" ELSE "lost"])

ServerGoes ==
    /\ WindowIsOpen
    /\ \/ \E k \in ModKeys : hasKeyboard /\ ModifierGoes(k) /\ UNCHANGED <<hasFocus, hasKeyboard>>
       \/ hasKeyboard /\ LetterTapped /\ UNCHANGED <<hasFocus, hasKeyboard>>
       \/ FocusMoves
       \/ SeatChanges
    /\ UNCHANGED <<openVars, clientVars>>

-----------------------------------------------------------------------------
(* The window: one event of the display server at a time.                  *)
Probe(kind, mask, ended) == [kind |-> kind, mask |-> mask, ended |-> ended]

\* The state after the event, if its key is a modifier.
StateAfter(event) ==
    IF event.key = "letter" THEN event.state
    ELSE IF event.press THEN event.state \cup {BitOf(event.key)}
    ELSE event.state \ {BitOf(event.key)}

KeyKind(event) ==
    IF ~event.press THEN "release" ELSE IF event.key = "letter" THEN "press" ELSE "modifier"

\* X11Window::handle: a key event, and a modifiers event if it is a modifier
X11Key(event) ==
    /\ pending' = pending \o <<Probe(KeyKind(event), event.state, {})>>
                  \o IF event.key = "letter" THEN <<>>
                     ELSE <<Probe("modifiers", StateAfter(event), event.ended)>>
    /\ modmask' = StateAfter(event)
    /\ UNCHANGED focused

\* ... the focus is there: the modifiers are asked for, as they are now.
X11Enter ==
    /\ focused' = TRUE
    /\ modmask' = Bits(holds)
    /\ pending' = IF Bits(holds) = modmask THEN pending
                  ELSE Append(pending, Probe("modifiers", Bits(holds), {}))

X11Handle(event) ==
    \/ event.kind = "key" /\ X11Key(event)
    \/ event.kind = "enter" /\ X11Enter
    \/ event.kind = "leave" /\ focused' = FALSE /\ UNCHANGED <<modmask, pending>>

\* The wl_keyboard and wl_seat handlers
WaylandHandle(event) ==
    \/ /\ event.kind = "key"
       /\ pending' = Append(pending, Probe(KeyKind(event), modmask, {}))
       /\ UNCHANGED <<focused, modmask>>
    \/ /\ event.kind = "modifiers"
       /\ modmask' = event.mask
       /\ pending' = Append(pending, Probe("modifiers", event.mask, event.ended))
       /\ UNCHANGED focused
    \/ /\ event.kind \in {"enter", "leave", "gained", "lost"}
       /\ focused' = IF event.kind = "gained" THEN focused ELSE event.kind = "enter"
       /\ UNCHANGED <<modmask, pending>>

Handle ==
    /\ WindowIsOpen /\ pending = <<>> /\ wire # <<>>
    /\ IF protocol = "x11" THEN X11Handle(Head(wire)) ELSE WaylandHandle(Head(wire))
    /\ wire' = Tail(wire)
    /\ withheld' = {}
    /\ UNCHANGED <<serverVars, openVars, tracker, blurred>>

\* Mutant: a key of before the chord counts.
KeepsKeySeen(active) == [held |-> tracker.held \cup active, keySeen |-> tracker.keySeen]

\* The modifiers that are held since all were released; a key of before
\* the first of them does not count.
Accumulates(active) ==
    [held |-> tracker.held \cup active,
     keySeen |-> tracker.held # {} /\ tracker.keySeen]

\* ChordTracker::observe
Observe ==
    /\ pending # <<>>
    /\ LET event == Head(pending) IN
       CASE event.kind = "press" ->
              tracker' = [tracker EXCEPT !.keySeen = TRUE] /\ withheld' = {}
         [] event.kind \in {"modifier", "release"} -> withheld' = {} /\ UNCHANGED tracker
         [] event.kind = "modifiers" /\ event.mask # {} ->
              tracker' = Accumulates(event.mask) /\ withheld' = {}
         [] OTHER ->
              /\ tracker' = NoChord
              /\ withheld' = IF tracker.keySeen THEN {} ELSE tracker.held
    /\ pending' = Tail(pending)
    /\ UNCHANGED <<serverVars, openVars, wire, focused, modmask, blurred>>

ProbeNext == OpenWindow \/ WaylandOpens \/ X11Opens \/ ServerGoes \/ Handle \/ Observe

ProbeSpec == ProbeInit /\ [][ProbeNext]_probeVars

-----------------------------------------------------------------------------
\* A chord is reported as not delivered exactly when it ended without a key
\* having reached the window, and with the modifiers it had; as long as the
\* focus stays and no modifier is held with two keys.
NamesTheChord ==
    pending # <<>> /\ pending' = Tail(pending) /\ ~blurred => withheld' = Head(pending).ended
WithheldIsExact == [][NamesTheChord]_probeVars

=============================================================================
