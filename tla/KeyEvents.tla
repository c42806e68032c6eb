------------------------------ MODULE KeyEvents ------------------------------
(***************************************************************************)
(* The key events of a suppressing Hyprland capture session                *)
(* (src/hyprland_capture.rs): which keys it believes are held, when it     *)
(* calls a chord released, and how it reads a key while virtual keyboards  *)
(* with keymaps of their own are about.                                    *)
(*                                                                         *)
(* Hyprland writes lines to `stream` (the event socket), the session moves *)
(* them to `buffer` and takes them one by one.  A key is a keyboard and a  *)
(* keycode; a line says the keycode only: `from` is not for the session.   *)
(***************************************************************************)
EXTENDS Integers, Sequences, SequencesExt

CONSTANTS
    Virtuals,        \* virtual keyboards with foreign keymaps
    Physical,        \* the keyboard with whose layout keys are read
    Codes,           \* keycodes of the physical keyboard
    MaxEvents,       \* bound: presses and attachments
    MaxArms,         \* bound: arms
    MaxQueryFaults   \* bound: `hyprctl devices` that fail

ASSUME KeyAssumption ==
    /\ {Physical, "none"} \cap Virtuals = {}
    /\ {"letter"} \subseteq Codes /\ Codes \subseteq {"letter", "lock", "ctrl", "altgr"}
    /\ {MaxEvents, MaxArms, MaxQueryFaults} \subseteq Nat

VARIABLES
    attached,   \* virtual keyboards that are attached
    lastUsed,   \* the keyboard `hyprctl devices` calls main
    down,       \* keys that are down
    hook,       \* the Lua hook is installed
    stream,     \* lines in the socket
    buffer,     \* lines the session has read
    pc,         \* what the session does
    held,       \* held_keys
    mask,       \* current_modifier_mask
    main,       \* the keycode that was captured
    dirty,      \* keyboard_state_dirty
    source,     \* sources.virtual_source
    misread,    \* keys of virtual keyboards read by the physical layout:
                \* whether the session had the keyboard's announcement
    forgotten,  \* keyboards whose announcement the session does not have
    stranded,   \* keycodes in held_keys when the hook was last removed
    events, arms, queryFaults

worldVars == <<attached, lastUsed, down, events>>
heldVars == <<held, mask>>
vars == <<worldVars, hook, stream, buffer, pc, heldVars, main, dirty, source, misread,
          forgotten, stranded, arms, queryFaults>>

Keyboards == Virtuals \cup {Physical}

\* A virtual keyboard types what its client wants, with ordinary keycodes.
Keys == (Virtuals \X {"letter"}) \cup ({Physical} \X Codes)

\* The modifier the hook sees in a key that is down, and the one that
\* evdev_modifier takes the keycode for: the right Alt key is AltGr
\* (ISO_Level3_Shift) in many layouts.
HookModifier == [c \in {"ctrl", "altgr"} |-> IF c = "ctrl" THEN "ctrl" ELSE "level3"]
OwnModifier == [c \in {"ctrl", "altgr"} |-> IF c = "ctrl" THEN "ctrl" ELSE "alt"]
Modifiers == {"ctrl", "alt", "level3"}
IsModifier(code) == code \in DOMAIN OwnModifier
ModifiersDown == {HookModifier[k[2]] : k \in {d \in down : IsModifier(d[2])}}

NotDetached == -1
NoSource == [name |-> "none", queued |-> NotDetached]
SourceOf(v) == [name |-> v, queued |-> NotDetached]

Lines == [kind : {"press", "release"}, code : Codes, from : Keyboards, mask : SUBSET Modifiers]
         \cup [kind : {"activelayout"}, from : Virtuals] \cup [kind : {"armed"}]

\* on_inventory without a source: a virtual keyboard that was used last.
MainIfForeign == IF lastUsed \in Virtuals THEN SourceOf(lastUsed) ELSE NoSource

\* connect refreshes the keyboard state once.
Init ==
    /\ attached \in SUBSET Virtuals
    /\ lastUsed \in attached \cup {Physical}
    /\ down = {} /\ events = 0
    /\ hook = FALSE /\ stream = <<>> /\ buffer = <<>>
    /\ pc = "closed" /\ arms = 0
    /\ held = {} /\ mask = {} /\ main = "none"
    /\ dirty = FALSE /\ source = MainIfForeign
    /\ misread = {}
    /\ forgotten = attached \ {lastUsed}
    /\ stranded = {} /\ queryFaults = 0

-----------------------------------------------------------------------------
(* The keyboards.  The hook sends a line for every key, with the modifiers *)
(* of before the event; Hyprland announces the keymap of a new keyboard.   *)
Emits(line) == stream' = Append(stream, line)

KeyEmits(kind, k) ==
    IF hook
    THEN Emits([kind |-> kind, code |-> k[2], from |-> k[1], mask |-> ModifiersDown])
    ELSE UNCHANGED stream

Happens == events < MaxEvents /\ events' = events + 1

Press(k) ==
    /\ k[1] \in attached \cup {Physical} /\ k \notin down
    /\ Happens
    /\ down' = down \cup {k}
    /\ lastUsed' = k[1]
    /\ KeyEmits("press", k)
    /\ UNCHANGED attached

Release(k) ==
    /\ k \in down
    /\ down' = down \ {k}
    /\ KeyEmits("release", k)
    /\ UNCHANGED <<attached, lastUsed, events>>

Attach(v) ==
    /\ v \notin attached
    /\ Happens
    /\ attached' = attached \cup {v}
    /\ Emits([kind |-> "activelayout", from |-> v])
    /\ UNCHANGED <<lastUsed, down>>

Detach(v) ==
    /\ v \in attached /\ <<v, "letter">> \notin down
    /\ attached' = attached \ {v}
    /\ lastUsed' = IF lastUsed = v THEN Physical ELSE lastUsed
    /\ UNCHANGED <<down, events, stream>>

World ==
    /\ pc # "over" /\ (pc = "closed" => arms < MaxArms)
    /\ \/ \E k \in Keys : Press(k) \/ Release(k)
       \/ \E v \in Virtuals : Attach(v) \/ Detach(v)
    /\ UNCHANGED <<hook, buffer, pc, heldVars, main, dirty, source, misread, forgotten,
                   stranded, arms, queryFaults>>

-----------------------------------------------------------------------------
(* arm: the install script runs; then every line up to its "armed" is      *)
(* thrown away, without a look at it and without sources.consumed.         *)
Install ==
    /\ pc = "closed"
    /\ arms < MaxArms
    /\ arms' = arms + 1
    /\ hook' = TRUE
    /\ Emits([kind |-> "armed"])
    /\ pc' = "arming"
    /\ UNCHANGED <<worldVars, buffer, heldVars, main, dirty, source, misread, forgotten,
                   stranded, queryFaults>>

Announced(lines) == {v \in Virtuals : [kind |-> "activelayout", from |-> v] \in ToSet(lines)}

Armed ==
    /\ pc = "arming"
    /\ LET lines == buffer \o stream
           end == SelectInSeq(lines, LAMBDA line : line.kind = "armed")
       IN  /\ buffer' = SubSeq(lines, end + 1, Len(lines))
           /\ forgotten' = forgotten \cup Announced(SubSeq(lines, 1, end))
    /\ stream' = <<>>
    /\ pc' = "listen"
    /\ UNCHANGED <<worldVars, hook, heldVars, main, dirty, source, misread, stranded, arms,
                   queryFaults>>

\* read_incoming
ReadIncoming ==
    /\ pc \in {"listen", "chord"}
    /\ stream # <<>>
    /\ buffer' = buffer \o stream
    /\ stream' = <<>>
    /\ UNCHANGED <<worldVars, hook, pc, heldVars, main, dirty, source, misread, forgotten,
                   stranded, arms, queryFaults>>

-----------------------------------------------------------------------------
(* KeyboardSources, as functions of the source.                            *)
\* consumed, in lines instead of bytes
Consumed == [source EXCEPT !.queued = IF @ > 0 THEN @ - 1 ELSE @]

HasLeft(src) ==
    src.name # NoSource.name /\ src.name \notin attached /\ src.queued = NotDetached

\* on_inventory and detached: `unread` lines may still be the keyboard's own.
OnInventory(src, unread) ==
    IF HasLeft(src) THEN [src EXCEPT !.queued = unread]
    ELSE IF src = NoSource THEN MainIfForeign ELSE src

\* Mutant: a keyboard is forgotten as soon as it has left.
SettledAtOnce(src) == IF src.queued # NotDetached THEN NoSource ELSE src

\* settle: ... once nothing that was queued by then is left.
Settled(src) == IF src.queued = 0 THEN NoSource ELSE src

\* on_active_layout; the session has room for one source.
Noticed(line) ==
    /\ source' = SourceOf(line.from)
    /\ dirty' = TRUE
    /\ forgotten' = (forgotten \cup ({source.name} \cap Virtuals)) \ {line.from}

\* Mutant: the modifiers as the hook sent them.
HeldModifiersBefore(line) == line.mask

\* held_modifiers_after: the event's own transition applied to its mask
HeldModifiersAfter(line) ==
    IF ~IsModifier(line.code) THEN line.mask
    ELSE IF line.kind = "press" THEN line.mask \cup {OwnModifier[line.code]}
    ELSE line.mask \ {OwnModifier[line.code]}

TracksKey(line) ==
    /\ mask' = HeldModifiersAfter(line)
    /\ held' = IF line.kind = "press" THEN held \cup {line.code} ELSE held \ {line.code}

IsKey(line) == line.kind \in {"press", "release"}
IsCapture(line) == line.kind = "press" /\ line.code = "letter"

-----------------------------------------------------------------------------
(* next_observed_event, one line of it.                                    *)
TakeLayout ==
    /\ pc = "listen" /\ buffer # <<>> /\ Head(buffer).kind = "activelayout"
    /\ Noticed(Head(buffer))
    /\ buffer' = Tail(buffer)
    /\ UNCHANGED <<worldVars, hook, stream, pc, heldVars, main, misread, stranded, arms,
                   queryFaults>>

\* refresh_keyboard_state is due; `hyprctl devices` may fail.
Refreshes(line) == dirty \/ line.code = "lock" \/ source # NoSource

QueryFails == queryFaults < MaxQueryFaults /\ queryFaults' = queryFaults + 1

\* The event is decoded with the source as it is after the refresh, which
\* reads whatever is in the socket when it finds that the source has left.
Decodes(line, answered) ==
    LET unread == Tail(buffer) \o stream
        current == IF answered THEN OnInventory(Consumed, Len(unread)) ELSE Consumed
        drains == answered /\ HasLeft(Consumed)
    IN  /\ misread' = IF line.from \in Virtuals /\ current = NoSource
                      THEN misread \cup {line.from \notin forgotten} ELSE misread
        /\ source' = Settled(current)
        /\ buffer' = IF drains THEN unread ELSE Tail(buffer)
        /\ stream' = IF drains THEN <<>> ELSE stream

TakeKey ==
    /\ pc = "listen" /\ buffer # <<>> /\ IsKey(Head(buffer))
    /\ LET line == Head(buffer) IN
       /\ TracksKey(line)
       /\ \/ Refreshes(line) /\ Decodes(line, TRUE) /\ UNCHANGED queryFaults
          \/ Refreshes(line) /\ Decodes(line, FALSE) /\ QueryFails
          \/ ~Refreshes(line) /\ Decodes(line, FALSE) /\ UNCHANGED queryFaults
       /\ dirty' = FALSE
       /\ IF IsCapture(line) THEN pc' = "chord" /\ main' = line.code
                             ELSE UNCHANGED <<pc, main>>
    /\ UNCHANGED <<worldVars, hook, forgotten, stranded, arms>>

\* drain_buffer_events, one line of it: no refresh, no decoding, no settling
Drain ==
    /\ pc = "chord" /\ buffer # <<>>
    /\ LET line == Head(buffer) IN
       \/ IsKey(line) /\ TracksKey(line) /\ source' = Consumed
          /\ UNCHANGED <<dirty, forgotten>>
       \/ line.kind = "activelayout" /\ Noticed(line) /\ UNCHANGED heldVars
    /\ buffer' = Tail(buffer)
    /\ UNCHANGED <<worldVars, hook, stream, pc, main, misread, stranded, arms, queryFaults>>

\* Mutant: the confirmation does not look at the modifiers.
ConfirmedKeys == held = {}

\* chord_release_confirmed
ChordReleaseConfirmed == main \notin held /\ held = {} /\ mask = {}

\* The session is closed, and a report written.
Confirm ==
    /\ pc = "chord" /\ buffer = <<>>
    /\ ChordReleaseConfirmed
    /\ hook' = FALSE
    /\ pc' = "closed"
    /\ UNCHANGED <<worldVars, stream, buffer, heldVars, main, dirty, source, misread,
                   forgotten, stranded, arms, queryFaults>>

\* No confirmation in time ends whykey.
ChordTimesOut ==
    /\ pc = "chord" /\ buffer = <<>>
    /\ ~ChordReleaseConfirmed
    /\ hook' = FALSE
    /\ pc' = "over"
    /\ UNCHANGED <<worldVars, stream, buffer, heldVars, main, dirty, source, misread,
                   forgotten, stranded, arms, queryFaults>>

\* SIGTSTP while nothing is captured: closed, whatever is unread, and armed
\* again later.
CloseToStop ==
    /\ pc = "listen"
    /\ hook' = FALSE
    /\ stranded' = held
    /\ pc' = "closed"
    /\ UNCHANGED <<worldVars, stream, buffer, heldVars, main, dirty, source, misread,
                   forgotten, arms, queryFaults>>

Session ==
    \/ Install \/ Armed \/ ReadIncoming \/ TakeLayout \/ TakeKey
    \/ Drain \/ Confirm \/ ChordTimesOut \/ CloseToStop

Next == World \/ Session

Spec == Init /\ [][Next]_vars

-----------------------------------------------------------------------------
(* Types.                                                                  *)
TypeOK ==
    /\ attached \subseteq Virtuals /\ lastUsed \in Keyboards /\ down \subseteq Keys
    /\ {hook, dirty} \subseteq BOOLEAN /\ mask \subseteq Modifiers
    /\ stream \in Seq(Lines) /\ buffer \in Seq(Lines)
    /\ pc \in {"closed", "arming", "listen", "chord", "over"}
    /\ held \subseteq Codes /\ main \in Codes \cup {"none"} /\ stranded \subseteq Codes
    /\ source \in [name : Virtuals, queued : Nat \cup {NotDetached}] \cup {NoSource}
    /\ misread \subseteq BOOLEAN /\ forgotten \subseteq Virtuals
    /\ events \in 0 .. MaxEvents /\ arms \in 0 .. MaxArms
    /\ queryFaults \in 0 .. MaxQueryFaults

\* The key of a virtual keyboard is read with the physical layout only if
\* the session has no announcement of that keyboard: made before connect,
\* thrown away by arm, or displaced by another's.  In particular a keyboard
\* that has left is remembered until its last queued key is decoded.
ForeignIsNotMisread == TRUE \notin misread

\* When all keys are up and every line has been read, the chord is
\* confirmed, unless a key was believed held when the hook was removed.  The
\* modifiers are those whose keycode says which modifier they are.
NothingStaysHeld ==
    "altgr" \notin Codes /\ pc = "chord" /\ buffer \o stream = <<>> /\ down = {} =>
        held \subseteq stranded /\ mask = {}

\* A confirmation with nothing unread comes when no modifier is down.
ModifiersAreUp ==
    [][pc = "chord" /\ pc' = "closed" /\ stream = <<>> => ModifiersDown = {}]_vars

\* held_modifiers_after: "the chord-release wait would then never see the
\* modifiers let go (D-183).  The event's own transition is applied here."
ModifiersAreSeenLetGo ==
    pc = "chord" /\ buffer \o stream = <<>> /\ down = {} => mask = {}

=============================================================================
