----------------------------- MODULE EvdevSession -----------------------------
(***************************************************************************)
(* The evdev capture session (src/listen/evdev.rs): the keyboards it has   *)
(* open, the modifiers it believes each of them holds, and one call of     *)
(* read_key_event after the other, against keyboards that are used, are    *)
(* plugged and unplugged, and overflow their event queues.                 *)
(***************************************************************************)
EXTENDS Integers, Sequences, SequencesExt, FiniteSets

CONSTANTS
    Paths,         \* device paths, as numbers: the order of the names
    ModCodes,      \* keycodes that are modifiers, none of them a lock
    QueueSize,     \* the kernel's event queue of one open file
    MaxKeyEvents,  \* bound: presses and releases
    MaxPlugs       \* bound: keyboards plugged in or out

ASSUME EvdevAssumption ==
    /\ Paths \subseteq Nat /\ IsFiniteSet(Paths) /\ "letter" \notin ModCodes
    /\ QueueSize \in Nat \ {0, 1} /\ {MaxKeyEvents, MaxPlugs} \subseteq Nat

VARIABLES
    plugged,    \* paths at which a keyboard is present
    keysDown,   \* the kernel's state: keys held on each keyboard
    queued,     \* the event queue of the session's file
    unplugged,  \* open files whose keyboard is gone
    requested,  \* the session was opened for one --device
    includes,   \* include_modifiers: every key event is reported
    devices,    \* the session's devices, in its order
    pressed,    \* pressed_modifiers of each device
    resync,     \* devices with resync_required
    ready,      \* what is left of a call: devices that poll returned, in their order
    failing,    \* devices that this call found disconnected
    evdevPc,    \* "idle", "reading" or "over"
    shown,      \* the modifiers of the last key that was reported
    keyEvents, plugs

kernelVars == <<plugged, keysDown, keyEvents, plugs>>
deviceVars == <<devices, pressed, resync, queued, unplugged>>
callVars == <<ready, failing, evdevPc, shown>>
optionVars == <<requested, includes>>
evdevVars == <<kernelVars, deviceVars, callVars, optionVars>>

Down == [kind : {"down", "up"}, code : ModCodes \cup {"letter"}]
SynReport == [kind |-> "report"]      \* SYN_REPORT
Dropped == [kind |-> "dropped"]     \* SYN_DROPPED
IsDown(event) == event.kind \in {"down", "up"}
IsOpen(path) == path \in ToSet(devices)

\* The arrangement of a finite set of numbers in ascending order, as the only member of a
\* set; and what a sequence has at some of its places.
InOrder(numbers) ==
    {s \in [1 .. Cardinality(numbers) -> numbers] : \A i, j \in DOMAIN s : i < j => s[i] < s[j]}
Selected(seq, places) == {[k \in DOMAIN s |-> seq[s[k]]] : s \in InOrder(places)}

\* Every keyboard at a path, opened afresh: the snapshot of its modifiers.
Snapshot(path) == keysDown[path] \cap ModCodes

EvdevInit ==
    /\ plugged \in SUBSET Paths \ {{}}
    /\ requested \in BOOLEAN /\ includes \in BOOLEAN
    /\ keysDown \in [Paths -> SUBSET ModCodes]
    /\ \A p \in Paths \ plugged : keysDown[p] = {}
    /\ devices \in (IF requested THEN {<<p>> : p \in plugged} ELSE InOrder(plugged))
    /\ pressed = [p \in Paths |-> Snapshot(p)]
    /\ resync = {} /\ unplugged = {}
    /\ queued = [p \in Paths |-> <<>>]
    /\ ready = {} /\ failing = {} /\ evdevPc = "idle" /\ shown = {}
    /\ keyEvents = 0 /\ plugs = 0

-----------------------------------------------------------------------------
(* The kernel.  A key event is followed by a SYN_REPORT; an event that     *)
(* finds the queue full empties it, and leaves SYN_DROPPED and itself.     *)
Pushed(queue, event) ==
    IF Len(queue) < QueueSize THEN Append(queue, event) ELSE <<Dropped, event>>

Delivers(path, event) ==
    queued' = IF IsOpen(path) /\ path \notin unplugged
              THEN [queued EXCEPT ![path] = Pushed(Pushed(@, event), SynReport)]
              ELSE queued

KeyGoes(path, kind, code) ==
    /\ path \in plugged
    /\ keyEvents < MaxKeyEvents
    /\ keyEvents' = keyEvents + 1
    /\ (kind = "up") = (code \in keysDown[path])
    /\ keysDown' = [keysDown EXCEPT ![path] =
                      IF kind = "down" THEN @ \cup {code} ELSE @ \ {code}]
    /\ Delivers(path, [kind |-> kind, code |-> code])
    /\ UNCHANGED <<plugged, plugs, devices, pressed, resync, unplugged, callVars, optionVars>>

Unplug(path) ==
    /\ path \in plugged /\ plugs < MaxPlugs
    /\ plugged' = plugged \ {path} /\ plugs' = plugs + 1
    /\ keysDown' = [keysDown EXCEPT ![path] = {}]
    /\ unplugged' = IF IsOpen(path) THEN unplugged \cup {path} ELSE unplugged
    /\ UNCHANGED <<keyEvents, devices, pressed, resync, queued, callVars, optionVars>>

Plug(path) ==
    /\ path \notin plugged /\ plugs < MaxPlugs
    /\ plugged' = plugged \cup {path} /\ plugs' = plugs + 1
    /\ UNCHANGED <<keysDown, keyEvents, deviceVars, callVars, optionVars>>

-----------------------------------------------------------------------------
(* maybe_add_hotplugged_devices: every path that is not open, at the end,  *)
(* in the order of the names.  An open file of a keyboard that is gone     *)
(* hides a new one at its path.                                            *)
Hotplugged(have) == InOrder(plugged \ ToSet(have))

\* The scan is made once a second, and never for a requested device.
ScansDue(have) == {have} \cup (IF requested THEN {} ELSE {have \o new : new \in Hotplugged(have)})

Opens(have, now) ==
    LET new == ToSet(now) \ ToSet(have)
    IN  /\ devices' = now
        /\ pressed' = [p \in Paths |-> IF p \in new THEN Snapshot(p) ELSE pressed[p]]
        /\ resync' = resync \ new
        /\ queued' = [p \in Paths |-> IF p \in new THEN <<>> ELSE queued[p]]
        /\ unplugged' = unplugged \cap ToSet(have)

HasNews(path) == queued[path] # <<>> \/ path \in unplugged

\* The scan and poll.
BeginRead ==
    /\ evdevPc = "idle"
    /\ \E now \in ScansDue(devices) : Opens(devices, now)
    /\ ready' = {p \in ToSet(devices') : HasNews(p)'}
    /\ ready' # {} \/ devices' # devices
    /\ evdevPc' = IF ready' = {} THEN "idle" ELSE "reading"
    /\ failing' = {}
    /\ UNCHANGED <<kernelVars, shown, optionVars>>

\* Mutant: a device that recovers keeps the modifiers it had.
KeepsModifiers(path) == UNCHANGED <<pressed, queued>>

NoKeys(events) == Selected(events, {i \in DOMAIN events : ~IsDown(events[i])})

\* refresh_device_modifiers: EVIOCGKEY takes the key events that are still
\* queued out of the queue of this file.
RefreshDeviceModifiers(path) ==
    /\ pressed' = [pressed EXCEPT ![path] = Snapshot(path)]
    /\ \E rest \in NoKeys(Tail(queued[path])) : queued' = [queued EXCEPT ![path] = rest]

Applies(path, event) == IsDown(event) /\ path \notin resync

\* current_modifiers: whichever keyboard they are held on
CurrentModifiers(now) == UNION {now[p] : p \in ToSet(devices)}

\* Presses of other keys, or everything.
Reported(event) == includes \/ (event.code \notin ModCodes /\ event.kind = "down")

\* The first of the ready devices.
IsNext(path) ==
    \E i \in DOMAIN devices :
        devices[i] = path /\ path \in ready /\ \A j \in 1 .. i - 1 : devices[j] \notin ready

\* One event of the next ready device: at most one per call, and the call
\* ends with the first key that is reported.
ReadOne(path) ==
    /\ evdevPc = "reading" /\ IsNext(path)
    /\ IF path \in unplugged
       THEN /\ failing' = failing \cup {path} /\ ready' = ready \ {path}
            /\ UNCHANGED <<queued, pressed, resync, shown>>
       ELSE LET event == Head(queued[path])
            IN  /\ UNCHANGED failing
                /\ IF event.kind = "report" /\ path \in resync
                   THEN RefreshDeviceModifiers(path) /\ resync' = resync \ {path}
                   ELSE /\ queued' = [queued EXCEPT ![path] = Tail(@)]
                        /\ resync' = IF event = Dropped THEN resync \cup {path} ELSE resync
                        /\ pressed' =
                             IF ~Applies(path, event) \/ event.code \notin ModCodes THEN pressed
                             ELSE [pressed EXCEPT ![path] = IF event.kind = "down"
                                      THEN @ \cup {event.code} ELSE @ \ {event.code}]
                /\ IF Applies(path, event) /\ Reported(event)
                   THEN shown' = CurrentModifiers(pressed') /\ ready' = {}
                   ELSE ready' = ready \ {path} /\ UNCHANGED shown
    /\ UNCHANGED <<kernelVars, devices, unplugged, evdevPc, optionVars>>

\* The end of the call: what was found disconnected is dropped; without any
\* device left, one more scan, and without any found, an error.
EndRead ==
    /\ evdevPc = "reading" /\ ready = {}
    /\ \E left \in Selected(devices, {i \in DOMAIN devices : devices[i] \notin failing}) :
       \E now \in IF left = <<>> THEN ScansDue(left) ELSE {left} :
          /\ Opens(left, now)
          /\ evdevPc' = IF now = <<>> THEN "over" ELSE "idle"
    /\ failing' = {}
    /\ UNCHANGED <<kernelVars, ready, shown, optionVars>>

EvdevNext ==
    \/ \E p \in Paths, kind \in {"down", "up"}, c \in ModCodes \cup {"letter"} : KeyGoes(p, kind, c)
    \/ \E p \in Paths : Unplug(p) \/ Plug(p) \/ ReadOne(p)
    \/ BeginRead \/ EndRead

EvdevSpec == EvdevInit /\ [][EvdevNext]_evdevVars

-----------------------------------------------------------------------------
EvdevTypeOK ==
    /\ plugged \subseteq Paths /\ unplugged \subseteq Paths /\ resync \subseteq Paths
    /\ keysDown \in [Paths -> SUBSET (ModCodes \cup {"letter"})]
    /\ pressed \in [Paths -> SUBSET ModCodes]
    /\ devices \in Seq(Paths) /\ ready \subseteq Paths /\ failing \subseteq Paths /\ shown \subseteq ModCodes
    /\ evdevPc \in {"idle", "reading", "over"}

\* What the session believes a keyboard holds, once the events it has not read yet are
\* applied to it: the last one of each key.
EventsOf(path, code) ==
    {i \in DOMAIN queued[path] : IsDown(queued[path][i]) /\ queued[path][i].code = code}
AfterEvents(path) ==
    {code \in ModCodes :
        IF EventsOf(path, code) = {} THEN code \in pressed[path]
        ELSE \E i \in EventsOf(path, code) :
                queued[path][i].kind = "down" /\ \A j \in EventsOf(path, code) : j <= i}

\* A keyboard's modifiers are never wrong for good: whatever its queue lost,
\* the modifiers the session has for it, with the events still to be read,
\* are those that are down; or it knows, or is about to read, that it has
\* to ask the kernel.
ModifiersCatchUp ==
    \A p \in ToSet(devices) \ unplugged :
        \/ p \in resync \/ Dropped \in ToSet(queued[p])
        \/ AfterEvents(p) = Snapshot(p)

=============================================================================
