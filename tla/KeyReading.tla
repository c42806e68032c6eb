------------------------------ MODULE KeyReading ------------------------------
(***************************************************************************)
(* What a key is called and what it types: the keymap that xkbcli prints   *)
(* (src/xkb.rs), the layout and the locks that a Hyprland capture session  *)
(* remembers between the notices of their changes                          *)
(* (src/hyprland_capture.rs), and the text of an AltGr key in the report   *)
(* (src/layers/ghostty.rs).                                                *)
(*                                                                         *)
(* Two layouts, which the user switches.  Whether a key belongs to a       *)
(* virtual keyboard, and how a chord is found released, is KeyEvents.      *)
(***************************************************************************)
EXTENDS Integers, Sequences

CONSTANTS
    Typed,             \* the keys that are typed while whykey listens
    Queried,           \* the symbols that are asked for with AltGr
    MaxSwitchings,     \* bound: switches of the layout or a lock
    MaxTypings,        \* bound: keys typed
    MaxQueryFailures   \* bound: `hyprctl devices` that fail

Groups == 0 .. 1
Locks == {"caps", "num"}
Modifiers == {"shift", "altgr"}
NoSymbol == "NoSymbol"

(* The keymap as xkbcli prints it: the symbols of a key in each layout and *)
(* its type where libxkbcommon would not give it that type anyway.  A key  *)
(* of the "pc" symbols has one layout for all (escape: caps:swapescape).   *)
Automatic(levels) == [explicit |-> "none", levels |-> levels]
Compiled == [
    q      |-> <<Automatic(<<"q", "Q">>), Automatic(<<"a", "A">>)>>,
    e      |-> <<Automatic(<<"e", "E">>), Automatic(<<"e", "E", "EuroSign", NoSymbol>>)>>,
    o      |-> <<Automatic(<<"o", "O">>), Automatic(<<"o", "O", "oe", "OE">>)>>,
    accent |-> <<Automatic(<<"apostrophe", "quotedbl">>),
                 Automatic(<<"dead_acute", "dead_diaeresis", "apostrophe", "quotedbl">>)>>,
    bksl   |-> <<Automatic(<<"backslash", "bar">>), Automatic(<<"backslash", "bar", "ae", "AE">>)>>,
    lsgt   |-> <<Automatic(<<"backslash", "bar", "ae", "AE">>),
                 Automatic(<<"less", "greater", "bar", "brokenbar">>)>>,
    kp1    |-> <<Automatic(<<"KP_End", "KP_1">>)>>,
    escape |-> <<Automatic(<<"Caps_Lock">>)>>,
    f1     |-> <<[explicit |-> "CTRL+ALT",
                  levels |-> <<"F1", "F1", "F1", "F1", "XF86Switch_VT_1">>]>>]
Keys == DOMAIN Compiled

ASSUME KeyReadingAssumption == Typed \subseteq Keys

PrintedType(modifiers, map) == [modifiers |-> modifiers, map |-> map]
PrintedTypes == [n \in {"ONE_LEVEL", "TWO_LEVEL", "ALPHABETIC", "KEYPAD", "FOUR_LEVEL",
                        "FOUR_LEVEL_ALPHABETIC", "FOUR_LEVEL_SEMIALPHABETIC", "CTRL+ALT"} |->
    CASE n = "ONE_LEVEL" -> PrintedType({}, {})
      [] n = "TWO_LEVEL" -> PrintedType({"Shift"}, {<<{"Shift"}, 2>>})
      [] n = "ALPHABETIC" ->
            PrintedType({"Shift", "Lock"}, {<<{"Shift"}, 2>>, <<{"Lock"}, 2>>})
      [] n = "KEYPAD" ->
            PrintedType({"Shift", "NumLock"}, {<<{"Shift"}, 2>>, <<{"NumLock"}, 2>>})
      [] n = "FOUR_LEVEL" ->
            PrintedType({"Shift", "LevelThree"},
                {<<{"Shift"}, 2>>, <<{"LevelThree"}, 3>>, <<{"Shift", "LevelThree"}, 4>>})
      [] n = "FOUR_LEVEL_ALPHABETIC" ->
            PrintedType({"Shift", "Lock", "LevelThree"},
                {<<{"Shift"}, 2>>, <<{"Lock"}, 2>>, <<{"LevelThree"}, 3>>,
                 <<{"Shift", "LevelThree"}, 4>>, <<{"Lock", "LevelThree"}, 4>>,
                 <<{"Shift", "Lock", "LevelThree"}, 3>>})
      [] n = "FOUR_LEVEL_SEMIALPHABETIC" ->
            PrintedType({"Shift", "Lock", "LevelThree"},
                {<<{"Shift"}, 2>>, <<{"Lock"}, 2>>, <<{"LevelThree"}, 3>>,
                 <<{"Shift", "LevelThree"}, 4>>, <<{"Lock", "LevelThree"}, 3>>,
                 <<{"Shift", "Lock", "LevelThree"}, 4>>})
      [] n = "CTRL+ALT" ->
            PrintedType({"Shift", "Control", "Alt", "LevelThree"},
                {<<{"Shift"}, 2>>, <<{"LevelThree"}, 3>>, <<{"Shift", "LevelThree"}, 4>>,
                 <<{"Control", "Alt"}, 5>>})]

-----------------------------------------------------------------------------
(* What XKB does with it, by the meaning of the types: the reference.      *)
TypeOf == [
    q      |-> <<"ALPHABETIC", "ALPHABETIC">>,
    e      |-> <<"ALPHABETIC", "FOUR_LEVEL_SEMIALPHABETIC">>,
    o      |-> <<"ALPHABETIC", "FOUR_LEVEL_ALPHABETIC">>,
    accent |-> <<"TWO_LEVEL", "FOUR_LEVEL">>,
    bksl   |-> <<"TWO_LEVEL", "FOUR_LEVEL">>,
    lsgt   |-> <<"FOUR_LEVEL", "FOUR_LEVEL">>,
    kp1    |-> <<"KEYPAD">>,
    escape |-> <<"ONE_LEVEL">>,
    f1     |-> <<"CTRL+ALT">>]

Pair(first, second) == IF second THEN first + 1 ELSE first
XkbLevel(type, mods, on) ==
    LET shift == "shift" \in mods
        capital == shift # ("caps" \in on)
        row == IF "altgr" \in mods THEN 3 ELSE 1
    IN  CASE type = "ONE_LEVEL" -> 1
          [] type = "TWO_LEVEL" -> Pair(1, shift)
          [] type = "ALPHABETIC" -> Pair(1, capital)
          [] type = "KEYPAD" -> Pair(1, shift # ("num" \in on))
          [] type \in {"FOUR_LEVEL", "CTRL+ALT"} -> Pair(row, shift)
          [] type = "FOUR_LEVEL_ALPHABETIC" -> Pair(row, capital)
          [] type = "FOUR_LEVEL_SEMIALPHABETIC" -> Pair(row, IF row = 3 THEN shift ELSE capital)

\* A key with fewer layouts takes another of its own for the ones it lacks.
XkbGroup(k, g) == IF g < Len(Compiled[k]) THEN g + 1 ELSE 1
XkbSymbol(k, g, mods, on) ==
    LET n == XkbGroup(k, g)
    IN  Compiled[k][n].levels[XkbLevel(TypeOf[k][n], mods, on)]

-----------------------------------------------------------------------------
(* Names.  A keysym's name is upper-cased; other spellings of one key are  *)
(* taken for the same.                                                     *)
Capitals == [q |-> "Q", a |-> "A", e |-> "E", o |-> "O", oe |-> "OE", ae |-> "AE"]
NormalizeKeyStr(symbol) == IF symbol \in DOMAIN Capitals THEN Capitals[symbol] ELSE symbol

\* keysym_is_lower, keysym_is_upper, and whether a keysym has a character
IsLower(symbol) == symbol \in DOMAIN Capitals
IsUpper(symbol) == \E s \in DOMAIN Capitals : Capitals[s] = symbol
HasText(symbol) ==
    \/ IsLower(symbol) \/ IsUpper(symbol)
    \/ symbol \in {"EuroSign", "apostrophe", "quotedbl", "backslash", "bar", "less",
                   "greater", "brokenbar"}
IsDead(symbol) == symbol \in {"dead_acute", "dead_diaeresis"}

\* evdev_key_name: the table of the US keyboard
EvdevKeyName == [q |-> "Q", e |-> "E", o |-> "O", accent |-> "apostrophe",
                 bksl |-> "backslash", lsgt |-> "CODE:86", kp1 |-> "KP_1",
                 escape |-> "Escape", f1 |-> "F1"]

-----------------------------------------------------------------------------
(* What whykey reads of it.  It keeps the modifiers it can observe; any    *)
(* other is OTHER, which is never active.                                  *)
ParseTypeModifiers(names) ==
    {IF n \in {"Shift", "Lock", "LevelThree", "NumLock"} THEN n ELSE "OTHER" : n \in names}
KeyTypes == [n \in DOMAIN PrintedTypes |->
    [modifiers |-> ParseTypeModifiers(PrintedTypes[n].modifiers),
     map |-> {<<ParseTypeModifiers(entry[1]), entry[2]>> : entry \in PrintedTypes[n].map}]]

TypeModifiers(mods, on) ==
    (IF "shift" \in mods THEN {"Shift"} ELSE {}) \cup (IF "caps" \in on THEN {"Lock"} ELSE {})
    \cup (IF "altgr" \in mods THEN {"LevelThree"} ELSE {})
    \cup (IF "num" \in on THEN {"NumLock"} ELSE {})

\* The modifiers of the type that are active, looked up exactly.
Level(type, active) ==
    LET entries == {entry \in KeyTypes[type].map :
                        entry[1] = active \cap KeyTypes[type].modifiers}
    IN  IF entries = {} THEN 1 ELSE (CHOOSE entry \in entries : TRUE)[2]

\* No key of the model has a keypad of four levels, or more levels without a type.
AutomaticType(levels) ==
    LET CasePair(i, j) == /\ j <= Len(levels)
                          /\ IsLower(levels[i]) /\ IsUpper(levels[j])
        keypad == \E i \in 1 .. 2 : levels[i] \in {"KP_End", "KP_1"}
    IN  CASE Len(levels) <= 1 -> "ONE_LEVEL"
          [] Len(levels) = 2 -> IF CasePair(1, 2) THEN "ALPHABETIC"
                                ELSE IF keypad THEN "KEYPAD" ELSE "TWO_LEVEL"
          [] OTHER -> IF CasePair(1, 2) /\ CasePair(3, 4) THEN "FOUR_LEVEL_ALPHABETIC"
                      ELSE IF CasePair(1, 2) THEN "FOUR_LEVEL_SEMIALPHABETIC"
                      ELSE "FOUR_LEVEL"

HasGroup(k, g) == g < Len(Compiled[k])
LevelsOf(k, g) == Compiled[k][g + 1].levels

\* select_level: the symbol, and whether the type has a third level at all
SelectLevel(k, g, mods, on) ==
    LET explicit == Compiled[k][g + 1].explicit
        type == IF explicit # "none" THEN explicit ELSE AutomaticType(LevelsOf(k, g))
        level == Level(type, TypeModifiers(mods, on))
    IN  [keysym |-> IF level <= Len(LevelsOf(k, g)) THEN LevelsOf(k, g)[level] ELSE NoSymbol,
         third |-> "LevelThree" \in KeyTypes[type].modifiers]

-----------------------------------------------------------------------------
(* resolve_text: what a key commits, or that this is not known.            *)
Unresolved == [kind |-> "unresolved", symbol |-> NoSymbol]

LevelText(k, g, mods, on) ==
    IF ~HasGroup(k, g) THEN Unresolved
    ELSE LET selection == SelectLevel(k, g, mods, on)
         IN  IF "altgr" \in mods /\ ~selection.third THEN Unresolved
             ELSE IF IsDead(selection.keysym) THEN [kind |-> "dead", symbol |-> selection.keysym]
             ELSE IF HasText(selection.keysym)
                  THEN [kind |-> "text", symbol |-> selection.keysym]
             ELSE Unresolved

KeycodesForKey(query, g) ==
    {k \in Keys : HasGroup(k, g) /\ NormalizeKeyStr(LevelsOf(k, g)[1]) = NormalizeKeyStr(query)}

ResolveText(keycodes, g, mods, on) ==
    LET outcomes == {LevelText(k, g, mods, on) : k \in keycodes}
    IN  IF \E outcome \in outcomes : outcomes = {outcome}
        THEN CHOOSE outcome \in outcomes : TRUE ELSE Unresolved

\* altgr_encoding: the report-all mode of the terminal is left to the terminal.
AltgrEncoding(layout, keycodes, g, mods, on, reportAll) ==
    IF reportAll \/ ~layout THEN Unresolved ELSE ResolveText(keycodes, g, mods, on)

-----------------------------------------------------------------------------
VARIABLES
    gives,      \* what `hyprctl devices` says of the main keyboard: its "rmlvo" and
                \* the "index" of its layout; or only the "environment" names a layout
    suppress,   \* the policy of the session
    group, on,  \* the layout and the locks of the keyboard
    lines,      \* lines of the event socket that the session has not taken
    hook,       \* the Lua hook sends a line for every key
    readPc,     \* what the session does
    known,      \* keymap, group, locked_caps and locked_num, layout_uncertain
    cached,     \* LAST of compile_keymap_cached
    dirty,      \* keyboard_state_dirty
    missed,     \* "layout", "locks": a notice of a change did not make the session ask
    snapshot,   \* the layout in the environment that was collected at the start
    reading,    \* the key that was captured, as it was read, until its report
    altgrText,  \* the text of an AltGr key
    moves, typed, faults

worldVars == <<group, on, moves>>
sessionVars == <<known, cached, dirty, missed>>
keyReadVars == <<gives, suppress, worldVars, lines, hook, readPc, sessionVars, snapshot,
                 reading, altgrText, typed, faults>>

NoReading == [key |-> "none"]
NoAnswer == [kind |-> "none"]

\* Where the layout is told: no default is compiled when nobody names one.
LayoutSources == SUBSET {"rmlvo", "index"} \cup {{"environment"}}

KeyReadInit ==
    /\ gives \in LayoutSources
    /\ suppress \in BOOLEAN
    /\ group \in Groups /\ on \in SUBSET Locks
    /\ lines = <<>> /\ hook = FALSE /\ readPc = "start"
    /\ known = [keymap |-> FALSE, group |-> 0, on |-> {}, uncertain |-> FALSE]
    /\ cached = "none" /\ dirty = FALSE /\ missed = {}
    /\ snapshot = group
    /\ reading = NoReading /\ altgrText = NoAnswer
    /\ moves = 0 /\ typed = 0 /\ faults = 0

-----------------------------------------------------------------------------
(* The user switches the layout or a lock and types.  A line carries what  *)
(* the keyboard has been since: `since` is not for the session.            *)
Now == [group |-> group, on |-> on]

Moves(state, line) ==
    /\ moves < MaxSwitchings /\ moves' = moves + 1
    /\ group' = state.group /\ on' = state.on
    /\ LET seen == [i \in DOMAIN lines |->
                        IF lines[i].kind = "key"
                        THEN [lines[i] EXCEPT !.since = @ \cup {state}] ELSE lines[i]]
       IN  lines' = IF line = "none" THEN seen ELSE Append(seen, [kind |-> line])

SwitchLayout ==
    /\ \E g \in Groups \ {group} :
           Moves([Now EXCEPT !.group = g], IF readPc = "start" THEN "none" ELSE "activelayout")
    /\ UNCHANGED <<missed, typed>>

\* The hook hears the lock key; without it the session does not learn of it.
ToggleLock ==
    /\ \E l \in Locks :
           Moves([Now EXCEPT !.on = IF l \in on THEN on \ {l} ELSE on \cup {l}],
                 IF hook THEN "lock" ELSE "none")
    /\ missed' = IF hook \/ readPc = "start" THEN missed ELSE missed \cup {"locks"}
    /\ UNCHANGED typed

\* Which key it was is chosen when the session takes the line.
TypeKey ==
    /\ hook /\ typed < MaxTypings
    /\ typed' = typed + 1
    /\ lines' = Append(lines, [kind |-> "key", since |-> {Now}])
    /\ UNCHANGED <<worldVars, missed>>

User ==
    /\ readPc # "over"
    /\ SwitchLayout \/ ToggleLock \/ TypeKey
    /\ UNCHANGED <<gives, suppress, hook, readPc, known, cached, dirty, snapshot, reading,
                   altgrText, faults>>

-----------------------------------------------------------------------------
(* compile_keymap_cached: xkbcli, which may be missing or refuse, is asked *)
(* once and its failure is remembered.                                     *)
CompileKeymap == BOOLEAN

Compiles(keymap) ==
    IF "environment" \in gives THEN cached' = cached
    ELSE IF "rmlvo" \notin gives THEN keymap = FALSE /\ cached' = cached
    ELSE IF cached # "none" THEN keymap = (cached = "keymap") /\ cached' = cached
    ELSE cached' = IF keymap THEN "keymap" ELSE "failed"

\* main_keyboard_active_layout_index; the session takes 0 for one that is not told.
LayoutIndex == IF "index" \in gives THEN group ELSE 0

RefreshKeyboardState ==
    \/ \E keymap \in CompileKeymap :
           /\ Compiles(keymap)
           /\ known' = [keymap |-> keymap, group |-> LayoutIndex, on |-> on, uncertain |-> FALSE]
           /\ missed' = {} /\ UNCHANGED faults
    \/ /\ faults < MaxQueryFailures /\ faults' = faults + 1
       /\ known' = [known EXCEPT !.uncertain = TRUE]
       /\ UNCHANGED <<cached, missed>>

Connect ==
    /\ readPc = "start" /\ "environment" \notin gives
    /\ RefreshKeyboardState
    /\ readPc' = "closed"
    /\ UNCHANGED <<worldVars, lines, hook, dirty, snapshot, reading, altgrText, typed>>

\* arm: every line up to the confirmation of the hook is thrown away unread.
Discarded(kind, notice) == IF \E i \in DOMAIN lines : lines[i].kind = kind THEN {notice} ELSE {}

ArmReading ==
    /\ readPc = "closed"
    /\ missed' = missed \cup Discarded("activelayout", "layout") \cup Discarded("lock", "locks")
    /\ lines' = <<>> /\ hook' = TRUE /\ readPc' = "armed"
    /\ altgrText' = NoAnswer
    /\ UNCHANGED <<worldVars, known, cached, dirty, snapshot, reading, typed, faults>>

\* decode_event, with what is known when it runs; `line` and `lost` are what the reading is
\* of, not for the session
DecodeEvent(key, mods, k, line, lost) ==
    LET inKeymap == k.keymap /\ HasGroup(key, k.group)
        name == NormalizeKeyStr(IF inKeymap THEN LevelsOf(key, k.group)[1]
                                ELSE EvdevKeyName[key])
        keysym == IF inKeymap /\ ~k.uncertain
                  THEN SelectLevel(key, k.group, mods, k.on).keysym ELSE NoSymbol
    IN  [key |-> key, mods |-> mods, name |-> name,
         shifted |-> IF NormalizeKeyStr(keysym) = name THEN NoSymbol ELSE keysym,
         uncertain |-> k.uncertain, inKeymap |-> inKeymap, since |-> line.since,
         missed |-> lost]

\* next_observed_event, up to the key that is reported
TakeNotice ==
    /\ Head(lines).kind \in {"activelayout", "lock"}
    /\ IF Head(lines).kind = "lock"
       THEN RefreshKeyboardState /\ dirty' = FALSE
       ELSE dirty' = TRUE /\ UNCHANGED <<known, cached, missed, faults>>
    /\ UNCHANGED <<readPc, reading>>

TakeTypedKey ==
    /\ Head(lines).kind = "key"
    /\ IF dirty THEN RefreshKeyboardState ELSE UNCHANGED <<known, cached, missed, faults>>
    /\ dirty' = FALSE
    /\ \E k \in Typed, mods \in SUBSET Modifiers :
           reading' = DecodeEvent(k, mods, known', Head(lines), missed')
    /\ readPc' = IF suppress THEN "chord" ELSE "captured"

NextObservedEvent ==
    /\ readPc = "armed" /\ lines # <<>>
    /\ TakeNotice \/ TakeTypedKey
    /\ lines' = Tail(lines)
    /\ UNCHANGED <<worldVars, hook, snapshot, altgrText, typed>>

\* Mutant of DrainChord: the notice of another layout is dropped.
DropsNotices ==
    /\ readPc = "chord" /\ lines # <<>>
    /\ missed' = IF Head(lines).kind = "lock" THEN missed \cup {"locks"} ELSE missed
    /\ lines' = Tail(lines)
    /\ UNCHANGED <<worldVars, hook, readPc, known, cached, dirty, snapshot, reading, altgrText,
                   typed, faults>>

\* drain_buffer_events while the chord is held: a lock key is only a held key.
DrainChord ==
    /\ readPc = "chord" /\ lines # <<>>
    /\ dirty' = (dirty \/ Head(lines).kind = "activelayout")
    /\ missed' = IF Head(lines).kind = "lock" THEN missed \cup {"locks"} ELSE missed
    /\ lines' = Tail(lines)
    /\ UNCHANGED <<worldVars, hook, readPc, known, cached, snapshot, reading, altgrText, typed,
                   faults>>

ChordEnds ==
    /\ readPc = "chord"
    /\ \/ readPc' = "captured" /\ UNCHANGED <<known, cached, missed, dirty, faults>>
       \/ /\ readPc' = "over"     \* it timed out: no report
          /\ IF dirty THEN RefreshKeyboardState ELSE UNCHANGED <<known, cached, missed, faults>>
          /\ dirty' = FALSE
    /\ reading' = IF readPc' = "over" THEN NoReading ELSE reading
    /\ UNCHANGED <<worldVars, lines, hook, snapshot, altgrText, typed>>

-----------------------------------------------------------------------------
(* The report: the hook is removed first; the layout is the one that the   *)
(* environment was collected with.                                         *)
ActiveLayout(keymap) == keymap /\ gives \cap {"index", "environment"} # {}

Answers(keycodes, asked, mods, locks) ==
    \E keymap \in CompileKeymap, reportAll \in BOOLEAN :
        /\ Compiles(keymap)
        /\ LET text == AltgrEncoding(ActiveLayout(keymap), keycodes, snapshot, mods, locks, reportAll)
           IN  altgrText' = [asked |-> asked, mods |-> mods, on |-> locks,
                             kind |-> text.kind, symbol |-> text.symbol]

InspectReading ==
    /\ readPc = "captured"
    /\ hook' = FALSE
    /\ readPc' \in {"closed", "over"}
    /\ IF "altgr" \in reading.mods
       THEN Answers({reading.key}, {reading.key}, reading.mods, {})
       ELSE UNCHANGED <<altgrText, cached>>
    /\ reading' = NoReading
    /\ UNCHANGED <<worldVars, lines, known, dirty, missed, snapshot, typed, faults>>

\* The keys that have the symbol as their own in the collected layout.
NamedBy(query) ==
    {k \in Keys : /\ HasGroup(k, snapshot)
                  /\ NormalizeKeyStr(XkbSymbol(k, snapshot, {}, {})) = NormalizeKeyStr(query)}

\* `whykey altgr+KEY`: the locks are those of the query.
QueryAltgr ==
    /\ readPc = "start" /\ readPc' = "over"
    /\ \E query \in Queried, mods \in {m \in SUBSET Modifiers : "altgr" \in m},
          locks \in SUBSET Locks :
           Answers(KeycodesForKey(query, snapshot), NamedBy(query), mods, locks)
    /\ UNCHANGED <<worldVars, lines, hook, known, dirty, missed, snapshot, reading, typed,
                   faults>>

SessionReads ==
    /\ Connect \/ ArmReading \/ NextObservedEvent \/ DrainChord \/ ChordEnds
       \/ InspectReading \/ QueryAltgr
    /\ UNCHANGED <<gives, suppress>>

KeyReadNext == User \/ SessionReads

KeyReadSpec == KeyReadInit /\ [][KeyReadNext]_keyReadVars
-----------------------------------------------------------------------------
(* A captured key has the name and the symbol of one state that the        *)
(* keyboard was in between its press and its reading, if it was read in    *)
(* the keymap and no notice of a change was thrown away: nothing is read   *)
(* in the layout of before a switch that came ahead of the key, nor with   *)
(* the name of one layout and the symbol of another (next_observed_event,  *)
(* decode_event, refresh_keyboard_state).                                  *)
Evidence(k, state, mods) ==
    LET keysym == XkbSymbol(k, state.group, mods, state.on)
    IN  IF NormalizeKeyStr(keysym) = NormalizeKeyStr(XkbSymbol(k, state.group, {}, {}))
        THEN NoSymbol ELSE keysym

ReadsTheKeyboard(lossy) ==
    reading # NoReading /\ ~reading.uncertain =>
        \E state \in reading.since :
            /\ reading.name = NormalizeKeyStr(XkbSymbol(reading.key, state.group, {}, {}))
            /\ "locks" \in lossy \/ reading.shifted = Evidence(reading.key, state, reading.mods)

KeysAreReadAsTyped ==
    reading # NoReading /\ reading.inKeymap /\ "layout" \notin reading.missed
    /\ "index" \in gives => ReadsTheKeyboard(reading.missed)

(* The text of an AltGr key is what every key that was meant types in the  *)
(* layout of the report with the modifiers and the locks of the report; a  *)
(* dead key has none, and a key that shares its name with another that     *)
(* types something else is not decided (resolve_text, level_text,          *)
(* select_level).                                                          *)
AltgrTextIsTyped ==
    altgrText # NoAnswer /\ altgrText.kind # "unresolved" =>
        /\ altgrText.asked # {}
        /\ \A k \in altgrText.asked :
               altgrText.symbol = XkbSymbol(k, snapshot, altgrText.mods, altgrText.on)
        /\ (altgrText.kind = "dead") = IsDead(altgrText.symbol)
=============================================================================
