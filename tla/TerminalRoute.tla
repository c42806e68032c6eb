----------------------------- MODULE TerminalRoute -----------------------------
(***************************************************************************)
(* A key from the terminal emulator to the TTY driver: the terminal is     *)
(* identified by the environment, its binds are read from what it runs     *)
(* (terminal_app.rs, ghostty.rs), the bytes it sends are predicted and are *)
(* judged against the settings of the TTY (terminal.rs). A listening       *)
(* whykey has put its terminal in raw mode meanwhile.                      *)
(***************************************************************************)
EXTENDS Integers, Sequences, SequencesExt, FiniteSets, TLC

CONSTANTS
    MaxBindLines,    \* bound: lines of the terminal's configuration for the key
    MaxTerminalMoves \* bound: what changes during an inspection

ASSUME TerminalRouteAssumption == {MaxBindLines, MaxTerminalMoves} \subseteq Nat

VARIABLES
    terminal,  \* the terminal whykey runs in
    exported,  \* whether its variables reach whykey
    pressed,   \* the key
    binds,     \* the lines of its configuration for the key
    cooked,    \* the settings of the TTY without whykey
    listening, \* in a capture session the TTY is raw and cooked is remembered
    routePc,   \* "binds", "tty", "done"
    bindsRead, \* the lines whykey was told of, if they could be read
    ttyRead,   \* the settings it was told of, if they could be read
    terminalMoves,
    fates      \* what would become of the key, at every moment so far

routeVars ==
    <<terminal, exported, pressed, binds, cooked, listening, routePc, bindsRead, ttyRead,
      terminalMoves, fates>>

-----------------------------------------------------------------------------
(* Keys and bytes. A control byte is written ^C, ^[ is ESC.                 *)
Letters == {"C", "S", "H"}
Digits == {"1"}
Chord(mods, name) == [mods |-> mods, name |-> name]

\* One key of each kind of encoding.
TerminalKeys ==
    {Chord({}, "C"), Chord({"shift"}, "C"), Chord({"ctrl"}, "C"), Chord({"ctrl", "alt"}, "C"), Chord({"ctrl"}, "S"),
     Chord({"alt"}, "ESCAPE"), Chord({"shift"}, "TAB"), Chord({}, "KP_1"), Chord({"ctrl"}, "UP"),
     Chord({"altgr"}, "C"), Chord({"altgr"}, "dead")}

\* legacy_control_byte.
ControlByte(name) ==
    CASE name = "C" -> "^C" [] name = "S" -> "^S" [] name = "H" -> "^H" [] name = "[" -> "^[" [] OTHER -> "none"

\* key_modifier_parameter.
ModifierParameter(mods) ==
    1 + (IF "shift" \in mods THEN 1 ELSE 0) + (IF "alt" \in mods THEN 2 ELSE 0) + (IF "ctrl" \in mods THEN 4 ELSE 0)

AltPrefix(mods) == IF "alt" \in mods THEN <<"^[">> ELSE <<>>
Lower(name) == CASE name = "C" -> "c" [] name = "S" -> "s" [] name = "H" -> "h" [] OTHER -> name

NoBytes == <<"none">>

\* A key with modifiers that are no character and no control byte.
NavigationBytes(name, mods) ==
    CASE name = "TAB" /\ mods = {"shift"} -> <<"^[", "[Z">>
      [] name = "F5" -> <<"^[", "[15;", ToString(ModifierParameter(mods)), "~">>
      [] OTHER -> NoBytes

PlainBytes(name) ==
    CASE name = "TAB" -> <<"^I">>
      [] name = "ESCAPE" -> <<"^[">>
      [] name = "BACKSPACE" -> <<"^?">>
      [] name = "F5" -> <<"^[", "[15~">>
      [] OTHER -> NoBytes

NonArrowBytes(name, mods) ==
    IF "ctrl" \in mods /\ mods \subseteq {"ctrl", "alt"} /\ ControlByte(name) # "none"
    THEN AltPrefix(mods) \o <<ControlByte(name)>>
    ELSE IF name \in Letters \union Digits \union {"["} /\ mods \subseteq {"shift", "alt"}
    THEN IF "shift" \in mods /\ name \notin Letters THEN NoBytes
         ELSE AltPrefix(mods) \o <<IF "shift" \in mods THEN name ELSE Lower(name)>>
    ELSE IF name = "ESCAPE" /\ mods = {"alt"} THEN <<"^[", "^[">>
    ELSE IF mods # {} THEN NavigationBytes(name, mods) ELSE PlainBytes(name)

ModifierBytes(name, mods) ==
    IF name # "UP" THEN NonArrowBytes(name, mods)
    ELSE IF mods = {} THEN <<"^[", "[A">> ELSE <<"^[", "[1;", ToString(ModifierParameter(mods)), "A">>

\* default_encoding_for_protocol without a keyboard protocol: AltGr types what the
\* layout has there, a key of the keypad is its main key.
DefaultBytes(key) ==
    IF "altgr" \in key.mods THEN IF key.name \in Letters THEN <<"@">> ELSE NoBytes
    ELSE ModifierBytes(IF key.name = "KP_1" THEN "1" ELSE key.name, key.mods)

DeadKey(key) == key.name = "dead" /\ key.mods = {"altgr"}

-----------------------------------------------------------------------------
(* What a line does with the key: "act" takes it, "send" writes bytes of     *)
(* its own, "forward" lets it through, "unclear" is an action whykey does    *)
(* not know. table: WezTerm's key tables; the prefixes of Ghostty.           *)
BindLine(does, bytes, table, prefix) == [does |-> does, bytes |-> bytes, table |-> table, prefix |-> prefix]

Payloads == {<<"^C">>, <<"x">>}
Sends(table, prefix) == {BindLine("send", bytes, table, prefix) : bytes \in Payloads}
Acts(table, prefix) == {BindLine(does, <<>>, table, prefix) : does \in {"act", "forward", "unclear"}}

\* kitty.conf, alacritty.toml and foot.ini.
FileLines == Acts("default", "none") \union Sends("default", "none")

\* wezterm show-keys.
WezTermLines == FileLines \union Acts("other", "none") \union Sends("other", "none")

\* The keytab of Konsole's profile.
KonsoleLines == {l \in FileLines : l.does \in {"act", "send"}}

\* +list-keybinds of Ghostty, or its files.
GhosttyLines ==
    {BindLine("act", <<>>, "default", prefix) : prefix \in {"none", "unconsumed", "performable", "physical", "leader"}}
    \union (UNION {Sends("default", prefix) : prefix \in {"none", "unconsumed", "performable"}})
    \union {BindLine(does, <<>>, "default", "none") : does \in {"ignore", "unbind", "clear"}}

LinesOfTerminal(t) ==
    CASE t \in {"kitty", "alacritty", "foot"} -> FileLines
      [] t = "wezterm" -> WezTermLines
      [] t = "konsole" -> KonsoleLines
      [] t = "ghostty" -> GhosttyLines
      [] OTHER -> {}

\* terminal_kind, known_non_ghostty_terminal: what the exported variables name.
Identified == IF exported THEN terminal ELSE "unknown"

\* The lines that are wanted, in their order.
Within(lines, wanted) ==
    FoldLeft(LAMBDA kept, line : IF line \in wanted THEN Append(kept, line) ELSE kept, <<>>, lines)

\* A trigger that is not one key is set aside.
SetAside == {l \in GhosttyLines : l.prefix \in {"physical", "leader"}}

\* parse_keybind of Ghostty: a trigger has one bind, clear removes all.
WithKeybind(table, line) ==
    IF line.does = "clear" THEN <<>>
    ELSE IF line \in SetAside THEN Append(table, line)
    ELSE IF line.does = "unbind" THEN Within(table, SetAside)
    ELSE Append(Within(table, SetAside), line)

GhosttyTable(lines) == FoldLeft(WithKeybind, <<>>, lines)
Resolved(table) == Within(table, GhosttyLines \ SetAside)

-----------------------------------------------------------------------------
(* What the terminal and the kernel do with the key. *)
TheirBinds == IF terminal = "ghostty" THEN GhosttyTable(binds) ELSE Within(binds, FileLines)

\* External: the bytes that leave the terminal; <<>> when it keeps the key.
BytesOut ==
    LET default == DefaultBytes(pressed) IN
    IF TheirBinds = <<>> THEN IF DeadKey(pressed) THEN <<>> ELSE default
    ELSE LET line == Last(TheirBinds) IN
         IF line.does = "send"
         THEN line.bytes \o (IF line.prefix = "unconsumed" /\ default # NoBytes THEN default ELSE <<>>)
         ELSE IF line.does = "forward" \/ line.prefix = "unconsumed" THEN default ELSE <<>>

\* External: the line discipline takes a byte at a time.
KernelTakes(bytes, settings) ==
    \E i \in DOMAIN bytes : \/ bytes[i] = "^C" /\ settings.isig
                            \/ bytes[i] = "^S" /\ settings.ixon

Fate ==
    IF BytesOut = <<>> THEN <<"terminal">>
    ELSE IF KernelTakes(BytesOut, cooked) THEN <<"tty">>
    ELSE <<"program", BytesOut>>

\* What an action without a meaning whykey knows does is anybody's guess.
FateIsKnown == ~\E i \in DOMAIN TheirBinds : TheirBinds[i].does = "unclear"

Unseen == fates' = fates \union {Fate'}

-----------------------------------------------------------------------------
(* What whykey says. An answer is an outcome and the bytes, if any.         *)
Answer(outcome, bytes) == [outcome |-> outcome, bytes |-> bytes]

\* with_default_encoding.
Passes ==
    IF DeadKey(pressed) THEN Answer("consumed", NoBytes) ELSE Answer("passes", DefaultBytes(pressed))

\* resolve_bindings: the last line for the key; a table that may not be active
\* leaves doubt.
AdapterAnswer ==
    IF bindsRead.lines = <<>> THEN Passes
    ELSE LET line == Last(bindsRead.lines) IN
         IF line.table # "default" THEN Answer("unsure", NoBytes)
         ELSE CASE line.does = "send" -> Answer("passes", line.bytes)
                [] line.does = "forward" -> Answer("passes", NoBytes)
                [] line.does = "act" -> Answer("consumed", NoBytes)
                [] OTHER -> Answer("unsure", NoBytes)

\* input_from_config and inspect_config.
GhosttyAnswer ==
    LET table == GhosttyTable(bindsRead.lines)
        default == DefaultBytes(pressed) IN
    IF Resolved(table) = <<>>
    THEN IF \E i \in DOMAIN table : table[i].prefix = "physical" THEN Answer("unsure", NoBytes) ELSE Passes
    ELSE LET line == Resolved(table)[1] IN
         IF line.does = "send"
         THEN CASE line.prefix = "unconsumed" ->
                     Answer("passes", line.bytes \o (IF default = NoBytes THEN <<>> ELSE default))
                [] line.prefix = "performable" -> Answer("passes", default)
                [] OTHER -> Answer("passes", line.bytes)
         ELSE IF line.does = "ignore" THEN Answer("consumed", NoBytes)
         ELSE CASE line.prefix = "performable" -> Answer("unsure", default)
                [] line.prefix = "unconsumed" -> Answer("passes", default)
                [] OTHER -> Answer("consumed", NoBytes)

\* TerminalAnalysis::analyze. What cannot be read is unsure.
TerminalAnswer ==
    IF Identified \in {"unknown", "another"} THEN Passes
    ELSE IF ~bindsRead.known THEN Answer("unsure", NoBytes)
    ELSE IF Identified = "ghostty" THEN GhosttyAnswer ELSE AdapterAnswer

\* control_character_byte and classify_byte, of one byte; a sequence passes.
TtyVerdict(bytes) ==
    IF bytes = NoBytes \/ ~ttyRead.known THEN "unsure"
    ELSE IF Len(bytes) # 1 THEN "passes"
    ELSE CASE bytes[1] = "^C" -> IF ttyRead.isig THEN "consumed" ELSE "passes"
           [] bytes[1] = "^S" -> IF ttyRead.ixon THEN "consumed" ELSE "passes"
           [] OTHER -> "passes"

RouteFate ==
    LET answer == TerminalAnswer IN
    IF answer.outcome = "consumed" THEN <<"terminal">>
    ELSE IF answer.outcome = "unsure" \/ TtyVerdict(answer.bytes) = "unsure" THEN <<"unsure">>
    ELSE IF TtyVerdict(answer.bytes) = "consumed" THEN <<"tty">>
    ELSE <<"program", answer.bytes>>

-----------------------------------------------------------------------------
RouteInit ==
    /\ terminal \in {"kitty", "alacritty", "foot", "wezterm", "konsole", "ghostty", "another"}
    /\ exported \in BOOLEAN
    /\ pressed \in TerminalKeys
    /\ binds \in BoundedSeq(LinesOfTerminal(terminal), MaxBindLines)
    /\ cooked \in [isig : BOOLEAN, ixon : BOOLEAN]
    /\ listening \in BOOLEAN
    /\ routePc = "binds" /\ bindsRead = [known |-> FALSE, lines |-> <<>>]
    /\ ttyRead = [known |-> FALSE, isig |-> FALSE, ixon |-> FALSE]
    /\ terminalMoves = 0 /\ fates = {Fate}

\* External: the user edits the configuration, which the terminal loads, or a
\* program in the terminal changes its settings.
TerminalMove ==
    /\ routePc # "done" /\ terminalMoves < MaxTerminalMoves /\ terminalMoves' = terminalMoves + 1
    /\ UNCHANGED <<terminal, exported, pressed, listening, routePc, bindsRead, ttyRead>>

EditBinds ==
    /\ TerminalMove /\ UNCHANGED cooked
    /\ \E line \in LinesOfTerminal(terminal) : binds' = Append(binds, line)
    /\ Unseen

ChangeTty ==
    /\ TerminalMove /\ UNCHANGED binds /\ ~listening
    /\ \E settings \in [isig : BOOLEAN, ixon : BOOLEAN] : settings # cooked /\ cooked' = settings
    /\ Unseen

\* load_config, load_wezterm_bindings, load_konsole_bindings, config_path.
ReadBinds ==
    /\ routePc = "binds" /\ routePc' = "tty"
    /\ \/ bindsRead' = [known |-> TRUE, lines |-> IF Identified \in {"unknown", "another"} THEN <<>> ELSE binds]
       \/ Identified \notin {"unknown", "another"} /\ UNCHANGED bindsRead
    /\ UNCHANGED <<terminal, exported, pressed, binds, cooked, listening, ttyRead, terminalMoves, fates>>

\* The settings of the TTY now: raw mode turns flow control off.
LiveSettings == IF listening THEN [cooked EXCEPT !.ixon = FALSE] ELSE cooked

\* Mutant of TermiosUsed: a listening whykey asks the terminal it made raw.
AlwaysLive == LiveSettings

\* A capture passes the settings it saved, an inspection asks for them.
TermiosUsed == IF listening THEN cooked ELSE LiveSettings

ReadTty ==
    /\ routePc = "tty" /\ routePc' = "done"
    /\ \/ ttyRead' = [known |-> TRUE, isig |-> TermiosUsed.isig, ixon |-> TermiosUsed.ixon]
       \/ ~listening /\ UNCHANGED ttyRead
    /\ UNCHANGED <<terminal, exported, pressed, binds, cooked, listening, bindsRead, terminalMoves, fates>>

RouteNext == EditBinds \/ ChangeTty \/ ReadBinds \/ ReadTty

RouteSpec == RouteInit /\ [][RouteNext]_routeVars

-----------------------------------------------------------------------------
\* Where whykey is too sure: a terminal that is not known, the first key of a
\* leader sequence, a physical trigger next to another, bytes sent "when
\* performable" and a control byte inside of a sequence.
BeyondTheRoute ==
    \/ terminal # "another" /\ ~exported
    \/ \E i \in DOMAIN bindsRead.lines :
          LET line == bindsRead.lines[i] IN
          \/ line.prefix = "leader"
          \/ line.prefix = "physical" /\ Resolved(GhosttyTable(bindsRead.lines)) # <<>>
          \/ line.prefix = "performable" /\ line.does = "send"
    \/ Len(TerminalAnswer.bytes) > 1 /\ \E b \in {"^C", "^S"} : b \in ToSet(TerminalAnswer.bytes)

\* Where a definite route says the key ends, and with which bytes, it would have
\* ended at some moment of the inspection, whether whykey listens or not.
RouteIsSound ==
    routePc = "done" /\ FateIsKnown /\ ~BeyondTheRoute /\ RouteFate # <<"unsure">>
        => RouteFate \in fates

=============================================================================
