------------------------- MODULE MCTerminal -------------------------
(***************************************************************************)
(* The way of a key: each behaviour is one through the remappers, the      *)
(* terminal and its TTY, a multiplexer, or a line editor.                  *)
(* The components share no state.                                          *)
(***************************************************************************)
EXTENDS Multiplexers, LineEditors, TerminalRoute, Remappers

VARIABLE part    \* the component of the behaviour

Off == "off"     \* the variables of the components that are not of the behaviour

MuxOff ==
    /\ mux = Off /\ muxLines = Off /\ client = Off /\ muxKeys = Off /\ asked = Off
    /\ muxSays = Off /\ clientKeys = Off
EditorOff ==
    /\ editor = Off /\ startup = Off /\ inputrc = Off /\ typed = Off /\ queue = Off
    /\ buffer = Off /\ ran = Off /\ keymap = Off
RouteOff ==
    /\ terminal = Off /\ exported = Off /\ pressed = Off /\ binds = Off /\ cooked = Off
    /\ listening = Off /\ routePc = Off /\ bindsRead = Off /\ ttyRead = Off
    /\ terminalMoves = Off /\ fates = Off
RemapOff ==
    /\ remappers = Off /\ layoutUs = Off /\ holding = Off /\ flight = Off /\ stage = Off
    /\ touched = Off

Init ==
    \/ part = "mux" /\ MuxInit
       /\ EditorOff /\ RouteOff /\ RemapOff
    \/ part = "editor" /\ EditorInit
       /\ MuxOff /\ RouteOff /\ RemapOff
    \/ part = "route" /\ RouteInit
       /\ MuxOff /\ EditorOff /\ RemapOff
    \/ part = "remap" /\ RemapInit
       /\ MuxOff /\ EditorOff /\ RouteOff

MuxStep ==
    /\ part = "mux" /\ MuxNext
    /\ UNCHANGED <<part, editorVars, routeVars, remapVars>>
EditorStep ==
    /\ part = "editor" /\ EditorNext
    /\ UNCHANGED <<part, muxVars, routeVars, remapVars>>
RouteStep ==
    /\ part = "route" /\ RouteNext
    /\ UNCHANGED <<part, muxVars, editorVars, remapVars>>
RemapStep ==
    /\ part = "remap" /\ RemapNext
    /\ UNCHANGED <<part, muxVars, editorVars, routeVars>>

Next == MuxStep \/ EditorStep \/ RouteStep \/ RemapStep

mcVars == <<part, muxVars, editorVars, routeVars, remapVars>>

Spec == Init /\ [][Next]_mcVars
-----------------------------------------------------------------------------
\* Multiplexers: a definite verdict on a key of a sequence is what tmux, screen or
\* zellij does with it, its key tables and modes included.
Mux_VerdictIsSound == part = "mux" => MuxVerdictIsSound
\* LineEditors: the keys of a sequence run what the shell's line editor runs after it
\* read the same startup lines.
Editor_KeysReadAlike == part = "editor" => KeysReadAlike
\* TerminalRoute: a definite verdict of the terminal and of the TTY driver is what
\* they do with the key under settings they had while they were asked.
Route_IsSound == part = "route" => RouteIsSound
\* Remappers: a definite prediction for a remapped key is what the daemon emits.
Remap_IsWhatComesOut == part = "remap" => RemapIsWhatComesOut
=============================================================================
