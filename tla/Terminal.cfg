\* Two lines of configuration, sequences of two keys, three keys at the prompt,
\* one change of the terminal while it is asked; one remapper with two rules.
CONSTANTS
    MaxMuxLines = 2
    MaxMuxKeys = 2
    MaxClientKeys = 1
    MaxEditorLines = 2
    MaxTyped = 3
    MaxBindLines = 1
    MaxTerminalMoves = 1
    Daemons = {"keyd", "kanata", "kmonad", "input-remapper", "xremap"}
    MaxRemappers = 1
    MaxRules = 2
SPECIFICATION Spec
INVARIANTS
    
    Editor_KeysReadAlike
    
    Remap_IsWhatComesOut
CHECK_DEADLOCK FALSE
