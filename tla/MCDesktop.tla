------------------------- MODULE MCDesktop -------------------------
(***************************************************************************)
(* What whykey asks of the desktop: each behaviour is one inspection, of   *)
(* Hyprland, another compositor, a desktop environment, the input methods, *)
(* the application, or all bindings, or of the whole route with any answer *)
(* of its layers. They share no state.                                     *)
(***************************************************************************)
EXTENDS HyprBinds, CompositorConfigs, DesktopShortcuts, InputMethods, BindingInventory,
        Applications, InspectionChain

VARIABLE part    \* the component of the behaviour

Off == "off"     \* the variables of the components that are not of the behaviour

HyprlandOff ==
    /\ config = Off /\ extra = Off /\ reports = Off /\ binds = Off /\ submap = Off
    /\ previous = Off /\ hyprPc = Off /\ probe = Off /\ moves = Off
CompositorOff ==
    /\ engine = Off /\ running = Off /\ onDisk = Off /\ session = Off /\ wmPc = Off
    /\ told = Off /\ configChanges = Off /\ truths = Off
DesktopOff ==
    /\ desktop = Off /\ shortcuts = Off /\ up = Off /\ replies = Off /\ daemons = Off
    /\ desktopMoves = Off /\ fatesSeen = Off
MethodOff ==
    /\ method = Off /\ remote = Off /\ detected = Off /\ heard = Off /\ imePc = Off
    /\ switches = Off /\ composed = Off
BindingsOff ==
    /\ hyprland = Off /\ manifest = Off /\ inventory = Off /\ unavailable = Off
    /\ limitations = Off /\ listPc = Off
AppOff ==
    /\ tree = Off /\ tty = Off /\ editors = Off /\ configRows = Off /\ selected = Off
    /\ appPc = Off /\ target = Off /\ children = Off /\ walk = Off /\ found = Off
    /\ modes = Off /\ layerSays = Off /\ endpoint = Off /\ turns = Off /\ worlds = Off
ChainOff ==
    /\ request = Off /\ step = Off /\ pc = Off /\ remapper = Off /\ downstream = Off
    /\ rows = Off /\ input = Off /\ stopAfter = Off /\ delivery = Off /\ prefix = Off
    /\ asked = Off /\ spent = Off /\ late = Off /\ holes = Off

Init ==
    \/ part = "hyprland" /\ HyprInit
       /\ CompositorOff /\ DesktopOff /\ MethodOff /\ BindingsOff /\ AppOff /\ ChainOff
    \/ part = "compositor" /\ ConfigInit
       /\ HyprlandOff /\ DesktopOff /\ MethodOff /\ BindingsOff /\ AppOff /\ ChainOff
    \/ part = "desktop" /\ DesktopInit
       /\ HyprlandOff /\ CompositorOff /\ MethodOff /\ BindingsOff /\ AppOff /\ ChainOff
    \/ part = "method" /\ ImeInit
       /\ HyprlandOff /\ CompositorOff /\ DesktopOff /\ BindingsOff /\ AppOff /\ ChainOff
    \/ part = "bindings" /\ ListInit
       /\ HyprlandOff /\ CompositorOff /\ DesktopOff /\ MethodOff /\ AppOff /\ ChainOff
    \/ part = "app" /\ AppInit
       /\ HyprlandOff /\ CompositorOff /\ DesktopOff /\ MethodOff /\ BindingsOff /\ ChainOff
    \/ part = "chain" /\ ChainInit
       /\ HyprlandOff /\ CompositorOff /\ DesktopOff /\ MethodOff /\ BindingsOff /\ AppOff

HyprlandStep ==
    /\ part = "hyprland" /\ HyprNext
    /\ UNCHANGED <<part, configVars, desktopVars, imeVars, listVars, appVars, chainVars>>
CompositorStep ==
    /\ part = "compositor" /\ ConfigNext
    /\ UNCHANGED <<part, hyprVars, desktopVars, imeVars, listVars, appVars, chainVars>>
DesktopStep ==
    /\ part = "desktop" /\ DesktopNext
    /\ UNCHANGED <<part, hyprVars, configVars, imeVars, listVars, appVars, chainVars>>
MethodStep ==
    /\ part = "method" /\ ImeNext
    /\ UNCHANGED <<part, hyprVars, configVars, desktopVars, listVars, appVars, chainVars>>
BindingsStep ==
    /\ part = "bindings" /\ ListNext
    /\ UNCHANGED <<part, hyprVars, configVars, desktopVars, imeVars, appVars, chainVars>>
AppStep ==
    /\ part = "app" /\ AppNext
    /\ UNCHANGED <<part, hyprVars, configVars, desktopVars, imeVars, listVars, chainVars>>
ChainStep ==
    /\ part = "chain" /\ ChainNext
    /\ UNCHANGED <<part, hyprVars, configVars, desktopVars, imeVars, listVars, appVars>>

Next == HyprlandStep \/ CompositorStep \/ DesktopStep \/ MethodStep \/ BindingsStep
    \/ AppStep \/ ChainStep

mcVars == <<part, hyprVars, configVars, desktopVars, imeVars, listVars, appVars, chainVars>>

Spec == Init /\ [][Next]_mcVars
-----------------------------------------------------------------------------
\* HyprBinds, CompositorConfigs: when whykey says that a compositor takes a key or lets
\* it pass, that is what it does with it in a state it was in, and under a configuration
\* it had, while whykey asked and read.
Compositor_VerdictIsSound ==
    /\ part = "hyprland" => VerdictIsSound
    /\ part = "compositor" => ConfigVerdictIsSound
\* DesktopShortcuts: a definite verdict is what the desktop environment does with
\* the key, its separate daemons included.
Desktop_VerdictIsSound == part = "desktop" => DesktopVerdictIsSound
\* InputMethods: a key said to be forwarded was composed by no engine while asking.
Method_ForwardingIsSound == part = "method" => ForwardingIsSound
\* BindingInventory: a conflict says which of its actions run, and no collision of
\* two bindings is left out without a word.
Bindings_ConflictsAreRight == part = "bindings" => ConflictsAreRight
\* Applications: what is said of the application under the terminal was true of it at
\* some time while it was asked.
App_IsSound == part = "app" => ApplicationIsSound
\* InspectionChain: nobody is asked about a consumed key or after the budget, the
\* multiplexer and the shell are told of exactly the keys that reached them, and the
\* shell is asked about a sequence only if none of its bytes is missing.
Chain_RouteIsKept == part = "chain" => ConsumedGoesNowhere /\ BudgetEndsQueries /\ DeliveredIffReached
                      /\ SequenceHasNoHole
=============================================================================
