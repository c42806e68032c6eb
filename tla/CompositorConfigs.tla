--------------------------- MODULE CompositorConfigs ---------------------------
(***************************************************************************)
(* What whykey says of a key under a compositor or hotkey daemon whose     *)
(* binds it reads from a configuration: Sway and i3 (layers/tiling.rs),    *)
(* River, dwl, herbstluftwm, Openbox, labwc, Niri, Wayfire and sxhkd. The  *)
(* configuration, the mode, the backend, the plugins and the processes are *)
(* asked for one after the other while the user goes on working.           *)
(***************************************************************************)
EXTENDS Integers, Sequences, SequencesExt, FiniteSets

CONSTANTS
    MaxConfigLines,  \* bound: lines of a configuration
    MaxConfigChanges \* bound: what the user changes during an inspection

ASSUME CompositorConfigsAssumption == {MaxConfigLines, MaxConfigChanges} \subseteq Nat

VARIABLES
    engine,   \* the compositor
    running,  \* the configuration it runs
    onDisk,   \* the configuration in its files
    session,  \* its state: mode, nested (Niri), plugin and ipc (Wayfire), alive
    wmPc,     \* "config", "state", "done"
    told,     \* what whykey has been told
    configChanges, \* changes so far
    truths    \* what became of the key for sure, at the moments whykey asked

configVars == <<engine, running, onDisk, session, wmPc, told, configChanges, truths>>

Tiling == {"sway", "i3"}
Engines == Tiling \union {"river", "dwl", "herbstluftwm", "openbox", "labwc", "niri", "wayfire", "sxhkd"}

-----------------------------------------------------------------------------
(* Lines of a configuration that bear on the key that is asked about. mode  *)
(* is the mode of the bind (in Wayfire the plugin of the option). A bind    *)
(* under a cond may not hold: a device or layout group, or a plugin         *)
(* default; whykey cannot read an "opaque" one. Niri's Mod stands for a     *)
(* modifier; any other key is left out.                                     *)
Line(kind, mode, flow, cond) == [kind |-> kind, mode |-> mode, flow |-> flow, cond |-> cond]

Include == Line("include", "default", "press", "none")
ConfigBind(flow, cond) == Line("bind", "default", flow, cond)

\* Statements of Sway and i3, their variables replaced, quotes and blocks gone.
TilingLines ==
    {Line("bind", m, f, c) : m \in {"default", "other"}, f \in {"press", "release"}, c \in {"none", "device"}}
    \union {Line("unbind", m, f, "none") : m \in {"default", "other"}, f \in {"press", "release"}}
    \union {Include}

\* riverctl map of the init script; a loop or a variable of the shell is opaque.
RiverLines == {Line("bind", m, "press", c) : m \in {"default", "other"}, c \in {"none", "opaque"}}

\* Rows of config.h; a macro of the user's is opaque.
DwlLines == {ConfigBind("press", c) : c \in {"none", "opaque"}}

\* Rows of list_keybinds; those with two modifiers are opaque.
HerbstluftwmLines == {ConfigBind("press", c) : c \in {"none", "opaque"}}

\* keybind elements of rc.xml, one for each action; chains of keys are opaque.
KeybindElements == {ConfigBind("press", c) : c \in {"none", "opaque"}}

\* Binds of config.kdl, with Mod or the modifier itself.
NiriLines == {ConfigBind("press", c) : c \in {"none", "opaque", "Mod"}} \union {Include}

\* An option of the core or of a plugin, set in the file to this key or to
\* another, or declared with this key as its default in the metadata.
WayfireLines ==
    {Line("bind", p, "press", c) : p \in {"core", "plugin"}, c \in {"none", "opaque", "another", "default"}}

\* A hotkey line of sxhkdrc and its command, sequences in braces expanded.
SxhkdLines == {ConfigBind(f, c) : f \in {"press", "release", "replay"}, c \in {"none", "opaque"}}

LinesOf(e) ==
    CASE e \in Tiling -> TilingLines
      [] e = "river" -> RiverLines
      [] e = "dwl" -> DwlLines
      [] e = "herbstluftwm" -> HerbstluftwmLines
      [] e \in {"openbox", "labwc"} -> KeybindElements
      [] e = "niri" -> NiriLines
      [] e = "wayfire" -> WayfireLines
      [] OTHER -> SxhkdLines

\* The file that is included, if any is.
Extras(main) ==
    IF Include \notin ToSet(main) THEN {<<>>} ELSE {<<l>> : l \in LinesOf(engine) \ {Include}}

\* The lines in the order of an include: main, with extra in its place.
WithIncludes(main, extra) ==
    FoldLeft(LAMBDA read, line : IF line = Include THEN read \o extra ELSE Append(read, line), <<>>, main)

LinesIn(files) == WithIncludes(files.main, files.extra)

SameTrigger(a, b) == a.mode = b.mode /\ a.flow = b.flow /\ a.cond = b.cond

-----------------------------------------------------------------------------
(* External: what the compositor does with the key, on a keyboard that      *)
(* meets the conditions or not. The last line of a trigger counts.          *)
BoundBy(lines, mode, flows, conds) ==
    \E i \in DOMAIN lines :
        /\ lines[i].kind = "bind" /\ lines[i].mode = mode /\ lines[i].flow \in flows /\ lines[i].cond \in conds
        /\ \A j \in DOMAIN lines : j > i => ~SameTrigger(lines[j], lines[i])

\* The last line of the file is the value of an option, else its default.
OptionValue(lines, plugin) ==
    LET set == SelectLastInSeq(lines, LAMBDA l : l.mode = plugin /\ l.cond # "default") IN
    IF set # 0 THEN lines[set].cond
    ELSE IF \E i \in DOMAIN lines : lines[i].mode = plugin THEN "default" ELSE "unset"

BindsTheKey(value) == value \in {"none", "opaque", "default"}

\* sxhkd: the first hotkey on press, of those with one of conds, gives the key back.
Replays(lines, conds) ==
    LET first == SelectInSeq(lines, LAMBDA l : l.cond \in conds /\ l.flow # "release") IN
    first # 0 /\ lines[first].flow = "replay"

CompositorDoes(by, lines, now, meets) ==
    LET conds == {"none", "opaque"} \union (IF meets THEN {"device"} ELSE {})
                 \union (IF now.nested THEN {} ELSE {"Mod"})
        in(flows) == BoundBy(lines, now.mode, flows, conds) IN
    IF ~now.alive THEN "pass"
    ELSE IF by = "wayfire" THEN
            IF \/ BindsTheKey(OptionValue(lines, "core"))
               \/ now.plugin = "loaded" /\ BindsTheKey(OptionValue(lines, "plugin"))
            THEN "consumed" ELSE "pass"
    ELSE IF by = "sxhkd" THEN
            IF lines = <<>> THEN "pass" ELSE IF Replays(lines, {"none", "opaque"}) THEN "handled" ELSE "consumed"
    ELSE IF by = "sway" THEN
            IF in({"press"}) THEN "consumed" ELSE IF in({"release"}) THEN "handled" ELSE "pass"
    ELSE IF in({"press", "release"}) THEN "consumed" ELSE "pass"

\* What becomes of the key on every keyboard, if that is the same.
TruthOf(by, lines, now) ==
    {what \in {"pass", "handled", "consumed"} : \A meets \in BOOLEAN : CompositorDoes(by, lines, now, meets) = what}

-----------------------------------------------------------------------------
(* What whykey makes of the lines. *)
\* The binding table of tiling.rs: a bind takes the place of one with the same
\* trigger, an unbind removes it.
WithBinding(table, line) ==
    {b \in table : ~SameTrigger(b, line)} \union (IF line.kind = "bind" THEN {line} ELSE {})

BindingTable(lines) == FoldLeft(WithBinding, {}, lines)

\* tiling.rs inspect: what can be read of the mode's binds decides; gaps and an
\* unknown mode leave doubt.
TilingVerdict ==
    LET table == BindingTable(told.lines)
        mode == IF told.state = "unknown" THEN "default" ELSE told.state
        active(flow, cond) == \E b \in table : b.mode = mode /\ b.flow = flow /\ b.cond = cond IN
    IF active("press", "none") THEN IF told.state = "unknown" THEN "unsure" ELSE "consumed"
    ELSE IF active("release", "none") THEN
            IF told.state = "unknown" THEN "unsure" ELSE IF engine = "sway" THEN "handled" ELSE "consumed"
    ELSE IF \/ active("press", "device") \/ active("release", "device")
            \/ told.state = "unknown" \/ told.gap
    THEN "unsure" ELSE "pass"

\* River, herbstluftwm, dwl, labwc, Openbox: a row with the very combination.
RowMatches == \E i \in DOMAIN told.lines : told.lines[i].cond = "none"

ConditionalVerdict == IF RowMatches THEN "unsure" ELSE "pass"

\* dwl and labwc: the rows count when the process runs.
ProcessVerdict == IF ~RowMatches THEN "pass" ELSE IF told.state = "running" THEN "consumed" ELSE "unsure"

OpenboxVerdict == "unsure"

\* mod_candidates: Mod is what it is nested or not; both while that is unknown.
ModMayMatch == told.state # "winit"

NiriVerdict ==
    IF RowMatches \/ (ModMayMatch /\ \E i \in DOMAIN told.lines : told.lines[i].cond = "Mod") THEN "unsure"
    ELSE IF \E i \in DOMAIN told.lines : told.lines[i].cond = "opaque" THEN "unsure" ELSE "pass"

\* inspect_file: without the running state only a pass is sure.
WayfireFileVerdict ==
    LET declared(l) == \E i \in DOMAIN told.lines : told.lines[i].cond # "default" /\ told.lines[i].mode = l.mode
        counts(l) == l.cond \in {"none", "opaque"} \/ (l.cond = "default" /\ ~declared(l)) IN
    IF \E i \in DOMAIN told.lines : counts(told.lines[i]) THEN "unsure" ELSE "pass"

\* load_of: the core always, a configured plugin when its library is mapped.
LoadOf(plugin) ==
    IF plugin = "core" THEN "loaded" ELSE IF told.configured THEN told.state ELSE "not loaded"

\* inspect_live: the value of every option of the core and of the configured
\* plugins.
WayfireLiveVerdict ==
    LET value(p) == OptionValue(told.lines, p)
        asked == {p \in {"core", "plugin"} : p = "core" \/ told.configured}
        hits == {p \in asked : value(p) \in {"none", "default"}}
        active == {p \in hits : LoadOf(p) = "loaded"}
        unknown == {p \in hits : LoadOf(p) = "unknown"} IN
    IF Cardinality(active) = 1 /\ unknown = {} THEN "consumed"
    ELSE IF active # {} \/ unknown # {} \/ \E p \in asked : value(p) = "opaque" THEN "unsure"
    ELSE "pass"

\* sxhkd: the first hotkey that runs on press; only a replayed key is sure.
SxhkdVerdict == IF Replays(told.lines, {"none"}) THEN "handled" ELSE "unsure"

CompositorVerdict ==
    IF told.failed THEN "unsure"
    ELSE IF engine \in Tiling THEN TilingVerdict
    ELSE IF engine \in {"river", "herbstluftwm"} THEN ConditionalVerdict
    ELSE IF engine \in {"dwl", "labwc"} THEN ProcessVerdict
    ELSE IF engine = "openbox" THEN OpenboxVerdict
    ELSE IF engine = "niri" THEN NiriVerdict
    ELSE IF engine = "wayfire" THEN IF told.live THEN WayfireLiveVerdict ELSE WayfireFileVerdict
    ELSE SxhkdVerdict

-----------------------------------------------------------------------------
ConfigInit ==
    /\ engine \in Engines
    /\ \E main \in BoundedSeq(LinesOf(engine), MaxConfigLines) : \E extra \in Extras(main) :
          running = [main |-> main, extra |-> extra]
    /\ onDisk = running
    /\ session \in [mode : {"default"}, nested : IF engine = "niri" THEN BOOLEAN ELSE {FALSE},
                     plugin : IF engine = "wayfire" THEN {"off", "loaded", "failed"} ELSE {"off"},
                     ipc : IF engine = "wayfire" THEN BOOLEAN ELSE {FALSE},
                     alive : IF engine \in {"dwl", "labwc"} THEN BOOLEAN ELSE {TRUE}]
    /\ wmPc = "config" /\ configChanges = 0 /\ truths = {}
    /\ told = [lines |-> <<>>, gap |-> FALSE, failed |-> FALSE, state |-> "unknown",
               configured |-> FALSE, live |-> FALSE]

\* The user works on while whykey asks.
UserChanges ==
    /\ wmPc # "done" /\ configChanges < MaxConfigChanges /\ configChanges' = configChanges + 1
    /\ UNCHANGED <<engine, wmPc, told, truths>>

EditConfig ==
    /\ UserChanges /\ onDisk = running
    /\ \E line \in LinesOf(engine) \ {Include} :
          \/ onDisk' = [onDisk EXCEPT !.main = Append(@, line)]
          \/ onDisk.extra # <<>> /\ onDisk' = [onDisk EXCEPT !.extra = <<line>>]
    /\ UNCHANGED <<running, session>>

ReloadConfig == UserChanges /\ running # onDisk /\ running' = onDisk /\ UNCHANGED <<onDisk, session>>

ModeMoves ==
    /\ UserChanges /\ engine \in Tiling \union {"river"}
    /\ session' = [session EXCEPT !.mode = IF @ = "default" THEN "other" ELSE "default"]
    /\ UNCHANGED <<running, onDisk>>

PluginLoads ==
    /\ UserChanges /\ engine = "wayfire" /\ session.plugin = "off"
    /\ session' = [session EXCEPT !.plugin = "loaded"]
    /\ UNCHANGED <<running, onDisk>>

\* Every question is a moment the answer may be about.
AsksNow ==
    /\ truths' = truths \union TruthOf(engine, LinesIn(running), session)
    /\ UNCHANGED <<engine, running, onDisk, session, configChanges>>

\* tiling.rs load: the main file as the compositor runs it, what it includes from
\* the reply (i3) or from the disk.
GetConfig ==
    /\ wmPc = "config" /\ engine \in Tiling /\ wmPc' = "state" /\ AsksNow
    /\ \/ told' = [told EXCEPT !.failed = TRUE]
       \/ \E extra \in {running.extra, onDisk.extra} :
             /\ engine = "sway" => extra = onDisk.extra
             /\ told' = [told EXCEPT !.lines = WithIncludes(running.main, extra)]
       \/ /\ \E i \in DOMAIN running.main : running.main[i] = Include
          /\ told' = [told EXCEPT !.lines = WithIncludes(running.main, <<>>), !.gap = TRUE]

GetBindingState ==
    /\ wmPc = "state" /\ engine \in Tiling /\ wmPc' = "done" /\ AsksNow
    /\ \E mode \in {session.mode, "unknown"} : told' = [told EXCEPT !.state = mode]

\* load_config and query of the others. An include that Niri cannot read fails
\* the whole.
ReadConfig ==
    /\ wmPc = "config" /\ engine \notin Tiling \union {"wayfire"} /\ wmPc' = "state" /\ AsksNow
    /\ LET files == IF engine = "herbstluftwm" THEN running ELSE onDisk IN
       \/ told' = [told EXCEPT !.failed = TRUE]
       \/ told' = [told EXCEPT !.lines = LinesIn(files)]

AskOutputs ==
    /\ wmPc = "state" /\ engine = "niri" /\ wmPc' = "done" /\ AsksNow
    /\ \E outputs \in {"unknown", IF session.nested THEN "winit" ELSE "connectors"} :
          told' = [told EXCEPT !.state = outputs]

CollectProcesses ==
    /\ wmPc = "state" /\ engine \in {"dwl", "labwc"} /\ wmPc' = "done" /\ AsksNow
    /\ told' = [told EXCEPT !.state = IF session.alive THEN "running" ELSE "unknown"]

NothingMoreToAsk ==
    /\ wmPc = "state" /\ engine \in {"river", "herbstluftwm", "openbox", "sxhkd"} /\ wmPc' = "done" /\ AsksNow
    /\ UNCHANGED told

\* loaded_plugins: the libraries in the memory of the compositor, when whykey may
\* look at them.
ReadMaps ==
    /\ wmPc = "config" /\ engine = "wayfire" /\ wmPc' = "state" /\ AsksNow
    /\ told' \in {[told EXCEPT !.state = IF session.plugin = "loaded" THEN "loaded" ELSE "not loaded"], told}

\* live_option of each option; the file when the socket is not there or fails.
AskOptions ==
    /\ wmPc = "state" /\ engine = "wayfire" /\ wmPc' = "done" /\ AsksNow
    /\ \/ /\ session.ipc
          /\ told' = [told EXCEPT !.lines = LinesIn(running), !.live = TRUE, !.configured = session.plugin # "off"]
       \/ told' = [told EXCEPT !.lines = LinesIn(onDisk)]

ConfigNext ==
    \/ EditConfig \/ ReloadConfig \/ ModeMoves \/ PluginLoads
    \/ GetConfig \/ GetBindingState \/ ReadConfig \/ AskOutputs \/ CollectProcesses
    \/ NothingMoreToAsk \/ ReadMaps \/ AskOptions

ConfigSpec == ConfigInit /\ [][ConfigNext]_configVars

-----------------------------------------------------------------------------
\* Binds some adapters drop without a word, a bind for one device only next to
\* one that lets the press through, and a file that could not be read next to a
\* bind that could.
BeyondTheAdapter ==
    LET lines == told.lines IN
    \/ engine \in {"river", "dwl", "herbstluftwm", "labwc", "sxhkd"} /\ \E i \in DOMAIN lines : lines[i].cond = "opaque"
    \/ engine = "sway" /\ \E i, j \in DOMAIN lines : lines[i].cond = "device" /\ lines[j].flow = "release"
    \/ told.gap /\ told.lines # <<>>

\* A definite verdict (the key passes, is handled and passes, is consumed) was
\* right at a moment whykey asked at, on every keyboard, whatever the user did
\* in between; files are those the compositor runs.
ConfigVerdictIsSound ==
    wmPc = "done" /\ running = onDisk /\ ~BeyondTheAdapter =>
        CompositorVerdict = "unsure" \/ CompositorVerdict \in truths
=============================================================================
