------------------------------ MODULE Remappers ------------------------------
(***************************************************************************)
(* What whykey says the remappers do to a key (src/remapper/): keyd,       *)
(* kanata, kmonad, input-remapper and xremap are never asked, their files  *)
(* are evaluated for the one press. Next to it the daemons, that get the   *)
(* modifiers and the key one after the other, each from the one before.    *)
(***************************************************************************)
EXTENDS Integers, Sequences, SequencesExt

CONSTANTS
    Daemons,     \* the remappers of the instance, of the five below
    MaxRemappers,\* bound: remappers found
    MaxRules     \* bound: rules of all their configurations

RemapEngines == {"keyd", "kanata", "kmonad", "input-remapper", "xremap"}

ASSUME RemappersAssumption == Daemons \subseteq RemapEngines /\ {MaxRemappers, MaxRules} \subseteq Nat

VARIABLES
    remappers, \* the daemons, in the order the events take
    layoutUs,  \* whether the layout is known to be plain US
    holding,   \* modifiers held, in the order they were pressed, with the
               \* layer of keyd that each one activated
    flight,    \* the press between two daemons, or what became of it
    stage,     \* daemons it has passed; -1 before the key is pressed
    touched    \* the daemons that changed it

remapVars == <<remappers, layoutUs, holding, flight, stage, touched>>

-----------------------------------------------------------------------------
(* Keys: two printable ones, and those of Ctrl and Alt.                     *)
ModifierCodes(m) == IF m = "C" THEN {"lctl", "rctl"} ELSE {"lalt"}
ModifierKeys == {"lctl", "rctl", "lalt"}

Press(mods, key) == [mods |-> mods, key |-> key]
Effect(is, press) == [is |-> is, press |-> press]
NoPress == Press({}, "none")
Untouched == Effect("untouched", NoPress)
Consume == Effect("consume", NoPress)
Conditional == Effect("conditional", NoPress)
Remap(mods, key) == Effect("remap", Press(mods, key))

\* A rule: the section it is in, its trigger, its action, and whether a
\* window, device or mode limits it.
Rule(at, mods, key, act, limited) ==
    [at |-> at, mods |-> mods, key |-> key, act |-> act, limited |-> limited]
Limited == TRUE
Unlimited == FALSE

\* What the files of each can state; chords and unknown names are no rule.
KeydRules ==
    {Rule(s, {}, "x", a, Unlimited) : s \in {"main", "control", "alt", "composite", "mine"},
                                  a \in {"y", "C-y", "macro", "timing"}}
    \union {Rule("main", {}, "y", "layer-mine", Unlimited)}

\* Sections of keyd-application-mapper, for some windows.
AppBindings == {Rule("app", {}, "x", "y", Limited)}

LayerRules == {Rule("base", {}, k, a, Unlimited) : k \in {"x", "lctl", "rctl"}, a \in {"y", "C-y", "transparent", "off", "timing"}}

KanataOverrides == {Rule("override", m, "x", "y", Unlimited) : m \in {{}, {"C"}}}

\* A mapping is alone or needs other inputs too.
PresetRules == {Rule("preset", {}, k, a, l) : k \in {"x", "lctl", "rctl"}, a \in {"y", "C-y", "off"}, l \in BOOLEAN}

XremapRules ==
    {Rule("modmap", {}, k, a, l) : k \in {"x", "lctl", "rctl"}, a \in {"y", "off"}, l \in BOOLEAN}
    \union {Rule(s, m, k, a, l) : s \in {"keymap", "exact"}, m \in {{}, {"C"}}, k \in {"x", "y"},
                                  a \in {"y", "C-y", "off"}, l \in BOOLEAN}

RulesOf(engine) ==
    CASE engine = "keyd" -> KeydRules \union AppBindings
      [] engine = "kanata" -> LayerRules \union KanataOverrides
      [] engine = "kmonad" -> LayerRules
      [] engine = "input-remapper" -> PresetRules
      [] OTHER -> XremapRules

\* action_effect, resolve, output: an action under the modifiers carried along.
ActionEffect(act, carried) ==
    CASE act = "y" -> Remap(carried, "y")
      [] act = "C-y" -> Remap(carried \union {"C"}, "y")
      [] act \in {"off", "macro", "layer-mine"} -> Consume
      [] OTHER -> Conditional

\* Where the rules of a key in a section are: a file's first one or its last
\* one counts.
In(rules, section, key) == {i \in DOMAIN rules : rules[i].at = section /\ rules[i].key = key}

AllAgree(set) == \A one, other \in set : one = other

\* held_modifier_remapped: every key of a held modifier is changed.
ModifierGone(mods, changed) == \E m \in mods : ModifierCodes(m) \subseteq changed

-----------------------------------------------------------------------------
(* keyd.rs: layers of the held modifiers, then main; the last binding of a  *)
(* layer counts.                                                            *)
LayerName(m) == IF m = "C" THEN "control" ELSE "alt"

CustomModifierLayer(rules, press) ==
    /\ "C" \in press.mods
    /\ \E i \in DOMAIN rules : rules[i].act = "layer-mine"
    /\ In(rules, "mine", press.key) # {}

\* binding_finding: the last binding of the key in a layer, under what is left
\* of the modifiers.
LastBound(rules, layer, press, carried) ==
    ActionEffect(rules[Max(In(rules, layer, press.key))].act, carried)

LookupKeyd(rules, press) ==
    LET layered == {LastBound(rules, LayerName(m), press, press.mods \ {m}) :
                        m \in {m \in press.mods : In(rules, LayerName(m), press.key) # {}}} IN
    IF press.mods = {"C", "A"} /\ In(rules, "composite", press.key) # {}
    THEN LastBound(rules, "composite", press, {})
    ELSE IF layered # {} THEN IF AllAgree(layered) THEN CHOOSE e \in layered : TRUE ELSE Conditional
    ELSE IF In(rules, "main", press.key) # {} THEN LastBound(rules, "main", press, press.mods)
    ELSE Untouched

EvaluateKeyd(r, press) ==
    {IF CustomModifierLayer(r.rules, press) THEN Conditional ELSE LookupKeyd(r.rules, press)}
    \union (IF r.scoped THEN {Untouched} ELSE {})
    \union (IF In(r.rules, "app", press.key) # {} THEN {Conditional} ELSE {})

-----------------------------------------------------------------------------
(* kanata.rs: the first layer, then the overrides of what it emits.         *)
ResolveButton(act, press) ==
    IF act = "transparent" THEN Effect("remap", press) ELSE ActionEffect(act, press.mods)

ApplyOverrides(rules, output) ==
    LET matched == In(rules, "override", output.key) IN
    IF matched = {} THEN Effect("remap", output)
    ELSE IF rules[Min(matched)].mods # {} \/ output.mods # {} THEN Conditional
    ELSE Remap({}, "y")

\* The action of the first entry of a key in the layer.
BaseAct(rules, code) == rules[Min(In(rules, "base", code))].act

KanataKey(r, press) ==
    LET bound == In(r.rules, "base", press.key) # {}
        out == IF bound THEN ResolveButton(BaseAct(r.rules, press.key), press) ELSE Effect("remap", press) IN
    IF ~bound /\ ~r.through THEN Untouched
    ELSE IF out.is = "remap" THEN ApplyOverrides(r.rules, out.press) ELSE out

EvaluateKanata(r, press) ==
    LET changed == {code \in ModifierKeys : In(r.rules, "base", code) # {} /\ BaseAct(r.rules, code) # "transparent"} IN
    {IF ModifierGone(press.mods, changed) THEN Conditional ELSE KanataKey(r, press)}
    \union (IF r.scoped THEN {Untouched} ELSE {})

(* kmonad.rs: what the layer does not handle is dropped, unless the file    *)
(* lets it fall through.                                                    *)
Unhandled == Effect("unhandled", NoPress)

ResolveName(act, press) == IF act = "transparent" THEN Unhandled ELSE ActionEffect(act, press.mods)

KmonadKey(r, press) ==
    LET resolved == IF In(r.rules, "base", press.key) = {} THEN Unhandled
                    ELSE ResolveName(BaseAct(r.rules, press.key), press) IN
    IF resolved # Unhandled THEN resolved ELSE IF r.through THEN Untouched ELSE Consume

EvaluateKmonad(r, press, captured) ==
    LET changed == {code \in ModifierKeys : KmonadKey(r, Press({}, code)) # Untouched} IN
    {IF ModifierGone(press.mods, changed) THEN Conditional ELSE KmonadKey(r, press)}
    \union (IF captured THEN {} ELSE {Untouched})

-----------------------------------------------------------------------------
(* input_remapper.rs: every mapping of the key is a finding; a limited one  *)
(* needs other inputs too.                                                  *)
\* Every other action needs nothing but the key: a symbol, a macro, "disable".
PresetOutput(m, press) == IF m.limited THEN Conditional ELSE ActionEffect(m.act, press.mods)

EvaluatePreset(r, press, captured) ==
    LET changed == {code \in ModifierKeys : \E i \in In(r.rules, "preset", code) : ~r.rules[i].limited}
        effects == {PresetOutput(r.rules[i], press) : i \in In(r.rules, "preset", press.key)} IN
    (IF ModifierGone(press.mods, changed) THEN {Conditional}
     ELSE IF effects = {} THEN {Untouched} ELSE effects)
    \union (IF captured THEN {} ELSE {Untouched})

-----------------------------------------------------------------------------
(* xremap.rs: the first modmap entry of the key, then the keymap entry that *)
(* matches exactly, or the first that leaves modifiers over.                *)
ModmapFor(rules, code) ==
    LET mine == In(rules, "modmap", code) IN
    IF mine = {} THEN Untouched
    ELSE IF rules[Min(mine)].limited THEN Conditional ELSE ActionEffect(rules[Min(mine)].act, {})

\* What the entry's own modifiers do not cover is held on.
KeymapAction(entry, press) ==
    IF entry.limited THEN Conditional ELSE ActionEffect(entry.act, press.mods \ entry.mods)

\* Entries for the key: those of exactly its modifiers, and those that leave
\* some of them over.
ExactFits(rules, press) ==
    {i \in DOMAIN rules : rules[i].at \in {"keymap", "exact"} /\ rules[i].key = press.key
                          /\ rules[i].mods = press.mods}
LooseFits(rules, press) ==
    {i \in In(rules, "keymap", press.key) : rules[i].mods \subseteq press.mods}

KeymapFor(rules, press) ==
    LET exact == ExactFits(rules, press)
        fits == exact \union LooseFits(rules, press) IN
    IF fits = {} THEN Untouched
    ELSE KeymapAction(rules[Min(IF exact = {} THEN fits ELSE exact)], press)

XremapKey(rules, press) ==
    LET modmapped == ModmapFor(rules, press.key)
        key == IF modmapped.is = "remap" THEN modmapped.press.key ELSE press.key
        keymapped == KeymapFor(rules, Press(press.mods, key)) IN
    IF modmapped.is \in {"consume", "conditional"} THEN modmapped
    ELSE IF keymapped # Untouched THEN keymapped ELSE Remap(press.mods, key)

EvaluateXremap(r, press) ==
    LET changed == {code \in ModifierKeys : ModmapFor(r.rules, code) # Untouched} IN
    {IF ModifierGone(press.mods, changed) THEN Conditional ELSE XremapKey(r.rules, press)}
    \union (IF r.scoped THEN {Untouched} ELSE {})

-----------------------------------------------------------------------------
Evaluate(r, press, captured) ==
    CASE r.engine = "keyd" -> EvaluateKeyd(r, press)
      [] r.engine = "kanata" -> EvaluateKanata(r, press)
      [] r.engine = "kmonad" -> EvaluateKmonad(r, press, captured /\ ~r.scoped)
      [] r.engine = "input-remapper" -> EvaluatePreset(r, press, captured /\ ~r.scoped)
      [] OTHER -> EvaluateXremap(r, press)

\* Analysis::verdict; captured: the key came from a device known to be the
\* configured one, so that its code is known too.
FindingsOf(r, press, captured) ==
    {IF e = Effect("remap", press) THEN Untouched ELSE e : e \in Evaluate(r, press, captured)}

\* Mutant of VerdictOf: one of the findings that agree not to pass decides.
AnyFinding(r, press, captured) ==
    LET acts == FindingsOf(r, press, captured) \ {Untouched} IN
    IF r.state # "read" THEN Effect(r.state, NoPress)
    ELSE IF acts = {} THEN IF captured \/ layoutUs THEN Untouched ELSE Effect("unevaluated", NoPress)
    ELSE IF ~AllAgree(acts) \/ ~r.running \/ ~(captured \/ layoutUs) THEN Conditional
    ELSE CHOOSE e \in acts : TRUE

\* query_presses: a captured code, or the US position of the key.
PositionKnown(captured) == captured \/ layoutUs

VerdictOf(r, press, captured) ==
    LET findings == FindingsOf(r, press, captured) IN
    IF r.state # "read" THEN Effect(r.state, NoPress)
    ELSE IF findings = {Untouched}
    THEN IF PositionKnown(captured) THEN Untouched ELSE Effect("unevaluated", NoPress)
    ELSE IF ~AllAgree(findings) \/ ~r.running \/ ~PositionKnown(captured) THEN Conditional
    ELSE CHOOSE e \in findings : TRUE

\* resolve_detections and combined: a key is only said to be changed when one
\* remapper alone does it for sure.
InspectDetections(press, captured) ==
    LET verdicts == [i \in DOMAIN remappers |-> VerdictOf(remappers[i], press, captured)]
        active == {i \in DOMAIN remappers : verdicts[i] # Untouched}
        is == {verdicts[i].is : i \in active} IN
    IF active = {} THEN Effect("pass", NoPress)
    ELSE IF AllAgree(active) /\ is \subseteq {"remap", "consume"}
    THEN verdicts[CHOOSE i \in active : TRUE]
    ELSE IF is \intersect {"remap", "consume", "conditional"} # {} THEN Effect("handled?", NoPress)
    ELSE Effect(IF "unreadable" \in is THEN "unavailable" ELSE "maybe", NoPress)

-----------------------------------------------------------------------------
(* The daemons. What may become of a press; consumed when nothing of it     *)
(* goes on.                                                                 *)
Performs(act, carried, press) ==
    CASE act = "transparent" -> {press}
      [] act = "y" -> {Press(carried, "y")}
      [] act = "C-y" -> {Press(carried \union {"C"}, "y")}
      [] act = "timing" -> {Press(carried, "y"), NoPress}
      [] OTHER -> {NoPress}

\* keyd: the layer activated last comes first, a composite before all.
KeydDoes(rules, held, press) ==
    LET layers == {held[i].layer : i \in DOMAIN held}
        binding == {i \in DOMAIN held : In(rules, held[i].layer, press.key) # {}}
        last == held[Max(binding)].layer
        does(layer, carried) == Performs(rules[Max(In(rules, layer, press.key))].act, carried, press) IN
    IF {"control", "alt"} \subseteq layers /\ In(rules, "composite", press.key) # {}
    THEN does("composite", {})
    ELSE IF binding # {} THEN does(last, press.mods \ {IF last = "alt" THEN "A" ELSE "C"})
    ELSE IF In(rules, "main", press.key) # {} THEN does("main", press.mods)
    ELSE {press}

LayerDoes(r, press, dropped) ==
    IF In(r.rules, "base", press.key) = {} THEN dropped
    ELSE Performs(BaseAct(r.rules, press.key), press.mods, press)

KanataDoes(r, press) ==
    {IF \E i \in In(r.rules, "override", out.key) : r.rules[i].mods = out.mods
        THEN Press({}, "y") ELSE out : out \in LayerDoes(r, press, {press})}

KmonadDoes(r, press) ==
    LET below == IF r.through THEN {press} ELSE {NoPress} IN
    IF In(r.rules, "base", press.key) # {} /\ BaseAct(r.rules, press.key) = "transparent" THEN below
    ELSE LayerDoes(r, press, below)

PresetDoes(rules, press) ==
    LET mine == In(rules, "preset", press.key) IN
    (UNION {Performs(rules[i].act, press.mods, press) : i \in mine})
    \union (IF \A i \in mine : rules[i].limited THEN {press} ELSE {})

\* Only the entries that count for the window of the moment.
XremapWith(rules, counted, press) ==
    LET modmap == In(rules, "modmap", press.key) \intersect counted
        key == IF modmap # {} /\ rules[Min(modmap)].act = "y" THEN "y" ELSE press.key
        out == Press(press.mods, key)
        exact == ExactFits(rules, out) \intersect counted
        fits == IF exact # {} THEN exact ELSE LooseFits(rules, out) \intersect counted
        entry == rules[Min(fits)] IN
    IF modmap # {} /\ rules[Min(modmap)].act = "off" THEN {NoPress}
    ELSE IF fits = {} THEN {out} ELSE Performs(entry.act, press.mods \ entry.mods, out)

\* The windows of the moment decide whether the limited entries count.
XremapDoes(rules, press) ==
    XremapWith(rules, DOMAIN rules, press)
    \union XremapWith(rules, {i \in DOMAIN rules : ~rules[i].limited}, press)

DaemonDoes(r, held, press) ==
    IF ~r.running THEN {press}
    ELSE CASE r.engine = "keyd" -> KeydDoes(r.rules, held, press)
                                   \union {Press(press.mods, "y") : i \in {i \in DOMAIN r.rules : r.rules[i].at = "app"}}
           [] r.engine = "kanata" -> IF ~r.through /\ In(r.rules, "base", press.key) = {} THEN {press}
                                     ELSE KanataDoes(r, press)
           [] r.engine = "kmonad" -> KmonadDoes(r, press)
           [] r.engine = "input-remapper" -> PresetDoes(r.rules, press)
           [] OTHER -> XremapDoes(r.rules, press)

-----------------------------------------------------------------------------
RemapInit ==
    /\ remappers = <<>> /\ layoutUs \in BOOLEAN
    /\ holding = <<>> /\ flight = NoPress /\ stage = -1 /\ touched = {}

\* locate, analyze: a daemon is found, running or not, its files are read or
\* not; it may be limited to some devices, and lets unknown keys through or not.
Found ==
    /\ Len(remappers) < MaxRemappers /\ stage = -1
    /\ \E engine \in Daemons, state \in {"read", "unreadable", "unevaluated"},
          running, scoped, through \in BOOLEAN :
          /\ \A i \in DOMAIN remappers : remappers[i].engine # engine
          /\ remappers' = Append(remappers, [engine |-> engine, state |-> state, running |-> running,
                                             scoped |-> scoped, through |-> through, rules |-> <<>>])
    /\ UNCHANGED <<layoutUs, holding, flight, stage, touched>>

\* Whatever a file says that is not read, whykey says nothing of it.
WriteRule ==
    /\ stage = -1 /\ holding = <<>>
    /\ Len(FlattenSeq([i \in DOMAIN remappers |-> remappers[i].rules])) < MaxRules
    /\ \E i \in DOMAIN remappers : \E rule \in RulesOf(remappers[i].engine) :
          /\ remappers[i].state = "read"
          /\ remappers' = [remappers EXCEPT ![i].rules = Append(@, rule)]
    /\ UNCHANGED <<layoutUs, holding, flight, stage, touched>>

\* Some key gives the modifier: one that no daemon changes, or in keyd the
\* layer of the user's own that holds it.
Hold ==
    /\ stage = -1 /\ remappers # <<>>
    /\ \E m \in {"C", "A"} :
          /\ \A i \in DOMAIN holding : holding[i].mod # m
          /\ \E code \in ModifierCodes(m) : \A i \in DOMAIN remappers :
                DaemonDoes(remappers[i], holding, Press({}, code)) = {Press({}, code)}
          /\ \E layer \in {LayerName(m)} \union
                  (IF m = "C" /\ \E i \in DOMAIN remappers : In(remappers[i].rules, "main", "y") # {}
                   THEN {"mine"} ELSE {}) :
                holding' = Append(holding, [mod |-> m, layer |-> layer])
    /\ UNCHANGED <<remappers, layoutUs, flight, stage, touched>>

Strike ==
    /\ stage = -1 /\ remappers # <<>>
    /\ flight' = Press({holding[i].mod : i \in DOMAIN holding}, "x")
    /\ stage' = 0
    /\ UNCHANGED <<remappers, layoutUs, holding, touched>>

\* The next daemon gets what the one before it gave out, unless it does not
\* read the device.
PassOn ==
    /\ stage \in 0..(Len(remappers) - 1)
    /\ LET r == remappers[stage + 1] IN
       \E out \in (IF flight = NoPress THEN {NoPress} ELSE DaemonDoes(r, holding, flight))
                  \union (IF r.scoped THEN {flight} ELSE {}) :
          /\ flight' = out
          /\ touched' = IF out = flight THEN touched ELSE touched \union {stage + 1}
    /\ stage' = stage + 1
    /\ UNCHANGED <<remappers, layoutUs, holding>>

RemapNext == Found \/ WriteRule \/ Hold \/ Strike \/ PassOn

RemapSpec == RemapInit /\ [][RemapNext]_remapVars

-----------------------------------------------------------------------------
Asked == Press({holding[i].mod : i \in DOMAIN holding}, "x")

\* When the chord was typed on a keyboard every daemon reads and the key is not
\* at another place of the layout, a definite verdict (the key passes, it is
\* replaced by a press, it goes no further) is what came out in the end,
\* whatever the order the modifiers were held in, the windows and the times.
\* Left out: a second remapper that acts on what the first one gives out, and
\* a modifier that comes from a layer of the user's own.
RemapIsWhatComesOut ==
    stage = Len(remappers) /\ AllAgree(touched) /\ (\A i \in DOMAIN holding : holding[i].layer # "mine") =>
        \A captured \in BOOLEAN :
            LET says == InspectDetections(Asked, captured) IN
            /\ says.is = "pass" => flight = Asked
            /\ says.is = "remap" => flight = says.press
            /\ says.is = "consume" => flight = NoPress

=============================================================================
