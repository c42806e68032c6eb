------------------------------- MODULE HyprBinds -------------------------------
(***************************************************************************)
(* What whykey says of a key under Hyprland (src/layers/hyprland): the     *)
(* binds, the submap and the keyboards are asked for one after the other   *)
(* (ipc.rs), binds are matched with a certainty, and the walk of           *)
(* handleKeybinds is followed for every way the uncertain ones can turn    *)
(* out (matching.rs). Flags that hyprctl leaves out are taken from the     *)
(* configuration (config.rs).                                              *)
(***************************************************************************)
EXTENDS Integers, Sequences, SequencesExt, FiniteSets

CONSTANTS
    MaxLines,   \* bound: lines of the configuration
    MaxMoves    \* bound: submap changes during an inspection

ASSUME HyprBindsAssumption == MaxLines \in Nat /\ MaxMoves \in Nat

VARIABLES
    config,     \* the configuration: the lines of the main file
    extra,      \* and of the file it may source
    reports,    \* whether this hyprctl reports ignore_mods
    binds,      \* the binds Hyprland runs
    submap,     \* its current submap
    previous,   \* the submap before whykey's capture, when that is current
    hyprPc,     \* "binds", "submap", "previous", "done"
    probe,      \* what whykey was told
    moves       \* submap changes so far

hyprVars == <<config, extra, reports, binds, submap, previous, hyprPc, probe, moves>>

CAPTURE == "__whykey_capture"

-----------------------------------------------------------------------------
(* Configuration lines. The key is always the one that is asked about, or  *)
(* catchall, or one that hyprctl does not report; modifiers are "same" as  *)
(* in the question or "other". A bind that is limited to some keyboards    *)
(* may fit the one in use (fits), and whykey may not be able to tell.      *)
Flows == [how : {"press", "release", "long"}, consumes : {"yes", "no", "auto"},
          dispatcher : {"exec", "submap", "pass", "global"}]
Exec == [how |-> "press", consumes |-> "yes", dispatcher |-> "exec"]

Binds(flows, keys, mods, ignores, modes, devices) ==
    [kind : {"bind"}, flow : flows, key : keys, mods : mods, ignore : ignores,
     mode : modes, device : devices]

Devices == {"any", "unknown fits", "unknown", "match", "excluded"}

FlowLines ==
    Binds(Flows, {"k"}, {"same"}, {FALSE}, {"default"}, {"any", "unknown", "unknown fits"})
    \union Binds(Flows, {"catchall", "hidden k", "hidden other"}, {"same"}, {FALSE}, {"universal"}, {"any"})
    \union Binds({Exec}, {"k"}, {"same"}, {FALSE}, {"mode"}, Devices)

HintLines ==
    Binds({Exec}, {"k"}, {"same", "other", "$m"}, BOOLEAN, {"default", "mode"}, {"any"})
    \union [kind : {"unbind"}, mods : {"same", "other", "$m"}]
    \union [kind : {"set"}, value : {"same", "other"}]
    \union {[kind |-> "source"]}

-----------------------------------------------------------------------------
(* External: Hyprland reads its configuration line by line, with the       *)
(* variables as they are at each line.                                     *)
Resolve(mods, value) == IF mods = "$m" THEN value ELSE mods

Without(list, removed) ==
    FoldLeft(LAMBDA kept, b : IF b \in removed THEN kept ELSE Append(kept, b), <<>>, list)

WithLine(state, line) ==
    CASE line.kind = "set" -> [state EXCEPT !.value = line.value]
      [] line.kind = "bind" ->
            IF Resolve(line.mods, state.value) = "unset" THEN state
            ELSE [state EXCEPT !.binds = Append(@,
                     [line EXCEPT !.mods = Resolve(line.mods, state.value)])]
      [] line.kind = "unbind" ->
            [state EXCEPT !.binds = Without(@, {b \in ToSet(@) :
                b.key = "k" /\ b.mods = Resolve(line.mods, state.value)})]
      [] OTHER -> [state EXCEPT !.binds = @ \o extra]

BindsOf(lines) == FoldLeft(WithLine, [value |-> "unset", binds |-> <<>>], lines).binds

\* collect_config_hints: the variables of the file first, then its binds.
LastSet(lines) ==
    LET last == SelectLastInSeq(lines, LAMBDA l : l.kind = "set") IN
    IF last = 0 THEN "unset" ELSE lines[last].value

WithHint(value, hints, line) ==
    CASE line.kind = "bind" ->
            IF line.key = "k" /\ Resolve(line.mods, value) # "unset"
            THEN Append(hints, [mods |-> Resolve(line.mods, value), ignore |-> line.ignore])
            ELSE hints
      [] line.kind = "unbind" ->
            Without(hints, {h \in ToSet(hints) : h.mods = Resolve(line.mods, value)})
      [] OTHER -> hints

\* A file is read once, where it is sourced first.
Inlined(lines) ==
    LET first == SelectInSeq(lines, LAMBDA l : l.kind = "source") IN
    IF first = 0 THEN lines
    ELSE SubSeq(lines, 1, first) \o extra \o SubSeq(lines, first + 1, Len(lines))

ConfigHints ==
    FoldLeft(LAMBDA hints, line : WithHint(LastSet(config), hints, line), <<>>, Inlined(config))

-----------------------------------------------------------------------------
HyprInit ==
    /\ reports \in BOOLEAN
    /\ \/ config \in BoundedSeq(FlowLines, 2) /\ extra = <<>> /\ reports
       \/ /\ config \in BoundedSeq(HintLines, MaxLines)
          /\ extra \in BoundedSeq(Binds({Exec}, {"k"}, {"other"}, {TRUE}, {"default"}, {"any"}), 1)
    /\ binds = BindsOf(config)
    /\ \/ submap \in {"default", "mode"} /\ previous = "none"
       \/ submap = CAPTURE /\ previous \in {"default", "mode"}
    /\ hyprPc = "binds" /\ probe = [binds |-> <<>>, submap |-> "none", assumed |-> FALSE, at |-> "none"]
    /\ moves = 0

\* External: the user enters or leaves a submap, or whykey's capture ends.
SubmapMoves ==
    /\ hyprPc # "done" /\ moves < MaxMoves /\ moves' = moves + 1
    /\ submap' \in {"default", "mode"} \ {submap} /\ previous' = "none"
    /\ UNCHANGED <<config, extra, reports, binds, hyprPc, probe>>

\* collect_probe and inspect_system: hyprctl binds, then hyprctl submap, and
\* the state of whykey's own hook when its submap is current.
QueryBinds ==
    /\ hyprPc = "binds" /\ hyprPc' = "submap"
    /\ probe' = [probe EXCEPT !.binds = binds]
    /\ UNCHANGED <<config, extra, reports, binds, submap, previous, moves>>

QuerySubmap ==
    /\ hyprPc = "submap"
    /\ probe' = [probe EXCEPT !.submap = submap,
                              !.at = IF submap = CAPTURE THEN previous ELSE submap]
    /\ hyprPc' = IF submap = CAPTURE THEN "previous" ELSE "done"
    /\ UNCHANGED <<config, extra, reports, binds, submap, previous, moves>>

\* query_previous_submap_from_lua, or the default submap and a note.
QueryPrevious ==
    /\ hyprPc = "previous" /\ hyprPc' = "done"
    /\ probe' = IF previous # "none" THEN [probe EXCEPT !.submap = previous, !.at = previous]
                ELSE [probe EXCEPT !.submap = "default", !.assumed = TRUE]
    /\ UNCHANGED <<config, extra, reports, binds, submap, previous, moves>>

HyprNext == SubmapMoves \/ QueryBinds \/ QuerySubmap \/ QueryPrevious
HyprSpec == HyprInit /\ [][HyprNext]_hyprVars

-----------------------------------------------------------------------------
(* inspect_json_with_keycode: which binds may take the key, how certainly. *)
IsActive(b, mode) == b.mode = "universal" \/ b.mode = mode

ConfigIgnoreMods(mods) ==
    LET last == SelectLastInSeq(ConfigHints, LAMBDA h : h.mods = mods) IN
    IF last = 0 THEN "unknown" ELSE IF ConfigHints[last].ignore THEN "yes" ELSE "no"

BindingIgnoreMods(b) ==
    IF reports THEN IF b.ignore THEN "yes" ELSE "no"
    ELSE IF b.key = "k" THEN ConfigIgnoreMods(b.mods)
    ELSE "unknown"

Certainty(b) ==
    IF b.device = "excluded" THEN "no"
    ELSE IF b.key \in {"hidden k", "hidden other"}
         THEN IF b.mods = "same" THEN "unresolved key" ELSE "no"
    ELSE IF b.mods = "other" /\ BindingIgnoreMods(b) = "no" THEN "no"
    ELSE IF b.device \in {"unknown", "unknown fits"} THEN "possible device"
    ELSE IF b.mods = "same" THEN "exact"
    ELSE IF BindingIgnoreMods(b) = "yes" THEN "insensitive"
    ELSE "possible ignore"

IsCertain(c) == c \in {"exact", "insensitive"}

IsSpecial(b) == b.flow.dispatcher \in {"pass", "global"}

RunsOnPress(b) == b.flow.how # "long" /\ (b.flow.how = "release" => IsSpecial(b))

IsCandidate(b, mode) == IsActive(b, mode) /\ Certainty(b) # "no"

BindCandidates(list, mode) ==
    FoldLeft(LAMBDA found, b :
        IF IsCandidate(b, mode) THEN Append(found, [bind |-> b, certainty |-> Certainty(b)]) ELSE found,
        <<>>, list)

\* reachable_matches: what the walk cannot get to is left out.
Marks(m) == m.bind.flow.how = "release" /\ m.bind.flow.consumes = "yes" /\ ~IsSpecial(m.bind)

Reach(sofar, m) ==
    IF sofar.stopped \/ (sofar.found /\ m.bind.key = "catchall") THEN sofar
    ELSE [reached |-> Append(sofar.reached, m),
          stopped |-> IsCertain(m.certainty) /\ m.bind.flow.dispatcher = "submap" /\ RunsOnPress(m.bind),
          found |-> sofar.found \/ (IsCertain(m.certainty) /\ Marks(m))]

ReachableMatches(candidates) ==
    FoldLeft(Reach, [reached |-> <<>>, stopped |-> FALSE, found |-> FALSE], candidates).reached

-----------------------------------------------------------------------------
(* binding_propagation: the states the walk can be in after each bind.     *)
Start == [found |-> FALSE, last |-> "kept", processing |-> TRUE]

Successes(b) == IF b.flow.consumes = "auto" /\ b.flow.dispatcher # "pass" THEN BOOLEAN ELSE {TRUE}

Run(s, b) ==
    IF RunsOnPress(b)
    THEN {[found |-> CASE b.flow.consumes = "no" -> s.found
                       [] b.flow.consumes = "auto" -> s.found \/ success
                       [] OTHER -> TRUE,
           last |-> IF b.flow.dispatcher = "pass" THEN "redirected" ELSE "kept",
           processing |-> b.flow.dispatcher # "submap"] : success \in Successes(b)}
    ELSE {[s EXCEPT !.found = @ \/ (b.flow.how = "release" /\ b.flow.consumes = "yes")]}

\* Mutant: an uncertain bind is taken to run.
AlwaysRuns(states, m) == UNION {IF s.processing THEN Run(s, m.bind) ELSE {s} : s \in states}

AfterBind(states, m) ==
    (IF IsCertain(m.certainty) THEN {} ELSE states)
    \union UNION {IF s.processing THEN Run(s, m.bind) ELSE {s} : s \in states}

Propagates(s) ==
    IF s.last = "redirected" THEN "Redirected" ELSE IF s.found THEN "Stops" ELSE "Continues"

BindingPropagation(matches) ==
    LET outcomes == {Propagates(s) : s \in FoldLeft(AfterBind, {Start}, matches)} IN
    IF Cardinality(outcomes) = 1 THEN CHOOSE o \in outcomes : TRUE ELSE "Indeterminate"

\* The verdict, with "Pass" when nothing matches.
Verdict ==
    LET matches == ReachableMatches(BindCandidates(probe.binds, probe.submap)) IN
    IF matches = <<>> THEN "Pass" ELSE BindingPropagation(matches)

-----------------------------------------------------------------------------
(* External: handleKeybinds of Hyprland, which knows what whykey does not: *)
(* hidden keys and flags, and whether the keyboard is the bind's.          *)
ReallyTakes(b, mode) ==
    /\ IsActive(b, mode)
    /\ b.key # "hidden other"
    /\ b.mods = "same" \/ b.ignore
    /\ b.device \in {"any", "match", "unknown fits"}

HandleBind(walks, b, mode) ==
    IF ~ReallyTakes(b, mode) THEN walks
    ELSE UNION {IF (w.marked /\ b.key = "catchall") \/ ~w.state.processing THEN {w}
                ELSE {[state |-> s, marked |-> w.marked \/ Marks([bind |-> b])] : s \in Run(w.state, b)} :
                w \in walks}

HandleKeybinds(list, mode) ==
    {Propagates(w.state) :
       w \in FoldLeft(LAMBDA walks, b : HandleBind(walks, b, mode),
                      {[state |-> Start, marked |-> FALSE]}, list)}

\* Where the configuration cannot mislead: it says the same of every bind.
HintsAgree ==
    \/ reports
    \/ \A i, j \in DOMAIN Inlined(config) :
          LET a == Inlined(config)[i]
              b == Inlined(config)[j] IN
          a.kind = "bind" /\ b.kind = "bind" => a.ignore = b.ignore

\* The walk is followed exactly: unless an uncertain release bind comes
\* before a catchall, which is then as uncertain as the release bind.
WalkIsFollowed ==
    ~\E i, j \in DOMAIN probe.binds :
        /\ i < j /\ probe.binds[j].key = "catchall"
        /\ Marks([bind |-> probe.binds[i]]) /\ ~IsCertain(Certainty(probe.binds[i]))

\* When whykey says that a key stops, continues or is redirected, that is
\* what Hyprland does with it in the submap of the moment it was asked for
\* (or of before whykey's own capture), however the binds that whykey could
\* not be certain of turn out: hidden keys, devices, flags that hyprctl does
\* not report, and conditional consumption (inspect_json_with_keycode,
\* reachable_matches, binding_propagation).
VerdictIsSound ==
    hyprPc = "done" /\ ~probe.assumed /\ HintsAgree /\ WalkIsFollowed =>
       CASE Verdict = "Indeterminate" -> TRUE
         [] Verdict = "Pass" -> HandleKeybinds(probe.binds, probe.at) = {"Continues"}
         [] OTHER -> HandleKeybinds(probe.binds, probe.at) = {Verdict}

=============================================================================
