------------------------------- MODULE Extensions -------------------------------
(***************************************************************************)
(* Programs the user adds: adapters described by manifests                 *)
(* (src/extension_adapters.rs), whose selection and one inventory per      *)
(* command are kept by src/environment.rs and used by an inspection, the   *)
(* listing of bindings and the search of the focused window; and the one   *)
(* program of `whykey extension` (src/extensions.rs).                      *)
(***************************************************************************)
EXTENDS Integers, Sequences, SequencesExt, FiniteSets

CONSTANTS
    MaxFiles,     \* bound: files in the directory of the manifests
    MaxManifests, \* MAX_MANIFESTS, small enough to be met
    MaxUses       \* bound: keys inspected, or searches of the focus

ASSUME ExtensionsAssumption == {MaxFiles, MaxManifests, MaxUses} \subseteq Nat

VARIABLES
    purpose,    \* what whykey is asked: "inspect", "list" or "program"
    builtIns,   \* the applicable compiled-in adapters, in registry order
    filesLeft,  \* manifests not read yet; they are numbered from the last
    adapters,   \* the manifests that were accepted, in the order of their paths
    refused,    \* the files that were not, each with a warning
    stage,      \* "discover", "use", "over", "cut short"
    kept,       \* extension_inventory: what each id was found to bind
    ran,        \* the bindings commands that were run, and what they answered
    said,       \* what whykey reported, one entry per use
    listing     \* the adapters that are still to be listed, by their places

extensionVars == <<purpose, builtIns, filesLeft, adapters, refused, stage, kept, ran, said, listing>>

-----------------------------------------------------------------------------
(* What is outside: manifests, and what their commands answer.             *)

\* What makes parse_manifest refuse a file; unknown keys and lines that are no
\* assignment are only warned of, a value that is wrong counts as missing.
Faults == {"id is no slug", "no display", "other tier", "nothing applicable", "no bindings_cmd",
           "empty argument", "shell metacharacters", "too long or unreadable"}

\* env, desk: the manifest's own hints fit the session; named: its id or
\* display is the session's desktop. Of those that are refused one is enough.
ManifestsIn(file) ==
    {m \in [id : {"builtin", "one", "two"}, fault : {"none"} \union Faults, env : BOOLEAN, desk : BOOLEAN,
            named : BOOLEAN, focus : BOOLEAN, file : {file}] :
        m.id = "builtin" \/ m.fault # "none" => m.env /\ ~m.desk /\ ~m.named /\ ~m.focus}

BuiltIns == BoundedSeq([id : {"sway"}, ipc : BOOLEAN, hint : BOOLEAN, named : {FALSE}], 1)
\* Who a report is from, if it is not a manifest, by its number.
BuiltIn == 0
Nothing == -1

Generic == [id |-> "compositor", ipc |-> FALSE, hint |-> FALSE, named |-> FALSE]

\* A command fails, or gives entries: of key k or l, or malformed.
Reports == {<<"failed">>} \union BoundedSeq({"k", "l", "malformed"}, 2)
Failed(report) == report = <<"failed">>

-----------------------------------------------------------------------------
\* Mutant of Accepted: a manifest may have the id of another.
AcceptedTwice(manifest) == manifest.fault = "none" /\ manifest.id # "builtin"
Accepted(manifest) ==
    manifest.fault = "none" /\ manifest.id # "builtin" /\ \A i \in DOMAIN adapters : adapters[i].id # manifest.id

\* discover_in: a file past the limit is not read; one with a fault, or with the
\* id of a compiled-in adapter or of an earlier manifest, is refused.
ReadManifest ==
    /\ stage = "discover" /\ filesLeft > 0 /\ filesLeft' = filesLeft - 1
    /\ LET file == MaxFiles - filesLeft + 1 IN
       \E m \in ManifestsIn(file) :
          IF file <= MaxManifests /\ Accepted(m)
          THEN adapters' = Append(adapters, m) /\ UNCHANGED refused
          ELSE refused' = refused \union {file} /\ UNCHANGED adapters
    /\ UNCHANGED <<purpose, builtIns, stage, kept, ran, said, listing>>

\* applicable_with_context
Applicable(a) == a.env \/ a.desk
Weight(yes, points) == IF yes THEN points ELSE 0
ExtensionScore(a) == Weight(a.env, 2) + Weight(a.named, 1)
BuiltInScore(b) == Weight(b.ipc, 3) + Weight(b.hint, 2) + Weight(b.named, 1)

\* The place of the first of a stable sort by descending score.
FirstBest(scores) ==
    CHOOSE i \in DOMAIN scores :
        \A j \in DOMAIN scores : scores[j] < scores[i] \/ (scores[j] = scores[i] /\ i <= j)

SelectedBuiltIn ==
    IF builtIns = <<>> THEN "none"
    ELSE builtIns[FirstBest([i \in DOMAIN builtIns |-> BuiltInScore(builtIns[i])])].id
\* By their places among the adapters.
ExtensionCandidates == {i \in DOMAIN adapters : Applicable(adapters[i])}

\* The adapter that has the selected id: the first one.
AdapterOf(id) == adapters[CHOOSE i \in DOMAIN adapters : adapters[i].id = id /\ \A j \in 1..(i - 1) : adapters[j].id # id]
SelectedExtension ==
    LET scores == [i \in ExtensionCandidates |-> ExtensionScore(adapters[i])] IN
    AdapterOf(adapters[FirstBest(scores)].id)

Collected ==
    /\ stage = "discover" /\ filesLeft = 0 /\ stage' = "use"
    /\ listing' = IF purpose = "list" THEN ExtensionCandidates ELSE {}
    /\ UNCHANGED <<purpose, builtIns, filesLeft, adapters, refused, kept, ran, said>>

-----------------------------------------------------------------------------
\* extension_inventory of the environment: the command of an id runs once.
TakesReport(a, report) ==
    IF a.id \in DOMAIN kept
    THEN report = kept[a.id] /\ UNCHANGED <<kept, ran>>
    ELSE /\ ran' = Append(ran, [file |-> a.file, id |-> a.id, report |-> report])
         /\ kept' = [id \in DOMAIN kept \union {a.id} |-> IF id = a.id THEN report ELSE kept[id]]

\* inspect_with_report: the first record of the key.
Finding(key, report) ==
    IF Failed(report) THEN "unavailable"
    ELSE IF key \in ToSet(report) THEN "handled uncertain" ELSE "pass"

\* inspect_compositor: a compiled-in adapter goes before every manifest.
InspectCompositor ==
    /\ stage = "use" /\ purpose = "inspect" /\ Len(said) < MaxUses
    /\ \E key \in {"k", "l"} :
          IF SelectedBuiltIn \notin {"none", "compositor"} \/ ExtensionCandidates = {}
          THEN said' = Append(said, [key |-> key, by |-> BuiltIn]) /\ UNCHANGED <<kept, ran>>
          ELSE \E report \in Reports :
                 /\ TakesReport(SelectedExtension, report)
                 /\ said' = Append(said, [key |-> key, by |-> SelectedExtension.file, says |-> Finding(key, report)])
    /\ UNCHANGED <<purpose, builtIns, filesLeft, adapters, refused, stage, listing>>

\* resolve_with_environment: the compiled-in adapter's answer if it gives one,
\* else the first applicable manifest that has a command for it.
ResolveFocus ==
    /\ stage = "use" /\ purpose = "inspect" /\ Len(said) < MaxUses
    /\ LET asks == {i \in ExtensionCandidates : adapters[i].focus} IN
       \/ SelectedBuiltIn \notin {"none", "compositor"} /\ said' = Append(said, [key |-> "focus", by |-> BuiltIn])
       \/ said' = Append(said, [key |-> "focus", by |-> IF asks = {} THEN Nothing ELSE adapters[Min(asks)].file])
    /\ UNCHANGED <<purpose, builtIns, filesLeft, adapters, refused, stage, kept, ran, listing>>

\* append_extension_inventory: all applicable manifests, in order, until the budget
\* ends. rows are the entries of the report that are listed, by their places.
ListAdapter ==
    /\ stage = "use" /\ purpose = "list" /\ listing # {}
    /\ \/ \E next \in listing, report \in Reports :
             /\ \A other \in listing : next <= other
             /\ TakesReport(adapters[next], report)
             /\ said' = Append(said, [key |-> "all", by |-> adapters[next].file,
                                      rows |-> {i \in DOMAIN report : report[i] \in {"k", "l"}},
                                      skips |-> Failed(report) \/ "malformed" \in ToSet(report)])
             /\ listing' = listing \ {next} /\ UNCHANGED stage
       \/ stage' = "cut short" /\ UNCHANGED <<kept, ran, said, listing>>
    /\ UNCHANGED <<purpose, builtIns, filesLeft, adapters, refused>>

-----------------------------------------------------------------------------
(* whykey extension: the program's answer is checked and becomes a layer.  *)
Statuses == {"handled", "not_handled", "indeterminate", "unavailable", "something"}
Propagations == {"continues", "stops", "redirected", "indeterminate", "something"}
Responses == [version : {1, 2}, status : Statuses, propagation : Propagations, tier : {"none", "live_query", "observed"}]

Valid(r) == r.version = 1 /\ r.status # "something" /\ r.propagation # "something" /\ r.tier # "observed"

\* Outcome::from_parts
FromParts(status, propagation) ==
    CASE status = "not_handled" /\ propagation = "continues" -> "Pass"
      [] status = "handled" /\ propagation = "continues" -> "HandledAndPassed"
      [] status = "handled" /\ propagation = "stops" -> "Consumed"
      [] propagation = "redirected" -> "Redirected"
      [] status = "unavailable" /\ propagation # "redirected" -> "Unavailable"
      [] status = "handled" /\ propagation = "indeterminate" -> "HandledUncertain"
      [] status = "indeterminate" /\ propagation = "continues" -> "UncertainContinues"
      [] OTHER -> "Unknown"

RunProgram ==
    /\ stage = "use" /\ purpose = "program" /\ stage' = "over"
    /\ \/ said' = <<[key |-> "program", by |-> Nothing]>>
       \/ \E r \in Responses :
             said' = <<[key |-> "program", by |-> Nothing, answer |-> r,
                        says |-> IF Valid(r) THEN FromParts(r.status, r.propagation) ELSE "error"]>>
    /\ UNCHANGED <<purpose, builtIns, filesLeft, adapters, refused, kept, ran, listing>>

-----------------------------------------------------------------------------
ExtensionInit ==
    /\ purpose \in {"inspect", "list", "program"}
    /\ builtIns \in (IF purpose = "inspect" THEN BuiltIns \union {Append(b, Generic) : b \in BuiltIns} ELSE {<<>>})
    /\ filesLeft = (IF purpose = "program" THEN 0 ELSE MaxFiles)
    /\ adapters = <<>> /\ refused = {} /\ stage = "discover"
    /\ kept = <<>> /\ ran = <<>> /\ said = <<>> /\ listing = {}

ExtensionNext ==
    \/ ReadManifest \/ Collected \/ InspectCompositor \/ ResolveFocus \/ ListAdapter \/ RunProgram

ExtensionSpec == ExtensionInit /\ [][ExtensionNext]_extensionVars

-----------------------------------------------------------------------------
\* No program runs twice or without need: an inspection runs the one applicable
\* manifest that no other has a better claim than, however many keys it is about,
\* and none where a compiled-in adapter applies.
OnlyTheSelectedRuns ==
    /\ \A i, j \in DOMAIN ran : ran[i].id = ran[j].id => i = j
    /\ \A i \in DOMAIN ran : \E a \in ToSet(adapters) : a.file = ran[i].file /\ Applicable(a)
    /\ (\E i \in DOMAIN builtIns : builtIns[i] # Generic) => ran = <<>>
    /\ purpose = "inspect" => \A i \in DOMAIN ran, a, b \in ToSet(adapters) :
          b.file = ran[i].file /\ Applicable(a) =>
             /\ ExtensionScore(a) <= ExtensionScore(b)
             /\ ExtensionScore(a) = ExtensionScore(b) => b.file <= a.file

\* What is said of a manifest's keys is what its own command answered, the same
\* for the same key; the listing has each applicable manifest or says so.
CommandAnswers(file) == {ran[i].report : i \in {j \in DOMAIN ran : ran[j].file = file}}
SaidAsAnswered ==
    /\ \A i \in DOMAIN said : "says" \in DOMAIN said[i] /\ said[i].key # "program" =>
          \E report \in CommandAnswers(said[i].by) : said[i].says = Finding(said[i].key, report)
    /\ \A i, j \in DOMAIN said : said[i].key = said[j].key /\ said[i].key # "focus" =>
          said[i] = said[j] \/ purpose = "list"
    /\ \A i \in DOMAIN said : "rows" \in DOMAIN said[i] =>
          \E report \in CommandAnswers(said[i].by) : said[i].skips \/ said[i].rows = DOMAIN report
    /\ purpose = "list" /\ stage = "use" /\ listing = {} =>
          \A a \in ToSet(adapters) : Applicable(a) => \E i \in DOMAIN said : said[i].by = a.file

\* A layer never says more of a key than the program did.
LayerSaysNoMore ==
    \A i \in DOMAIN said : said[i].key = "program" /\ "says" \in DOMAIN said[i] /\ Valid(said[i].answer) =>
        LET r == said[i].answer IN
        /\ said[i].says \in {"Pass", "HandledAndPassed", "UncertainContinues"} => r.propagation = "continues"
        /\ said[i].says = "Consumed" => r.status = "handled" /\ r.propagation = "stops"
        /\ said[i].says = "Redirected" <=> r.propagation = "redirected"

ExtensionsAreKept == OnlyTheSelectedRuns /\ SaidAsAnswered /\ LayerSaysNoMore
=============================================================================
