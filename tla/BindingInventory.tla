---------------------------- MODULE BindingInventory ----------------------------
(***************************************************************************)
(* The global listing of bindings (bindings.rs) and the conflicts in it    *)
(* (conflicts.rs): each source is asked for its records, the records are   *)
(* sorted and cut, groups of one key with several actions are classified,  *)
(* and a key filter is applied. Hyprland's binds run in their order.       *)
(***************************************************************************)
EXTENDS Integers, Sequences, SequencesExt, FiniteSets

CONSTANTS
    MaxRecords,  \* bound: bindings of Hyprland
    MaxBindings, \* MAX_BINDINGS, small enough to be met
    MaxForeign   \* bound: bindings of an extension's manifest

ASSUME BindingInventoryAssumption == {MaxRecords, MaxBindings, MaxForeign} \subseteq Nat

VARIABLES
    hyprland,    \* the binds, in the order Hyprland runs them
    manifest,    \* the records of an extension adapter
    inventory,   \* the records collected so far
    unavailable, \* sources that could not be read
    limitations, \* what the listing says it lacks
    listPc       \* "desktops", "extensions", "sort", "done"

listVars == <<hyprland, manifest, inventory, unavailable, limitations, listPc>>

\* Actions in the order of their text; a submap bind ends Hyprland's run.
ActionNames == <<"exec a", "exec b", "submap x">>
Rank(action) == CHOOSE i \in DOMAIN ActionNames : ActionNames[i] = action
IsSubmap(action) == action = "submap x"

\* "hidden": the key is not reported, the modifiers are. A record without a
\* context cannot be compared.
Records(source) ==
    {r \in [source : {source}, key : {"k", "l", "hidden"}, mods : {{}, {"super"}}, action : ToSet(ActionNames),
            submap : {"default", "m"}, context : BOOLEAN] :
        \* One of each is enough for what is told apart.
        /\ source = "hyprland" => r.context /\ (r.key = "k" \/ (r.submap = "default" /\ r.action = "exec a"))
        /\ source # "hyprland" => r.key = "k" /\ r.submap = "default" /\ r.mods = {"super"} /\ ~IsSubmap(r.action)}

\* The records of a list that are in a set, in their order.
Chosen(rows, set) == FoldLeft(LAMBDA kept, x : IF x \in set THEN Append(kept, x) ELSE kept, <<>>, rows)

Group(r) == <<r.source, r.key, r.mods, r.context, r.submap>>
Members(rows, r) == Chosen(rows, {x \in ToSet(rows) : Group(x) = Group(r)})
Hidden(r) == r.key = "hidden"

-----------------------------------------------------------------------------
(* Sorting: by source, key, context and submap. Of two records of a group  *)
(* none precedes the other, so that they keep their order.                 *)
SourceOrder == <<"hyprland", "manifest">>
Keys == <<"hidden", "k", "l">>
Number(item, order) == CHOOSE i \in DOMAIN order : order[i] = item
SortKey(r) ==
    <<Number(r.source, SourceOrder), IF r.mods = {} THEN 0 ELSE 1, Number(r.key, Keys), IF r.context THEN 1 ELSE 0,
      IF r.submap = "default" THEN 0 ELSE 1>>

LexLess(x, y) == \E i \in DOMAIN x : x[i] < y[i] /\ \A j \in 1..(i - 1) : x[j] = y[j]

\* Mutant of Precedes: records are compared by their action last.
PrecedesByAction(x, y) == LexLess(Append(SortKey(x), Rank(x.action)), Append(SortKey(y), Rank(y.action)))
Precedes(x, y) == LexLess(SortKey(x), SortKey(y))

\* sort_by, which is stable.
Sorted(rows) ==
    LET before(i) == {j \in DOMAIN rows : Precedes(rows[j], rows[i]) \/ (j < i /\ ~Precedes(rows[i], rows[j]))} IN
    [n \in DOMAIN rows |-> rows[CHOOSE i \in DOMAIN rows : Cardinality(before(i)) = n - 1]]

-----------------------------------------------------------------------------
(* build_conflicts.                                                        *)
DistinctActions(rows) ==
    FoldLeft(LAMBDA actions, r : IF Contains(actions, r.action) THEN actions ELSE Append(actions, r.action), <<>>, rows)

Classification(source, actions) ==
    IF source # "hyprland" THEN "possible"
    ELSE IF \E i \in 1..(Len(actions) - 1) : IsSubmap(actions[i]) THEN "submap stops" ELSE "fire together"

ConflictsOf(rows) ==
    LET compared == Chosen(rows, {r \in ToSet(rows) : ~Hidden(r)}) IN
    {[group |-> Group(r), actions |-> DistinctActions(Members(compared, r)),
      class |-> Classification(r.source, DistinctActions(Members(compared, r)))] :
        r \in {x \in ToSet(compared) : x.context /\ Len(DistinctActions(Members(compared, x))) > 1}}

\* current: what the report says it leaves out.
ReportedLimits ==
    limitations
    \union {"unknown context" : r \in {x \in ToSet(inventory) : ~x.context /\ ~Hidden(x)
                                        /\ Len(DistinctActions(Members(inventory, x))) > 1}}
    \union {"keys not reported" : r \in {x \in ToSet(inventory) : Hidden(x)}}

(* filter with a key: a combination needs exactly its modifiers, a bare    *)
(* key none; records of hidden keys with the same modifiers may match.     *)
MatchesKey(r, key, mods) == r.key = key /\ (mods = {} \/ r.mods = mods)
Filtered(key, mods) == Chosen(inventory, {r \in ToSet(inventory) : MatchesKey(r, key, mods)})
PossibleMatches(mods) == Chosen(inventory, {r \in ToSet(inventory) : Hidden(r) /\ r.mods = mods})
ShownConflicts(key, mods) == {c \in ConflictsOf(inventory) : c.group[2] = key /\ (mods = {} \/ c.group[3] = mods)}

-----------------------------------------------------------------------------
ListInit ==
    /\ hyprland \in SeqOf(Records("hyprland"), MaxRecords)
    /\ manifest \in SeqOf(Records("manifest"), MaxForeign)
    /\ inventory = <<>> /\ unavailable = {} /\ limitations = {} /\ listPc = "desktops"

\* The registry's collectors: records, or an error.
CollectDesktop ==
    /\ listPc = "desktops" /\ listPc' = "extensions" /\ UNCHANGED <<hyprland, manifest, limitations>>
    /\ \/ inventory' = inventory \o hyprland /\ UNCHANGED unavailable
       \/ unavailable' = unavailable \union {"hyprland"} /\ UNCHANGED inventory

\* append_extension_inventory: an error, entries that are skipped, or the end
\* of the diagnostic budget, after which no adapter is asked.
CollectExtension ==
    /\ listPc = "extensions" /\ listPc' = "sort" /\ UNCHANGED <<hyprland, manifest, limitations>>
    /\ \/ inventory' = inventory \o manifest /\ UNCHANGED unavailable
       \/ unavailable' = unavailable \union {"manifest"} /\ UNCHANGED inventory
       \/ manifest # <<>> /\ inventory' = inventory \o Tail(manifest) /\ unavailable' = unavailable \union {"entries"}

SortAndCut ==
    /\ listPc = "sort" /\ listPc' = "done" /\ UNCHANGED <<hyprland, manifest, unavailable>>
    /\ inventory' = SubSeq(Sorted(inventory), 1, IF Len(inventory) > MaxBindings THEN MaxBindings ELSE Len(inventory))
    /\ limitations' = (IF Len(inventory) > MaxBindings THEN limitations \union {"truncated"} ELSE limitations)

ListNext == CollectDesktop \/ CollectExtension \/ SortAndCut

ListSpec == ListInit /\ [][ListNext]_listVars

-----------------------------------------------------------------------------
(* External: what Hyprland runs on a key, in order, until a submap bind.   *)
Fired(key, mods, submap) ==
    LET matching == Chosen(hyprland, {r \in ToSet(hyprland) : r.key = key /\ r.mods = mods /\ r.submap = submap})
        stop == {i \in DOMAIN matching : IsSubmap(matching[i].action)} IN
    {matching[i].action : i \in {j \in DOMAIN matching : \A s \in stop : j <= s}}

Whole == unavailable = {} /\ limitations = {}

\* A conflict of Hyprland's binds says of the actions it lists whether all of
\* them run; keys that run several actions are in it; and a filter by a key
\* shows or names as possible every bind of Hyprland that may be the key's.  No
\* collision is dropped without a word.
ConflictsAreRight ==
    listPc = "done" =>
    /\ \A c \in ConflictsOf(inventory) :
          c.group[1] = "hyprland" /\ Whole =>
          (c.class = "fire together" <=> ToSet(c.actions) = Fired(c.group[2], c.group[3], c.group[5]))
    /\ Whole => \A r \in ToSet(hyprland) :
          ~Hidden(r) /\ Cardinality(Fired(r.key, r.mods, r.submap)) > 1 => \E c \in ConflictsOf(inventory) : c.group = Group(r)
    /\ Whole => \A r \in ToSet(hyprland) :
          r \in ToSet(IF Hidden(r) THEN PossibleMatches(r.mods) ELSE Filtered(r.key, r.mods))
    /\ \A r, x \in ToSet(inventory) : Group(r) = Group(x) /\ r.action # x.action =>
          \/ \E c \in ShownConflicts(r.key, r.mods) : {r.action, x.action} \subseteq ToSet(c.actions)
          \/ (IF Hidden(r) \/ Hidden(x) THEN "keys not reported" ELSE "unknown context") \in ReportedLimits
    /\ Len(inventory) < Len(hyprland) + Len(manifest) => ~Whole

=============================================================================
