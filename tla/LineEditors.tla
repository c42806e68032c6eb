------------------------------ MODULE LineEditors ------------------------------
(***************************************************************************)
(* What whykey says a key does at a shell prompt (src/layers/shell.rs,     *)
(* shell/zle.rs, shell/fish.rs, readline.rs): the bindings are read from   *)
(* startup files, without running them, over the defaults of the editor,   *)
(* and the keys typed are then read as the editor would. Next to it, the   *)
(* editor itself, that ran the files and takes one unit at a time.         *)
(***************************************************************************)
EXTENDS Integers, Sequences, SequencesExt, FiniteSets

CONSTANTS
    MaxEditorLines,  \* bound: lines of the startup files
    MaxTyped         \* bound: keys typed at the prompt

ASSUME LineEditorsAssumption == MaxEditorLines \in Nat /\ MaxTyped \in Nat

VARIABLES
    editor,    \* "bash", "zsh", "fish"
    startup,   \* what the startup files say, in the order they are read
    inputrc,   \* the conditional part of the INPUTRC (bash)
    typed,     \* the keys typed so far
    queue,     \* units of the keys that the editor has not read
    buffer,    \* units it has read and not decided on
    ran,       \* what it did with the last key typed
    keymap     \* the keymap it reads in

editorVars == <<editor, startup, inputrc, typed, queue, buffer, ran, keymap>>

-----------------------------------------------------------------------------
(* Units are the bytes a key sends ("e" is Escape), in fish the keys. An   *)
(* Alt combination sends two bytes.                                        *)
KeyUnits == IF editor = "fish" THEN {<<"e">>, <<"x">>, <<"a">>, <<"ea">>}
            ELSE {<<"e">>, <<"x">>, <<"a">>, <<"e", "a">>}

Combos(ed) == IF ed = "fish" THEN {<<"e">>, <<"x">>, <<"x", "e">>, <<"x", "a">>, <<"ea">>}
              ELSE {<<"e">>, <<"x">>, <<"x", "e">>, <<"x", "e", "a">>, <<"e", "a">>}

Maps == {"emacs", "insert", "command"}

\* The defaults whykey has a table of (readline.rs) or asks the program for.
EditorDefaults(ed, map) ==
    CASE map = "emacs" -> <<[keys |-> <<"x", "e">>, act |-> "edit"]>>
      [] map = "insert" -> <<[keys |-> <<"e">>, act |-> "vi-cmd-mode"]>>
      [] OTHER -> <<[keys |-> <<"x">>, act |-> "delete"]>>

Rebind(map, keys, act) == [do |-> "bind", map |-> map, keys |-> keys, act |-> act]
Choose(map) == [do |-> "mode", map |-> map]

\* posix_commands, commands: the lines that are a binding or choose a mode.
StartupLines(ed) ==
    {Choose("emacs"), Choose("insert")}
    \union {Rebind(m, k, "widget") : m \in Maps \union {"current"}, k \in Combos(ed)}
    \union (IF ed = "bash" THEN {} ELSE {Rebind("current", k, "none") : k \in Combos(ed)})

RcLines == {"if yes", "if no", "else", "endif", "bind"}
RcActs == <<"first", "second", "third", "fourth", "fifth">>

WithMap(m, current) == IF m = "current" THEN current ELSE m

-----------------------------------------------------------------------------
(* What whykey reads. An entry is a binding in one keymap; no action        *)
(* removes the keys from it.                                                *)
TakeLine(read, line) ==
    IF line.do = "mode" THEN [read EXCEPT !.main = line.map]
    ELSE [read EXCEPT !.entries = Append(@,
            [line EXCEPT !.map = WithMap(line.map, IF editor = "fish" THEN "emacs" ELSE read.main)])]

ReadStartup == FoldLeft(TakeLine, [main |-> "emacs", entries |-> <<>>], startup)

\* inputrc_entries_in_path.
TakeRcLine(read, line) ==
    CASE line = "else" /\ read.conditions # <<>> ->
            [read EXCEPT !.active = Last(read.conditions).parent /\ ~Last(read.conditions).matches]
      [] line \in {"if yes", "if no"} ->
            [read EXCEPT !.conditions = Append(@, [parent |-> read.active, matches |-> line = "if yes"]),
                         !.active = @ /\ line = "if yes"]
      [] line = "endif" /\ read.conditions # <<>> ->
            [read EXCEPT !.conditions = Front(@), !.active = Last(read.conditions).parent]
      [] line = "bind" /\ read.active ->
            [read EXCEPT !.entries = Append(@, [keys |-> <<"x">>, act |-> RcActs[Len(read.entries) + 1]])]
      [] OTHER -> read

ReadInputrc ==
    FoldLeft(TakeRcLine, [active |-> TRUE, conditions |-> <<>>, entries |-> <<>>], inputrc).entries

InMap(entries, map) == SelectSeq(entries, LAMBDA e : e.map = map)

\* Keymaps::table and Bindings::table: the last entry of the keys counts.
LastOf(entries, keys) ==
    LET mine == SelectSeq(entries, LAMBDA e : e.keys = keys) IN
    IF mine = <<>> THEN "none" ELSE Last(mine).act

\* Readline looks from the front, where the last binding is put first.
FirstOf(entries, keys) ==
    LET mine == SelectSeq(entries, LAMBDA e : e.keys = keys) IN
    IF mine = <<>> THEN "none" ELSE Head(mine).act

ReadAction(map, keys) ==
    LET entries == InMap(ReadStartup.entries, map)
        defaults == EditorDefaults(editor, map) IN
    CASE editor = "bash" -> FirstOf(Reverse(entries) \o Reverse(ReadInputrc) \o defaults, keys)
      [] editor = "zsh" -> LastOf(defaults \o entries, keys)
      [] OTHER -> IF LastOf(entries, keys) # "none" THEN LastOf(entries, keys)
                  ELSE LastOf(defaults, keys)

KnownKeys == Combos(editor) \union {<<"x", "e">>, <<"e">>, <<"x">>}

WhykeyTable(map) ==
    [k \in {k \in KnownKeys : ReadAction(map, k) # "none"} |-> ReadAction(map, k)]

Leads(table, keys) == \E k \in DOMAIN table : IsStrictPrefix(keys, k)

Resolve(table, keys) ==
    CASE keys \in DOMAIN table -> [is |-> "bound", act |-> table[keys], longer |-> Leads(table, keys)]
      [] Leads(table, keys) -> [is |-> "prefix", act |-> "none", longer |-> TRUE]
      [] OTHER -> [is |-> "unbound", act |-> "none", longer |-> FALSE]

Waits(act) == [is |-> "waits", act |-> act]
Runs(act) == [is |-> "runs", act |-> act]
Drops == [is |-> "drops", act |-> "none"]

EditorVerdict(r) == CASE r.is = "prefix" -> Waits("none")
                  [] r.is = "bound" -> IF r.longer THEN Waits(r.act) ELSE Runs(r.act)
                  [] OTHER -> Drops

-----------------------------------------------------------------------------
(* readline.rs: the keys before the last one leave a prefix or nothing.     *)
ReadlinePending(table) ==
    FoldLeft(LAMBDA pending, key :
                IF Resolve(table, pending \o key).longer THEN pending \o key ELSE <<>>,
             <<>>, Front(typed))

\* unbound_effect: what the first bytes of the key do.
UnboundEffect(table, bytes) ==
    LET stops == {n \in DOMAIN bytes : Resolve(table, SubSeq(bytes, 1, n)).is # "prefix"}
        stop == IF stops = {} THEN Len(bytes) ELSE CHOOSE n \in stops : \A m \in stops : n <= m
        r == Resolve(table, SubSeq(bytes, 1, stop)) IN
    IF r.is = "bound" THEN Runs(r.act) ELSE Drops

EvaluateLines(table) ==
    LET pending == ReadlinePending(table)
        r == Resolve(table, pending \o Last(typed)) IN
    IF r.is = "unbound" /\ pending = <<>> THEN UnboundEffect(table, Last(typed)) ELSE EditorVerdict(r)

-----------------------------------------------------------------------------
(* zle.rs, read_keys: the longest binding runs, the rest is read again.     *)
Longest(table, bytes, start) ==
    LET ends == {e \in start..Len(bytes) : SubSeq(bytes, start, e) \in DOMAIN table
                                             /\ \A m \in start..(e - 1) : Leads(table, SubSeq(bytes, start, m))} IN
    IF ends = {} THEN 0 ELSE CHOOSE e \in ends : \A o \in ends : o <= e

\* Where the sequence that starts here can no longer be continued.
Broken(table, bytes, start) ==
    LET ends == {e \in start..Len(bytes) : ~Leads(table, SubSeq(bytes, start, e))} IN
    IF ends = {} THEN 0 ELSE CHOOSE e \in ends : \A o \in ends : e <= o

ReadKeys(main, bytes) ==
    LET steps[start \in 1..Len(bytes) + 1, map \in Maps] ==
            LET table == WhykeyTable(map)
                broken == Broken(table, bytes, start)
                longest == Longest(table, bytes, start)
                act == table[SubSeq(bytes, start, longest)] IN
            IF start > Len(bytes) THEN <<>>
            ELSE IF broken = 0
            THEN <<[end |-> Len(bytes), what |-> EditorVerdict(Resolve(table, SubSeq(bytes, start, Len(bytes))))]>>
            ELSE IF longest = 0 THEN <<[end |-> broken, what |-> Drops]>> \o steps[broken + 1, map]
            ELSE <<[end |-> longest, what |-> Runs(act)]>>
                 \o steps[longest + 1, IF act = "vi-cmd-mode" THEN "command" ELSE map] IN
    steps[1, main]

\* Mutant: the steps before the last key are not left out.
AllSteps(steps, earlier) == steps

Relevant(steps, earlier) == SelectSeq(steps, LAMBDA s : s.end > earlier)

ZleVerdict(map) ==
    LET bytes == FlattenSeq(typed)
        steps == ReadKeys(map, bytes) IN
    Head(Relevant(steps, Len(bytes) - Len(Last(typed)))).what

-----------------------------------------------------------------------------
(* fish.rs, evaluate: a key that completes nothing is read on its own.      *)
FishPending(table) ==
    FoldLeft(LAMBDA pending, key :
                CASE Resolve(table, pending \o key).longer -> pending \o key
                  [] Resolve(table, pending \o key).is = "unbound" /\ Resolve(table, key).longer -> key
                  [] OTHER -> <<>>,
             <<>>, Front(typed))

FishVerdict(table) ==
    LET together == Resolve(table, FishPending(table) \o Last(typed)) IN
    EditorVerdict(IF together.is = "unbound" THEN Resolve(table, Last(typed)) ELSE together)

WhykeySays ==
    LET map == ReadStartup.main IN
    CASE editor = "bash" -> EvaluateLines(WhykeyTable(map))
      [] editor = "zsh" -> ZleVerdict(map)
      [] OTHER -> FishVerdict(WhykeyTable(map))

-----------------------------------------------------------------------------
(* External: the shell runs its startup files: it has a table per keymap    *)
(* and changes it in place.                                                 *)
Put(table, keys, act) ==
    IF act = "none" THEN [k \in DOMAIN table \ {keys} |-> table[k]]
    ELSE [k \in DOMAIN table \union {keys} |-> IF k = keys THEN act ELSE table[k]]

TableOf(entries) == FoldLeft(LAMBDA t, e : Put(t, e.keys, e.act), [k \in {} |-> "none"], entries)

RunLine(shell, line) ==
    IF line.do = "mode" THEN [shell EXCEPT !.main = line.map]
    ELSE [shell EXCEPT !.user[WithMap(line.map, IF editor = "fish" THEN "emacs" ELSE shell.main)] =
             Put(@, line.keys, line.act)]

\* The parser of Readline keeps what it skips in a stack of flags.
RunRcLine(parser, line) ==
    CASE line \in {"if yes", "if no"} ->
            [parser EXCEPT !.stack = Append(@, parser.out), !.out = @ \/ line = "if no"]
      [] line = "else" /\ parser.stack # <<>> ->
            IF \E i \in DOMAIN parser.stack : parser.stack[i] THEN parser
            ELSE [parser EXCEPT !.out = ~@]
      [] line = "endif" /\ parser.stack # <<>> ->
            [parser EXCEPT !.out = Last(parser.stack), !.stack = Front(@)]
      [] line = "bind" /\ ~parser.out ->
            [parser EXCEPT !.entries = Append(@, [keys |-> <<"x">>, act |-> RcActs[Len(parser.entries) + 1]])]
      [] OTHER -> parser

RcEntries == FoldLeft(RunRcLine, [out |-> FALSE, stack |-> <<>>, entries |-> <<>>], inputrc).entries

Shell ==
    LET own == [m \in Maps |-> TableOf(EditorDefaults(editor, m)
                                        \o (IF editor = "bash" THEN RcEntries ELSE <<>>))] IN
    IF editor = "fish"
    THEN LET user == FoldLeft(RunLine, [main |-> "emacs", user |-> [m \in Maps |-> [k \in {} |-> "none"]]],
                              startup) IN
         [main |-> user.main,
          user |-> [m \in Maps |-> [k \in DOMAIN user.user[m] \union DOMAIN own[m] |->
                                      IF k \in DOMAIN user.user[m] THEN user.user[m][k] ELSE own[m][k]]]]
    ELSE FoldLeft(RunLine, [main |-> "emacs", user |-> own], startup)

EditorTable == Shell.user[keymap]

-----------------------------------------------------------------------------
EditorInit ==
    /\ editor \in {"bash", "zsh", "fish"}
    /\ \/ startup \in BoundedSeq(StartupLines(editor), MaxEditorLines) /\ inputrc = <<>>
       \/ /\ editor = "bash" /\ startup = <<>>
          /\ inputrc \in {rc \in BoundedSeq(RcLines, 2 * MaxEditorLines + 1) :
                            Cardinality({i \in DOMAIN rc : rc[i] = "else"}) <= 1}
    /\ typed = <<>> /\ queue = <<>> /\ buffer = <<>> /\ ran = <<>>
    /\ keymap = Shell.main

\* External: a key is typed, within the time the editor waits for more. Of the
\* one key that the conditional INPUTRC binds, one stroke is enough.
Type ==
    /\ queue = <<>> /\ Len(typed) < (IF inputrc = <<>> THEN MaxTyped ELSE 1)
    /\ \E key \in KeyUnits : typed' = Append(typed, key) /\ queue' = key
    /\ ran' = <<>>
    /\ UNCHANGED <<editor, startup, inputrc, buffer, keymap>>

\* The editor has decided on some units: the others are read again.
Reacts(what, again) ==
    /\ buffer' = <<>> /\ queue' = again
    /\ ran' = IF Len(again) < Len(Last(typed)) THEN Append(ran, what) ELSE ran
    /\ keymap' = IF what.act = "vi-cmd-mode" THEN "command" ELSE keymap
    /\ UNCHANGED <<editor, startup, inputrc, typed>>

\* External: the editor reads a unit.
ReadsMore ==
    /\ queue # <<>> /\ Leads(EditorTable, Append(buffer, Head(queue)))
    /\ buffer' = Append(buffer, Head(queue)) /\ queue' = Tail(queue)
    /\ UNCHANGED <<editor, startup, inputrc, typed, ran, keymap>>

Decides ==
    LET read == Append(buffer, Head(queue))
        bound == {n \in DOMAIN read : SubSeq(read, 1, n) \in DOMAIN EditorTable}
        best == CHOOSE n \in bound : \A m \in bound : m <= n
        after == SubSeq(read, best + 1, Len(read)) \o Tail(queue) IN
    /\ queue # <<>> /\ ~Leads(EditorTable, read)
    /\ \/ bound # {} /\ Reacts(Runs(EditorTable[SubSeq(read, 1, best)]), after)
       \/ bound = {} /\ editor # "fish" /\ Reacts(Drops, Tail(queue))
       \/ bound = {} /\ editor = "fish" /\ Reacts(Drops, Tail(read) \o Tail(queue))

EditorNext == Type \/ ReadsMore \/ Decides
EditorSpec == EditorInit /\ [][EditorNext]_editorVars

-----------------------------------------------------------------------------
(* Where whykey reads what the shell does. It keeps one set of bindings     *)
(* for a sequence of keys in bash and fish, whatever mode a key switches    *)
(* to, and leaves a bound key that is a prefix to the next key in bash.     *)
OneMode == editor # "zsh" => keymap = Shell.main

NoShadow ==
    editor = "bash" => \A k, l \in DOMAIN EditorTable : ~IsStrictPrefix(k, l)

\* And in bash it takes the bytes of a key that follows a prefix together.
WholeKeys == editor = "bash" => \A i \in 2..Len(typed) : Len(typed[i]) = 1

\* At the prompt, the last key typed does what whykey says of it: it runs
\* the same action, waits for the same one, or is dropped, however the files
\* order, override and remove bindings and choose the keymap, and whatever
\* the keys before it left undecided (Bashrc::effective, Keymap::resolve,
\* Keymaps::table, read_keys, Bindings::table, evaluate).
KeysReadAlike ==
    typed # <<>> /\ queue = <<>> /\ OneMode /\ NoShadow /\ WholeKeys =>
       WhykeySays = IF ran # <<>> THEN Head(ran)
                    ELSE EditorVerdict([Resolve(EditorTable, buffer) EXCEPT !.longer = TRUE])
=============================================================================
