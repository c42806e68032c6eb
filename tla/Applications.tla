----------------------------- MODULE Applications -----------------------------
(***************************************************************************)
(* What reads the key at the end of its route: the target is the focused   *)
(* window's process, followed through its terminal (focus.rs), a given     *)
(* process, or whykey's own; layers/application.rs looks for an editor     *)
(* among its ancestors and asks the editor or reads its configuration; the *)
(* endpoint decides whether the shell is inspected (inspection.rs). Every  *)
(* process is read from /proc on its own while processes come and go.      *)
(***************************************************************************)
EXTENDS Integers, Sequences, SequencesExt, FiniteSets

CONSTANTS
    MaxConfigRows, \* bound: lines of the editor's configuration
    MaxTurns       \* bound: what changes during an inspection

ASSUME ApplicationsAssumption == {MaxConfigRows, MaxTurns} \subseteq Nat

VARIABLES
    tree,     \* what runs under each pid
    tty,      \* pty of each process that has one; a pty's foreground group
    editors,  \* what the editors whykey may reach answer for the key
    configRows, \* the configuration of the editor, line by line
    selected, \* how the target is selected: "focus", "pid", "own"
    appPc,    \* "window", "children", "shell", "walk", "again", "mode", "maps", "config", "endpoint", "done"
    target,   \* the pid whose input is asked about
    children, \* of the window's process, with what was read of them
    walk,     \* the ancestor of the target that is read next
    found,    \* the editor among them; "broken": one of them was gone
    modes,    \* modes of the editor still to be asked about
    layerSays, \* what the application layer says
    endpoint, \* "shell", "application"
    turns,    \* changes so far
    worlds    \* what could be observed, at every moment so far

appVars ==
    <<tree, tty, editors, configRows, selected, appPc, target, children, walk, found, modes, layerSays,
      endpoint, turns, worlds>>

-----------------------------------------------------------------------------
(* Processes. 1: the focused window; 2: a shell on pty "a" of it; 3: what  *)
(* runs in that shell; 4: a shell on another pty of it; 5: whykey.         *)
Window == 1
Job == 3
Whykey == 5
Nobody == 0
Gone == [program |-> "gone", parent |-> Nobody]
Running(program, parent) == [program |-> program, parent |-> parent]
Alive(p) == p \in DOMAIN tree /\ tree[p] # Gone

\* Members of is_interactive_editor; "jetbrains" and "code" are windows.
VimLike == {"nvim", "vim"}
AskedAtRuntime == VimLike \union {"emacs"}
Configured == AskedAtRuntime \union {"helix", "micro", "kakoune", "code", "jetbrains"}
Interactive == Configured \union {"lazygit"}
JobPrograms == (Interactive \ {"code", "jetbrains"}) \union {"sh", "less"}
NewPrograms == {"sh", "less", "nvim"} \* what is started meanwhile
WindowPrograms == {"terminal", "code", "jetbrains"}

\* process_info of a pid: the parent and the command, none when it is gone.
process_info(p) == IF Alive(p) THEN tree[p] ELSE Gone
is_shell_process(p) == process_info(p).program = "sh"

\* foreground_choice: the children that have a pty, the leader of its foreground.
Child(p, pty, group) == [pid |-> p, pty |-> pty, group |-> group]
Ptys == {c.pty : c \in children}
OneChild == CHOOSE c \in children : TRUE

\* Mutant of Followed: the child of the window, whoever is in the foreground.
TheChild == OneChild.pid

\* The group's leader, unless it is gone while the group lives on.
Followed == IF Alive(OneChild.group) THEN OneChild.group ELSE OneChild.pid

(* Configuration lines: what they do, the key they name first, and what    *)
(* follows it: the second key of a chord, or the right-hand side.          *)
ConfigRow == [form : {"binds", "lua", "removes", "section", "other section"}, lhs : {"k", "o"}, then : {"k", "o"}]

\* Sections exist in Helix, Lua in Neovim.
Grammar(editor) ==
    {"binds"}
    \union (IF editor = "helix" THEN {"section", "other section"} ELSE {})
    \union (IF editor = "nvim" THEN {"lua"} ELSE {})
    \union (IF editor \in {"nvim", "code"} THEN {"removes"} ELSE {})

InSection(i, lines) ==
    LET headers == {j \in 1..(i - 1) : lines[j].form \in {"section", "other section"}} IN
    headers # {} /\ lines[CHOOSE j \in headers : \A l \in headers : l <= j].form = "section"

\* vim_mapping_line_matches, on its own for Lua: any string after the mode.
VimMatches(row) ==
    \/ row.form = "binds" /\ row.lhs = "k"
    \/ row.form \in {"lua", "removes"} /\ "k" \in {row.lhs, row.then}

\* helix_static_mapping.
HelixMatches(i, lines) == lines[i].form = "binds" /\ lines[i].lhs = "k" /\ InSection(i, lines)
\* emacs_static_mapping: the notation anywhere in the line.
EmacsMatches(row) == row.form = "binds" /\ "k" \in {row.lhs, row.then}
\* parse_vscode_mapping: no chords, but entries that remove a command.
CodeMatches(row) == row.form \in {"binds", "removes"} /\ row.lhs = "k" /\ row.then # "k"
\* parse_jetbrains_mapping, micro and kakoune: the first key.
FirstKeyMatches(row) == row.form = "binds" /\ row.lhs = "k"

Matches(editor, i, lines) ==
    CASE editor \in VimLike -> VimMatches(lines[i])
      [] editor = "helix" -> HelixMatches(i, lines)
      [] editor = "emacs" -> EmacsMatches(lines[i])
      [] editor = "code" -> CodeMatches(lines[i])
      [] OTHER -> FirstKeyMatches(lines[i])

\* External: whether the line binds the key itself in the editor.
BindsKey(editor, i, lines) ==
    /\ lines[i].form \in {"binds", "lua"} /\ lines[i].lhs = "k"
    /\ editor = "code" => lines[i].then # "k"
    /\ editor = "helix" => InSection(i, lines)

(* The servers of editors: the job's own, and that of another editor.      *)
Modes == {"n", "i"}
EditorAnswers == [mode : Modes \union {"unknown"}, maps : SUBSET Modes]
Silent == [mode |-> "n", maps |-> {}]

\* nvim_runtime_mapping, vim_server_from_command, emacs_runtime_mapping: the
\* server that is asked; $NVIM is set for what runs inside an editor.
Server ==
    CASE found = "nvim" -> IF editors.named = "NVIM" THEN "outer" ELSE IF editors.named = "none" THEN "none" ELSE "own"
      [] found = "vim" -> IF editors.named = "argument" THEN "own" ELSE "none"
      [] OTHER -> IF editors.named = "argument" THEN "own" ELSE "outer"

-----------------------------------------------------------------------------
World == [tree |-> tree, tty |-> tty, editors |-> editors]
Remember == worlds' = worlds \union {World'}

AppInit ==
    /\ selected \in {"focus", "pid", "own"}
    /\ \E window \in WindowPrograms, job \in JobPrograms \union {"gone"}, second, inside \in BOOLEAN :
          /\ tree = [p \in 1..5 |->
                CASE p = 1 -> Running(window, Nobody)
                  [] p = 2 -> Running("sh", Window)
                  [] p = Job -> IF job = "gone" THEN Gone ELSE Running(job, 2)
                  [] p = 4 -> IF second THEN Running("sh", Window) ELSE Gone
                  [] OTHER -> IF selected = "own" THEN Running("whykey", IF inside THEN Job ELSE 2) ELSE Gone]
          /\ inside => selected = "own" /\ job # "gone"
          /\ second => selected = "focus" /\ window = "terminal"
          /\ tty = [of |-> <<"none", "a", "a", "b", "a">>,
                    group |-> [a |-> IF job = "gone" THEN 2 ELSE Job, b |-> 4]]
          \* A window that is no terminal has no children on a pty.
          /\ window # "terminal" => selected = "focus" /\ ~second /\ job = "gone"
    \* What the editor answers and what it is configured with vary one at a time.
    /\ \/ /\ configRows = <<>> /\ tree[Job].program \in AskedAtRuntime
          /\ editors \in [named : {"argument", "NVIM_LISTEN_ADDRESS", "NVIM", "none"}, own : EditorAnswers,
                          outer : {Silent, [Silent EXCEPT !.maps = {"n"}]}]
       \/ /\ editors = [named |-> "none", own |-> Silent, outer |-> Silent]
          /\ \E p \in {Window, Job} :
                configRows \in {lines \in SeqOf(ConfigRow, MaxConfigRows) : \A i \in DOMAIN lines : lines[i].form \in Grammar(tree[p].program)}
    /\ appPc = (IF selected = "focus" THEN "window" ELSE "shell") /\ children = {} /\ walk = 0
    /\ target \in (CASE selected = "own" -> {Whykey} [] selected = "pid" -> {2, Job} [] OTHER -> {Window})
    /\ found = "none" /\ modes = <<>> /\ layerSays = "none" /\ endpoint = "none" /\ turns = 0 /\ worlds = {World}

-----------------------------------------------------------------------------
(* External: what changes meanwhile.                                       *)
Turn ==
    /\ turns < MaxTurns /\ turns' = turns + 1 /\ Remember
    /\ UNCHANGED <<configRows, selected, appPc, target, children, walk, found, modes, layerSays, endpoint>>

Orphaned(p) ==
    [q \in DOMAIN tree |->
        IF q = p THEN Gone ELSE IF tree[q].parent = p THEN [tree[q] EXCEPT !.parent = Nobody] ELSE tree[q]]

\* The shell takes its terminal back at once, or has not yet.
ProcessExits ==
    /\ \E p \in {Window, 2, Job, 4} :
          /\ Alive(p) /\ tree' = Orphaned(p)
          /\ tty' \in {tty} \union (IF p = Job THEN {[tty EXCEPT !.group["a"] = 2]} ELSE {})
    /\ UNCHANGED editors /\ Turn

JobStarts ==
    /\ ~Alive(Job) /\ Alive(2) /\ \E program \in NewPrograms : tree' = [tree EXCEPT ![Job] = Running(program, 2)]
    /\ tty' = [tty EXCEPT !.group["a"] = Job]
    /\ UNCHANGED editors /\ Turn

ProcessExecs ==
    /\ \E p \in {2, Job}, program \in NewPrograms :
          Alive(p) /\ tree[p].program # program /\ tree' = [tree EXCEPT ![p].program = program]
    /\ UNCHANGED <<tty, editors>> /\ Turn

ForegroundMoves ==
    /\ Alive(Job) /\ tty' = [tty EXCEPT !.group["a"] = IF @ = 2 THEN Job ELSE 2]
    /\ UNCHANGED <<tree, editors>> /\ Turn

EditorTurns ==
    /\ configRows = <<>> /\ tree[Job].program \in AskedAtRuntime
    /\ \E now \in EditorAnswers : now # editors.own /\ editors' = [editors EXCEPT !.own = now]
    /\ UNCHANGED <<tree, tty>> /\ Turn

-----------------------------------------------------------------------------
(* focus.rs: from the window's process through its terminal.               *)
Reading == UNCHANGED <<tree, tty, editors, configRows, selected, turns, worlds>>

\* proc_stat of the window, child_pids.
LookAtWindow ==
    /\ appPc = "window" /\ Reading /\ UNCHANGED <<target, walk, found, modes, layerSays, endpoint>>
    /\ IF Alive(Window)
       THEN /\ appPc' = "children"
            /\ children' = {Child(p, "unread", Nobody) : p \in {q \in DOMAIN tree : Alive(q) /\ tree[q].parent = Window}}
       ELSE appPc' = "shell" /\ UNCHANGED children

\* proc_stat of the next child; those that are gone are left out.
ReadChild ==
    /\ appPc = "children" /\ Reading /\ UNCHANGED <<appPc, target, walk, found, modes, layerSays, endpoint>>
    /\ \E c \in children :
          /\ c.pty = "unread"
          /\ children' = (children \ {c})
                \union (IF Alive(c.pid) THEN {Child(c.pid, tty.of[c.pid], tty.group[tty.of[c.pid]])} ELSE {})

\* With several ptys the focused one is unknown, the target stays the window.
through_terminal ==
    /\ appPc = "children" /\ "unread" \notin Ptys /\ Reading
    /\ target' = (IF Cardinality(Ptys) = 1 THEN Followed ELSE target)
    /\ appPc' = "shell" /\ UNCHANGED <<children, walk, found, modes, layerSays, endpoint>>

-----------------------------------------------------------------------------
(* application.rs.                                                         *)
Inspecting == Reading /\ UNCHANGED <<target, children>>

Says(says) == layerSays' = says /\ appPc' = "endpoint" /\ UNCHANGED <<walk, found, modes, endpoint>>

TargetIsShell == appPc = "shell" /\ Inspecting /\ is_shell_process(target) /\ Says("shell")

StartWalk ==
    /\ appPc = "shell" /\ Inspecting /\ ~is_shell_process(target)
    /\ appPc' = "walk" /\ walk' = target /\ UNCHANGED <<found, modes, layerSays, endpoint>>

\* No editor among the ancestors: a definite answer for whykey's own process.
NoEditor(how) ==
    /\ found' = how /\ UNCHANGED <<walk, modes, endpoint>>
    /\ IF selected = "own" THEN layerSays' = "no editor" /\ appPc' = "endpoint"
       ELSE appPc' = "again" /\ UNCHANGED layerSays

\* interactive_ancestor_from: one ancestor.
Climb ==
    LET info == process_info(walk) IN
    /\ appPc = "walk" /\ Inspecting
    /\ \/ info = Gone /\ NoEditor("broken")
       \/ /\ info.program \in Interactive /\ found' = info.program
          /\ appPc' = (IF info.program \in VimLike THEN "mode"
                       ELSE IF info.program = "emacs" THEN "maps" ELSE "config")
          /\ modes' = (IF info.program = "emacs" THEN <<"n">> ELSE <<>>)
          /\ UNCHANGED <<walk, layerSays, endpoint>>
       \/ info # Gone /\ info.program \notin Interactive /\ info.parent = Nobody /\ NoEditor("none")
       \/ /\ info.program \notin Interactive /\ info.parent # Nobody
          /\ walk' = info.parent /\ UNCHANGED <<appPc, found, modes, layerSays, endpoint>>

ReadAgain ==
    /\ appPc = "again" /\ Inspecting
    /\ Says(IF Alive(target) THEN "unadapted" ELSE "unavailable")

\* A server answers while its editor runs; a command may fail anyway.
Reachable == Server = "outer" \/ (Server = "own" /\ tree[Job].program = found)
AsksFor == IF Server = "outer" THEN editors.outer ELSE editors.own

\* nvim_current_mode, vim_current_mode: every mode when it is not known.
AskMode ==
    /\ appPc = "mode" /\ Inspecting /\ UNCHANGED <<walk, found, layerSays, endpoint>>
    /\ \/ Server = "none" /\ appPc' = "config" /\ UNCHANGED modes
       \/ Server # "none" /\ Reachable /\ AsksFor.mode \in Modes /\ appPc' = "maps" /\ modes' = <<AsksFor.mode>>
       \/ Server # "none" /\ appPc' = "maps" /\ modes' = <<"n", "i">>

\* maparg for one mode, or key-binding of emacsclient: Neovim goes on to the
\* next mode after a command that fails, the others give up.
AskMapping ==
    /\ appPc = "maps" /\ Inspecting
    /\ \/ modes # <<>> /\ Reachable /\ Head(modes) \in AsksFor.maps /\ Says("runtime")
       \/ /\ modes # <<>> /\ modes' = (IF found = "nvim" \/ Reachable THEN Tail(modes) ELSE <<>>)
          /\ ~Reachable \/ Head(modes) \notin AsksFor.maps
          /\ UNCHANGED <<appPc, walk, found, layerSays, endpoint>>
       \/ modes = <<>> /\ appPc' = "config" /\ UNCHANGED <<walk, found, modes, layerSays, endpoint>>

ReadRows ==
    /\ appPc = "config" /\ Inspecting
    /\ Says(IF found \in Configured /\ \E i \in DOMAIN configRows : Matches(found, i, configRows) THEN "config" ELSE "unknown")

\* select_target_endpoint.
SelectEndpoint ==
    /\ appPc = "endpoint" /\ Inspecting
    /\ endpoint' = (IF (IF selected = "own" THEN layerSays \in {"shell", "no editor"} ELSE is_shell_process(target))
                    THEN "shell" ELSE "application")
    /\ appPc' = "done" /\ UNCHANGED <<walk, found, modes, layerSays>>

AppNext ==
    \/ ProcessExits \/ JobStarts \/ ProcessExecs \/ ForegroundMoves \/ EditorTurns
    \/ LookAtWindow \/ ReadChild \/ through_terminal
    \/ TargetIsShell \/ StartWalk \/ Climb \/ ReadAgain \/ AskMode \/ AskMapping \/ ReadRows
    \/ SelectEndpoint

AppSpec == AppInit /\ [][AppNext]_appVars

-----------------------------------------------------------------------------
(* The processes of a world above p, which are no more than three, and     *)
(* what is in the foreground of the window's only pty.                     *)
Above(w, p) ==
    LET WithParents(some) == some \union {w.tree[q].parent : q \in some \ {Nobody}} IN
    WithParents(WithParents(WithParents({p}))) \ {Nobody}

InForeground(w, p) ==
    LET leader == w.tty.group[w.tty.of[p]] IN
    /\ \A other \in {2, 4} : w.tree[other] # Gone => w.tty.of[other] = w.tty.of[p]
    /\ p = leader \/ w.tree[leader] = Gone

\* Lines that name the key without binding it.
NamesOnly(row) == row.form = "removes" \/ (row.form \in {"binds", "lua"} /\ row.lhs # "k")

\* What the layer says of editors and shells was so at some moment: the mapping
\* it quotes was one of the target's editor, the shell it goes on to had the
\* terminal of the window, and where it knows of no editor there was none.
ApplicationIsSound ==
    appPc = "done" =>
    /\ layerSays = "runtime" /\ Server = "own" =>
          \E w \in worlds : w.tree[Job].program = found /\ Head(modes) \in w.editors.own.maps
    /\ layerSays = "config" =>
          \E i \in DOMAIN configRows : Matches(found, i, configRows) /\ (BindsKey(found, i, configRows) \/ NamesOnly(configRows[i]))
    /\ endpoint = "shell" /\ selected = "focus" =>
          \E w \in worlds : w.tree[target].program = "sh" /\ InForeground(w, target)
    /\ layerSays \in {"no editor", "unadapted"} /\ found # "broken" =>
          \E w \in worlds : \A p \in Above(w, target) : w.tree[p].program \notin Interactive

=============================================================================
