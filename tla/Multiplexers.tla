---------------------------- MODULE Multiplexers ----------------------------
(***************************************************************************)
(* What whykey says a key does inside tmux, GNU Screen and Zellij          *)
(* (src/layers/tmux.rs, screen.rs, zellij.rs), against the program that    *)
(* reads the same keys. tmux is asked over separate calls while its client *)
(* goes on; Screen and Zellij do not tell their state, so their files are  *)
(* read.                                                                   *)
(***************************************************************************)
EXTENDS Integers, Sequences, SequencesExt

CONSTANTS
    MaxMuxLines,  \* bound: bindings, lines or blocks of the configuration
    MaxMuxKeys,   \* bound: keys of the sequence whykey is asked about
    MaxClientKeys \* bound: keys the tmux client gets during the questions

ASSUME MultiplexersAssumption == {MaxMuxLines, MaxMuxKeys, MaxClientKeys} \subseteq Nat

VARIABLES
    mux,       \* "tmux", "screen", "zellij"
    muxLines,  \* its configuration, as it lists it or as the files hold it
    client,    \* tmux: the key table of the client; Screen: prefix pending;
               \* Zellij: the mode
    muxKeys,   \* the keys of the sequence, the last one is asked about
    asked,     \* tmux: what was answered so far
    muxSays,   \* the verdict
    clientKeys \* keys the tmux client got while whykey asked

muxVars == <<mux, muxLines, client, muxKeys, asked, muxSays, clientKeys>>

-----------------------------------------------------------------------------
(* tmux. Keys are written in its own way: "C" is Shift+c, and a shifted    *)
(* punctuation key arrives as its symbol.                                  *)
TmuxQueryKey(key) == IF key = "shift+%" THEN "%" ELSE key

ParseTmuxKey(written) ==
    CASE written = "C" -> "shift+c"
      [] written = "^b" -> "ctrl+b"
      [] OTHER -> written

TmuxTyped == {"c", "shift+c", "shift+%", "ctrl+b"}
TmuxWritten == {"C", "%", "^b"}
TmuxTables == {"root", "prefix", "t"}
\* Commands of a binding: any command, one that emits keys, one that switches.
TmuxActions == {<<"run">>, <<"send-keys">>, <<"run", "to t">>, <<"send-keys", "to t">>}

TmuxBindings == [table : TmuxTables, key : TmuxWritten, act : TmuxActions]

\* switch_client_table: the last command that switches decides.
SwitchClientTable(act) == IF act[Len(act)] = "to t" THEN "t" ELSE "root"

Matching(listed, table, key) ==
    {i \in DOMAIN listed : listed[i].table = table /\ ParseTmuxKey(listed[i].key) = TmuxQueryKey(key)}
First(places) == CHOOSE i \in places : \A j \in places : i <= j
Latest(places) == CHOOSE i \in places : \A j \in places : j <= i

Resolution(is, table, act) == [is |-> is, table |-> table, act |-> act]

\* resolve_key, in the table itself.
InTable(listed, fails, prefixes, table, key) ==
    IF table # "prefix" /\ TmuxQueryKey(key) \in prefixes THEN Resolution("prefix", table, <<>>)
    ELSE IF table \in fails THEN Resolution("unavailable", table, <<>>)
    ELSE IF Matching(listed, table, key) # {}
    THEN Resolution("bound", table, listed[First(Matching(listed, table, key))].act)
    ELSE Resolution(IF table = "root" THEN "forwarded" ELSE "unbound", table, <<>>)

\* resolve_key: an unbound key is tried again in root, then dropped.
ResolveTmuxKey(listed, fails, prefixes, table, key) ==
    LET own == InTable(listed, fails, prefixes, table, key)
        again == InTable(listed, fails, prefixes, "root", key) IN
    IF own.is # "unbound" THEN own
    ELSE IF again.is = "forwarded" THEN Resolution("discarded", table, <<>>) ELSE again

\* Mutant of NextTable: a binding leaves the client in its table.
KeepsTable(r) == IF r.is = "prefix" THEN "prefix" ELSE r.table

NextTable(r) ==
    CASE r.is = "prefix" -> "prefix"
      [] r.is = "bound" -> SwitchClientTable(r.act)
      [] OTHER -> "root"

\* result_for_binding and the arms of resolve_with_tables.
TmuxOutcome(r) ==
    CASE r.is = "unavailable" -> IF r.table = "root" THEN "unavailable" ELSE "unknown"
      [] r.is = "bound" /\ r.act[1] = "send-keys" -> "passed"
      [] r.is = "forwarded" -> "pass"
      [] OTHER -> "consumed"

\* The walk over the earlier keys; a table that cannot be read ends it.
WalkTable(keys, start, prefixes, fails) ==
    FoldLeft(LAMBDA table, key :
                LET resolution == ResolveTmuxKey(muxLines, fails, prefixes, table, key) IN
                IF table = "lost" \/ resolution.is = "unavailable" THEN "lost" ELSE NextTable(resolution),
             start, keys)

ResolveWithTables(start, prefixes, fails) ==
    LET table == WalkTable(Front(muxKeys), start, prefixes, fails) IN
    IF table = "lost" THEN "unknown"
    ELSE TmuxOutcome(ResolveTmuxKey(muxLines, fails, prefixes, table, Last(muxKeys)))

\* The server. A binding puts the client back in root before its commands run.
TmuxRuns(act) ==
    [table |-> IF \E i \in DOMAIN act : act[i] = "to t" THEN "t" ELSE "root",
     did |-> IF \E i \in DOMAIN act : act[i] = "send-keys" THEN "passed" ELSE "consumed"]

TmuxDoes(lines, table, key) ==
    LET bound(in) == {b \in ToSet(lines) : b.table = in /\ ParseTmuxKey(b.key) = TmuxQueryKey(key)}
        in == IF bound(table) = {} THEN "root" ELSE table IN
    IF TmuxQueryKey(key) = "ctrl+b" /\ in # "prefix" THEN [table |-> "prefix", did |-> "consumed"]
    ELSE IF bound(in) # {} THEN TmuxRuns((CHOOSE b \in bound(in) : TRUE).act)
    ELSE [table |-> "root", did |-> IF table = "root" THEN "pass" ELSE "consumed"]

TmuxTableAfter(lines, keys, table) == FoldLeft(LAMBDA t, k : TmuxDoes(lines, t, k).table, table, keys)

-----------------------------------------------------------------------------
(* GNU Screen: lines of the screenrc. Bytes are abstract: a plain key, a    *)
(* control key, the sequences of an arrow.                                  *)
ScreenTyped == {"a", "ctrl+a", "ctrl+b", "left", "ctrl+left"}

ScreenKeyBytes(key) == IF key = "left" THEN "none" ELSE key

\* screen_input_candidates: an arrow is also tried with Ctrl.
ScreenInputCandidates(key) ==
    ({ScreenKeyBytes(key)} \ {"none"}) \union (IF key = "left" THEN {"ctrl+left"} ELSE {})

ScreenLines ==
    {[do |-> "escape", key |-> k, act |-> "none"] : k \in {"ctrl+a", "ctrl+b"}}
    \union {[do |-> "bind", key |-> k, act |-> a] : k \in {"a", "ctrl+b"}, a \in {"select", "none"}}
    \union {[do |-> "bindkey", key |-> k, act |-> a] :
                k \in {"left", "ctrl+left", "a"}, a \in {"select", "stuff", "none"}}

\* load_config: the last escape line decides.
CommandPrefix(lines) ==
    LET escapes == {i \in DOMAIN lines : lines[i].do = "escape"} IN
    IF escapes = {} THEN "ctrl+a" ELSE lines[Latest(escapes)].key

\* apply_binding: a later line replaces the key's, one without action removes.
ParseScreen(lines, do) ==
    FoldLeft(LAMBDA bound, l : IF l.do = do THEN [bound EXCEPT ![l.key] = l.act] ELSE bound,
             [k \in ScreenTyped |-> "none"], lines)

PrefixPending(keys) ==
    FoldLeft(LAMBDA pending, key : ~pending /\ ScreenKeyBytes(key) = CommandPrefix(muxLines), FALSE, keys)

ScreenOutcome(keys) ==
    LET key == Last(keys)
        bindkeys == ParseScreen(muxLines, "bindkey")
        found == {k \in ScreenInputCandidates(key) : bindkeys[k] # "none"} IN
    IF PrefixPending(Front(keys)) \/ ScreenKeyBytes(key) = CommandPrefix(muxLines) THEN "consumed"
    ELSE IF found # {} THEN IF \E k \in found : bindkeys[k] = "stuff" THEN "passed" ELSE "consumed"
    ELSE IF key # "left" /\ ParseScreen(muxLines, "bind")[key] # "none" THEN "maybe" ELSE "pass"

\* Screen itself: what it has bound to a sequence, found from the end.
ScreenBound(lines, do, key) ==
    LET mine == {i \in DOMAIN lines : lines[i].do = do /\ lines[i].key = key} IN
    IF mine = {} THEN "none" ELSE lines[Latest(mine)].act

ScreenWaits(lines, keys) ==
    FoldLeft(LAMBDA pending, k : ~pending /\ k = CommandPrefix(lines), FALSE, keys)

ScreenDoes(lines, pending, key) ==
    IF pending \/ key = CommandPrefix(lines) THEN "consumed"
    ELSE CASE ScreenBound(lines, "bindkey", key) = "stuff" -> "passed"
           [] ScreenBound(lines, "bindkey", key) = "select" -> "consumed"
           [] OTHER -> "pass"

-----------------------------------------------------------------------------
(* Zellij: blocks of keybinds, each over several lines or on one. The one   *)
(* key of the blocks is "x".                                                *)
ZellijModes == {"normal", "locked"}
ZellijTyped == {"x", "y"}
ZellijBlocks == [who : ZellijModes \union {"except", "among"}, oneLine : BOOLEAN,
                 act : {"quit", "write"}]

\* shared_except "locked", shared_among "locked".
BlockApplies(b, mode) ==
    CASE b.who = "except" -> mode # "locked"
      [] b.who = "among" -> mode = "locked"
      [] OTHER -> b.who = mode

LinesOf(b) ==
    IF b.oneLine THEN <<[is |-> "open", block |-> b, binds |-> TRUE, depth |-> 0]>>
    ELSE <<[is |-> "open", block |-> b, binds |-> FALSE, depth |-> 1],
           [is |-> "bind", block |-> b, binds |-> TRUE, depth |-> 0],
           [is |-> "close", block |-> b, binds |-> FALSE, depth |-> -1]>>

\* find_binding, one line.
ScanLine(scan, line, mode, key) ==
    LET b == line.block
        shared == b.who \in {"except", "among"}
        found == IF line.binds /\ key = "x" THEN b.act ELSE scan.found
        depth == scan.depth + line.depth IN
    IF scan.ignored > 0 THEN [scan EXCEPT !.ignored = @ + line.depth]
    ELSE IF line.is = "open" /\ shared /\ ~BlockApplies(b, mode) THEN [scan EXCEPT !.ignored = 1]
    ELSE IF line.is = "open" /\ (shared \/ b.who = mode)
    THEN [scan EXCEPT !.inside = TRUE, !.depth = 1, !.found = found]
    ELSE IF scan.inside /\ depth <= 0 THEN [scan EXCEPT !.inside = FALSE, !.depth = depth]
    ELSE IF scan.inside
    THEN [scan EXCEPT !.depth = depth, !.found = IF line.is = "bind" THEN found ELSE @]
    ELSE scan

\* The lines of a block, one after the other.
ScanBlock(scan, lines, mode, key) ==
    FoldLeft(LAMBDA s, line : ScanLine(s, line, mode, key), scan, lines)

Outside == [inside |-> FALSE, depth |-> 0, ignored |-> 0, found |-> "none"]
ScanBlocks(blocks, mode, key) ==
    FoldLeft(LAMBDA scan, b : ScanBlock(scan, LinesOf(b), mode, key), Outside, blocks)

FindZellijBinding(mode, key) == ScanBlocks(muxLines, mode, key).found

\* inspect: the text of a binding starts with "bind", so that a write is not
\* told from another action; a mode that is only assumed decides nothing.
ZellijOutcome(mode, modeKnown, complete, key) ==
    IF FindZellijBinding(mode, key) # "none" THEN IF modeKnown THEN "consumed" ELSE "handled?"
    ELSE IF complete THEN "pass" ELSE "maybe"

ZellijDoes(lines, mode, key) ==
    LET mine == {i \in DOMAIN lines : BlockApplies(lines[i], mode)} IN
    IF key = "x" /\ mine # {} THEN IF lines[Latest(mine)].act = "write" THEN "passed" ELSE "consumed"
    ELSE "pass"

-----------------------------------------------------------------------------
NotAsked == [step |-> "table", start |-> "root", then |-> "root", prefixes |-> {}]

MuxInit ==
    /\ mux \in {"tmux", "screen", "zellij"}
    /\ client = CASE mux = "tmux" -> "root" [] mux = "screen" -> "no" [] OTHER -> "normal"
    /\ muxLines = <<>> /\ muxKeys = <<>>
    /\ asked = NotAsked
    /\ muxSays = "none"
    /\ clientKeys = 0

WriteLine ==
    /\ Len(muxLines) < MaxMuxLines /\ muxKeys = <<>>
    /\ \E l \in CASE mux = "tmux" -> TmuxBindings
                  [] mux = "screen" -> ScreenLines
                  [] OTHER -> ZellijBlocks :
          /\ mux = "tmux" => \A i \in DOMAIN muxLines :
                <<muxLines[i].table, muxLines[i].key>> # <<l.table, l.key>>
          /\ muxLines' = Append(muxLines, l)
    /\ UNCHANGED <<mux, client, muxKeys, asked, muxSays, clientKeys>>

\* The keys whykey is asked about; Zellij is asked about one at a time.
NameKey ==
    /\ muxSays = "none" /\ asked.step = "table"
    /\ Len(muxKeys) < IF mux = "zellij" THEN 1 ELSE MaxMuxKeys
    /\ \E k \in CASE mux = "tmux" -> TmuxTyped [] mux = "screen" -> ScreenTyped [] OTHER -> ZellijTyped :
          muxKeys' = Append(muxKeys, k)
    /\ UNCHANGED <<mux, muxLines, client, asked, muxSays, clientKeys>>

\* Ctrl g of Zellij.
SwitchMode ==
    /\ mux = "zellij" /\ muxSays = "none"
    /\ client' = IF client = "normal" THEN "locked" ELSE "normal"
    /\ UNCHANGED <<mux, muxLines, muxKeys, asked, muxSays, clientKeys>>

\* The person at the tmux client goes on typing.
ClientKey ==
    /\ mux = "tmux" /\ muxSays = "none" /\ muxKeys # <<>> /\ clientKeys < MaxClientKeys
    /\ \E k \in TmuxTyped : client' = TmuxDoes(muxLines, client, k).table
    /\ clientKeys' = clientKeys + 1
    /\ UNCHANGED <<mux, muxLines, muxKeys, asked, muxSays>>

\* tmux_active_table, with root in place of an answer that does not come.
TmuxActiveTable ==
    /\ mux = "tmux" /\ muxKeys # <<>> /\ asked.step = "table"
    /\ \E answered \in BOOLEAN :
          asked' = [asked EXCEPT !.step = "prefix", !.then = client,
                                 !.start = IF answered THEN client ELSE "root"]
    /\ UNCHANGED <<mux, muxLines, client, muxKeys, muxSays, clientKeys>>

TmuxPrefixes ==
    /\ mux = "tmux" /\ asked.step = "prefix"
    /\ asked' = [asked EXCEPT !.step = "keys", !.prefixes = {"ctrl+b"}]
    /\ UNCHANGED <<mux, muxLines, client, muxKeys, muxSays, clientKeys>>

\* list_keys of the tables the walk needs; it may fail.
ListKeys ==
    /\ mux = "tmux" /\ asked.step = "keys" /\ muxSays = "none"
    /\ \E fails \in SUBSET TmuxTables :
          muxSays' = ResolveWithTables(asked.start, asked.prefixes, fails)
    /\ UNCHANGED <<mux, muxLines, client, muxKeys, asked, clientKeys>>

InspectFiles ==
    /\ mux \in {"screen", "zellij"} /\ muxKeys # <<>> /\ muxSays = "none"
    /\ IF mux = "screen" THEN muxSays' = ScreenOutcome(muxKeys)
       ELSE \E modeKnown, complete \in BOOLEAN :
               muxSays' = ZellijOutcome(IF modeKnown THEN client ELSE "normal", modeKnown, complete, muxKeys[1])
    /\ UNCHANGED <<mux, muxLines, client, muxKeys, asked, clientKeys>>

MuxNext == WriteLine \/ NameKey \/ SwitchMode \/ ClientKey \/ TmuxActiveTable \/ TmuxPrefixes
           \/ ListKeys \/ InspectFiles

MuxSpec == MuxInit /\ [][MuxNext]_muxVars

-----------------------------------------------------------------------------
\* What the program does with the last key, typed after the others.
MuxDoes ==
    CASE mux = "tmux" ->
            TmuxDoes(muxLines, TmuxTableAfter(muxLines, Front(muxKeys), asked.then), Last(muxKeys)).did
      [] mux = "screen" -> ScreenDoes(muxLines, ScreenWaits(muxLines, Front(muxKeys)), Last(muxKeys))
      [] OTHER -> ZellijDoes(muxLines, client, Last(muxKeys))

\* Where the verdict is right by design of the reader: tmux said which table it
\* was in; no plain arrow meets a Ctrl arrow's line; Zellij's blocks take
\* several lines and write nothing.
ReadsWhatItCan ==
    CASE mux = "tmux" -> asked.start = asked.then
      [] mux = "screen" -> Last(muxKeys) # "left"
      [] OTHER -> \A i \in DOMAIN muxLines : ~muxLines[i].oneLine /\ muxLines[i].act = "quit"

\* A verdict that a multiplexer takes the key, passes it or answers it with
\* other keys is what the multiplexer does when the whole sequence is typed
\* from the state it was in when it was first asked, whatever the client is
\* given meanwhile and whichever listing fails; a Zellij whose mode is known.
MuxVerdictIsSound ==
    muxSays \in {"consumed", "passed", "pass"} /\ ReadsWhatItCan =>
        \/ muxSays = MuxDoes
        \/ mux = "zellij" /\ muxSays = "pass" /\ client # "normal"
=============================================================================
