--------------------------- MODULE DesktopShortcuts ---------------------------
(***************************************************************************)
(* What whykey says of a key under a desktop: KDE Plasma (layers/kde.rs),  *)
(* GNOME (gnome.rs), MATE, Cinnamon (gsettings.rs, mate.rs, cinnamon.rs)   *)
(* and Xfce (xfce.rs). The sources of shortcuts and then the daemons that  *)
(* would grab the key are asked with one command each, while the user      *)
(* changes shortcuts and daemons come and go.                              *)
(***************************************************************************)
EXTENDS Integers, Sequences, SequencesExt, FiniteSets

CONSTANT MaxDesktopMoves \* bound: what changes during an inspection

ASSUME DesktopShortcutsAssumption == MaxDesktopMoves \in Nat

VARIABLES
    desktop,   \* the desktop; "... alone": its key is a lone modifier
    shortcuts, \* what each source binds to the key
    up,        \* the daemons and components that are up
    replies,   \* what whykey was told of each source, in the order of Sources
    daemons,   \* what whykey was told of each daemon
    desktopMoves, \* changes so far
    fatesSeen  \* what would become of the key, at every moment since the start

desktopVars == <<desktop, shortcuts, up, replies, daemons, desktopMoves, fatesSeen>>

Desktops == {"kde", "gnome", "mate", "cinnamon", "xfce", "kde alone", "gnome alone"}

\* In the order they are asked; a custom shortcut is listed by the one before it.
Sources(d) ==
    CASE d = "kde" -> <<"kwin", "application">>
      [] d = "gnome" -> <<"mutter", "shell", "media", "custom">>
      [] d \in {"mate", "cinnamon"} -> <<"wm", "media", "custom">>
      [] d = "xfce" -> <<"commands">>
      [] d = "kde alone" -> <<"kwinrc">>
      [] OTHER -> <<"overlay-key">>

\* Whose grab a shortcut needs (gnome.rs SCHEMAS); of KDE each component's.
Owner(d, source) ==
    CASE d = "kde" -> source
      [] d = "gnome" /\ source = "shell" -> "org.gnome.Shell"
      [] d = "gnome" /\ source \in {"media", "custom"} -> "MediaKeys"
      [] OTHER -> "compositor"

OwnersOf(d) == {Owner(d, source) : source \in ToSet(Sources(d))}

\* Daemons and components that may be up or not; "reader": the owner of
\* org.kde.kglobalaccel gets the keys.
Fickle(d) == (OwnersOf(d) \ {"compositor"}) \union (IF d = "kde" THEN {"reader"} ELSE {})

\* "opaque": a binding to the key that whykey cannot read.
Settings(d) == {"unbound", "ours"} \union (IF d \in {"gnome", "mate", "cinnamon", "xfce"} THEN {"opaque"} ELSE {})

\* External: what the desktop does with the key, of these shortcuts with these daemons.
Fate(set, alive) ==
    /\ \E i \in DOMAIN Sources(desktop) :
          LET source == Sources(desktop)[i] IN
          set[source] # "unbound" /\ Owner(desktop, source) \in alive \union {"compositor"}
    /\ desktop = "kde" => "reader" \in alive
Consumes == Fate(shortcuts, up)

Witness == fatesSeen' = fatesSeen \union {Consumes'}

-----------------------------------------------------------------------------
Bound(reply) == reply = "ours"
Replied(reply) == \E i \in DOMAIN replies : replies[i] = reply

\* The daemons to ask about are those of the shortcuts found.
ToAsk ==
    {Owner(desktop, Sources(desktop)[i]) : i \in {j \in DOMAIN replies : Bound(replies[j])}} \ {"compositor"}

AllReplied == ~Replied("unasked")

\* gsettings.rs inspect.
MatchVerdict == IF \E i \in DOMAIN replies : Bound(replies[i]) THEN "consumed" ELSE "pass"

\* kde.rs inspect_runtime: a shortcut of an active component consumes the key
\* unless the owner of the bus name is known to get no keys.
KdeVerdict ==
    IF \E o \in DOMAIN daemons : o # "reader" /\ daemons[o] = "failed" THEN "unsure"
    ELSE IF daemons["reader"] # "down" /\ \E o \in ToAsk : daemons[o] = "up" THEN "consumed" ELSE "pass"

\* Mutant of GnomeVerdict: a shortcut counts whether its daemon runs or not.
WithoutDaemons == MatchVerdict

\* gnome.rs inspect: the shortcut of a daemon that cannot be checked counts.
GnomeVerdict ==
    IF \E i \in DOMAIN replies :
          /\ Bound(replies[i])
          /\ LET owner == Owner(desktop, Sources(desktop)[i]) IN
             owner = "compositor" \/ daemons[owner] \in {"up", "failed"}
    THEN "consumed" ELSE "pass"

\* mate.rs inspect: a schema that cannot be read is only mentioned.
MateVerdict == IF \A i \in DOMAIN replies : replies[i] = "failed" THEN "unsure" ELSE MatchVerdict

\* inspect_alone of KDE and of GNOME: a shortcut of the modifier is not sure to run.
AloneVerdict == IF MatchVerdict = "consumed" THEN "unsure" ELSE "pass"

DesktopVerdict ==
    IF desktop # "mate" /\ Replied("failed") THEN "unsure" ELSE
    CASE desktop = "mate" -> MateVerdict
      [] desktop = "kde" -> KdeVerdict
      [] desktop = "gnome" -> GnomeVerdict
      [] desktop \in {"cinnamon", "xfce"} -> MatchVerdict
      [] OTHER -> AloneVerdict

-----------------------------------------------------------------------------
DesktopInit ==
    /\ desktop \in Desktops
    /\ shortcuts \in [ToSet(Sources(desktop)) -> Settings(desktop)]
    /\ up \in SUBSET Fickle(desktop)
    /\ replies = [i \in DOMAIN Sources(desktop) |-> "unasked"]
    /\ daemons = [o \in Fickle(desktop) |-> "unasked"]
    /\ desktopMoves = 0 /\ fatesSeen = {Consumes}

\* External: the user sets or removes a shortcut, a daemon starts or ends.
Move == desktopMoves < MaxDesktopMoves /\ desktopMoves' = desktopMoves + 1 /\ UNCHANGED <<desktop, replies, daemons>> /\ Witness

SetShortcut ==
    /\ \E source \in DOMAIN shortcuts, to \in Settings(desktop) :
          to # shortcuts[source] /\ shortcuts' = [shortcuts EXCEPT ![source] = to]
    /\ UNCHANGED up
    /\ Move

DaemonComesOrGoes ==
    /\ \E o \in Fickle(desktop) : up' = (IF o \in up THEN up \ {o} ELSE up \union {o})
    /\ UNCHANGED shortcuts
    /\ Move

Asking == UNCHANGED <<desktop, shortcuts, up, desktopMoves, fatesSeen>>

\* gsettings list-recursively of the next schema, xfconf-query, or the file. The
\* reply for a custom shortcut that was not listed is that it is not bound.
ListSource ==
    /\ desktop # "kde" /\ Asking /\ UNCHANGED daemons
    /\ \E i \in DOMAIN replies :
          LET source == Sources(desktop)[i]
              listed == [j \in DOMAIN replies |->
                  IF j = i THEN shortcuts[source]
                  ELSE IF j = i + 1 /\ Sources(desktop)[j] = "custom" /\ shortcuts["custom"] = "unbound"
                       THEN "unbound" ELSE replies[j]] IN
          /\ replies[i] = "unasked" /\ \A j \in 1..(i - 1) : replies[j] # "unasked"
          /\ \/ replies' = listed
             \/ replies' = [replies EXCEPT ![i] = "failed"]

\* globalShortcutsByKey names the shortcuts of every component at once.
ShortcutsByKey ==
    /\ desktop = "kde" /\ ~AllReplied /\ Asking /\ UNCHANGED daemons
    /\ \/ replies' = [i \in DOMAIN replies |-> shortcuts[Sources(desktop)[i]]]
       \/ replies' = [i \in DOMAIN replies |-> "failed"]

\* component_active, owner_running: of each shortcut that was found.
AskDaemon ==
    /\ AllReplied /\ ~Replied("failed") /\ Asking /\ UNCHANGED replies
    /\ \E o \in ToAsk :
          /\ daemons[o] = "unasked"
          /\ daemons' \in {[daemons EXCEPT ![o] = IF o \in up THEN "up" ELSE "down"],
                           [daemons EXCEPT ![o] = "failed"]}

\* wayland_owner_missing_keys, after the shortcuts: the process that owns the
\* name, where it can be told.
AskReader ==
    /\ desktop = "kde" /\ AllReplied /\ ~Replied("failed") /\ Asking /\ UNCHANGED replies
    /\ \A o \in ToAsk : daemons[o] \notin {"unasked", "failed"}
    /\ daemons["reader"] = "unasked"
    /\ daemons' \in {[daemons EXCEPT !["reader"] = IF "reader" \in up THEN "up" ELSE "down"],
                     [daemons EXCEPT !["reader"] = "failed"]}

DesktopNext ==
    \/ SetShortcut \/ DaemonComesOrGoes
    \/ ListSource \/ ShortcutsByKey \/ AskDaemon \/ AskReader

DesktopSpec == DesktopInit /\ [][DesktopNext]_desktopVars

-----------------------------------------------------------------------------
Answered ==
    /\ AllReplied
    /\ \/ Replied("failed")
       \/ \E o \in DOMAIN daemons : desktop = "kde" /\ o # "reader" /\ daemons[o] = "failed"
       \/ /\ \A o \in ToAsk : daemons[o] # "unasked"
          /\ desktop = "kde" => daemons["reader"] # "unasked"

\* An accelerator that cannot be read, a schema of MATE that fails next to one
\* that does not, a daemon that cannot be asked about: whykey mentions them at
\* most and goes on without them.
GoesOnWithout ==
    \/ Replied("opaque")
    \/ desktop = "mate" /\ Replied("failed")
    \/ \E o \in DOMAIN daemons : daemons[o] = "failed"

\* A definite verdict is what the desktop would have done with the key at some
\* moment of the inspection.
DesktopVerdictIsSound ==
    Answered /\ ~GoesOnWithout => (DesktopVerdict = "consumed" => TRUE \in fatesSeen) /\ (DesktopVerdict = "pass" => FALSE \in fatesSeen)
=============================================================================
