----------------------------- MODULE TerminalInput -----------------------------
(***************************************************************************)
(* Keys as a terminal sends them, and as whykey takes the bytes apart      *)
(* (src/listen/protocol.rs, InputReader and TerminalBackend of             *)
(* terminal.rs).  The terminal speaks the Kitty protocol if it has it: it  *)
(* answers the query for it, sends releases, and keeps the arrow and       *)
(* editing keys in the form CSI 1 ; modifiers : event letter.              *)
(*                                                                         *)
(* A byte that decides something is a token; a parameter text is one.  A   *)
(* token with `late` came after a pause longer than SEQUENCE_TIMEOUT_MS.   *)
(***************************************************************************)
EXTENDS Integers, Sequences, SequencesExt

CONSTANTS
    Forms,      \* the forms of keys that the user types
    MaxUnits    \* bound: keys typed

AllForms == {"text", "utf8", "escape", "alt", "ss3", "csi", "tilde", "kitty", "kittyNew",
             "kittyModifier"}

ASSUME TerminalInputAssumption == Forms \subseteq AllForms /\ MaxUnits \in Nat

VARIABLES
    sent,      \* the keys the user has typed since the capture is ready
    stream,    \* the tokens that are in the terminal's input queue
    inputPc,   \* "query", "push" or "reading"
    answer,    \* the answer to the query: "none", "coming" or "read"
    frames,    \* the raw events that were read
    reported   \* what TerminalBackend has returned

inputVars == <<sent, stream, inputPc, answer, frames, reported>>

Events == {"press", "release"}
HasRelease == {"csi", "tilde", "kitty", "kittyNew", "kittyModifier"}

\* A key: its form, its event, and whether the user paused before it.
Units == {u \in [form : Forms, event : Events, late : BOOLEAN] :
             u.event = "release" => u.form \in HasRelease}

T(kind) == [t |-> kind, event |-> "none", late |-> FALSE]
Params(event) == [t |-> "params", event |-> event, late |-> FALSE]
After(pause, tokens) == [tokens EXCEPT ![1].late = pause]

Esc == T("esc")
Answer == <<Esc, T("["), T("?flags"), T("u")>>

Tokens(form, event) ==
    CASE form = "text" -> <<T("a")>>
      [] form = "utf8" -> <<T("lead"), T("cont")>>
      [] form = "escape" -> <<Esc>>
      [] form = "alt" -> <<Esc, T("a")>>
      [] form = "ss3" -> <<Esc, T("O"), T("A")>>
      [] form = "csi" -> <<Esc, T("["), Params(event), T("A")>>
      [] form = "tilde" -> <<Esc, T("["), Params(event), T("~")>>
      [] form = "kitty" -> <<Esc, T("["), T("a-code"), Params(event), T("u")>>
      [] form = "kittyModifier" -> <<Esc, T("["), T("shift-code"), Params(event), T("u")>>
      [] form = "kittyNew" -> <<Esc, T("["), T("new-code"), Params(event), T("u")>>

UnitTokens(unit) == After(unit.late, Tokens(unit.form, unit.event))

InputInit ==
    /\ sent = <<>> /\ frames = <<>> /\ reported = <<>>
    /\ inputPc = "query"
    /\ answer \in {"none", "coming"}
    /\ stream \in {<<>>} \cup {UnitTokens(u) : u \in {v \in Units : v.form \in {"text", "kitty"}}}

-----------------------------------------------------------------------------
(* The user and the terminal.                                              *)
Types ==
    /\ inputPc = "reading" /\ Len(sent) < MaxUnits
    /\ \E u \in Units : sent' = Append(sent, u) /\ stream' = stream \o UnitTokens(u)
    /\ UNCHANGED <<inputPc, answer, frames, reported>>

\* The answer may take longer than the 30 ms whykey waits for it.
TerminalAnswers ==
    /\ answer = "coming"
    /\ stream' = stream \o After(TRUE, Answer)
    /\ answer' = "sent"
    /\ UNCHANGED <<sent, inputPc, frames, reported>>

\* query_keyboard_protocol: whatever is there, up to 32 bytes, is read; it is
\* the answer only if it begins with the answer's bytes.
QueryAnswered == IsPrefix(After(TRUE, Answer), stream)

QueryKeyboardProtocol ==
    /\ inputPc = "query"
    /\ inputPc' = "push"
    /\ stream' = <<>>
    /\ answer' = IF QueryAnswered THEN "read" ELSE answer
    /\ UNCHANGED <<sent, frames, reported>>

\* The flags are pushed and the input queue is flushed: the capture is ready.
CaptureReady ==
    /\ inputPc = "push"
    /\ inputPc' = "reading"
    /\ stream' = <<>>
    /\ UNCHANGED <<sent, answer, frames, reported>>

-----------------------------------------------------------------------------
(* read_raw_event                                                          *)
Alphabetic == {"a", "A", "O", "u"}

\* Mutant: a sequence ends with a letter only.
EndsWithLetter(bytes) == Len(bytes) > 2 /\ Last(bytes).t \in Alphabetic

IsCompleteEscapeSequence(bytes) == Len(bytes) > 2 /\ Last(bytes).t \in Alphabetic \cup {"~"}

\* has_input: there is another token, without a pause before it.
HasMore(at) == at < Len(stream) /\ ~stream[at + 1].late

\* How much of the stream the next event takes.
EscapeLength ==
    CASE ~HasMore(1) \/ stream[2].t = "esc" -> 1
      [] OTHER ->
           CHOOSE n \in 2 .. Len(stream) :
              /\ \A k \in 2 .. n - 1 :
                    HasMore(k) /\ ~IsCompleteEscapeSequence(SubSeq(stream, 1, k))
              /\ IsCompleteEscapeSequence(SubSeq(stream, 1, n)) \/ ~HasMore(n)

EventLength ==
    CASE Head(stream).t = "esc" -> EscapeLength
      [] Head(stream).t = "lead" /\ HasMore(1) -> 2
      [] OTHER -> 1

-----------------------------------------------------------------------------
(* decode_bytes: the key and the event, or the raw bytes.                  *)
Key(key, event) == [key |-> key, event |-> event]

TokenKinds(bytes) == [i \in DOMAIN bytes |-> bytes[i].t]
IsCsi(bytes) == Len(bytes) > 2 /\ SubSeq(TokenKinds(bytes), 1, 2) = <<"esc", "[">>
IsKitty(bytes) == IsCsi(bytes) /\ Last(bytes).t = "u"

\* kitty_event_type: of anything that looks like Kitty
KittyEventType(bytes) ==
    IF IsKitty(bytes) /\ \E i \in DOMAIN bytes : bytes[i].t = "params"
    THEN (CHOOSE b \in ToSet(bytes) : b.t = "params").event
    ELSE "press"

\* kitty_key_name: some codes are unknown to whykey.
KittyKeyName(bytes) ==
    CASE bytes[3].t = "a-code" -> "a"
      [] bytes[3].t = "shift-code" -> "LEFT_SHIFT"
      [] OTHER -> "unknown"

\* What is not recognized keeps the event it says it is.
RawEvent(bytes) == Key("RAW", KittyEventType(bytes))

DecodeKitty(bytes) ==
    IF KittyKeyName(bytes) = "unknown" THEN RawEvent(bytes)
    ELSE Key(KittyKeyName(bytes), KittyEventType(bytes))

\* Of the parameters only the modifiers are looked at; with an event after
\* them they are not a number, and there are none.
DecodeCsi(bytes) ==
    CASE IsKitty(bytes) -> DecodeKitty(bytes)
      [] Last(bytes).t \in {"A", "~"} -> Key("UP", "press")
      [] OTHER -> RawEvent(bytes)

DecodeSs3(bytes) == IF Last(bytes).t = "A" THEN Key("UP", "press") ELSE RawEvent(bytes)

DecodeEscape(bytes) ==
    CASE Len(bytes) = 1 -> Key("ESCAPE", "press")
      [] IsCsi(bytes) -> DecodeCsi(bytes)
      [] Len(bytes) > 2 /\ bytes[2].t = "O" -> DecodeSs3(bytes)
      [] TokenKinds(bytes) = <<"esc", "a">> -> Key("a", "press")
      [] OTHER -> RawEvent(bytes)

DecodeBytes(bytes) ==
    CASE Head(bytes).t = "esc" -> DecodeEscape(bytes)
      [] TokenKinds(bytes) = <<"a">> -> Key("a", "press")
      [] TokenKinds(bytes) = <<"lead", "cont">> -> Key("utf8", "press")
      [] OTHER -> RawEvent(bytes)

IsTerminalModifierKey(key) == key.key = "LEFT_SHIFT"

\* next_observed_event: presses, but not of a modifier
ReadEvent ==
    /\ inputPc = "reading" /\ stream # <<>>
    /\ LET bytes == SubSeq(stream, 1, EventLength)
           key == DecodeBytes(bytes)
       IN  /\ frames' = Append(frames, TokenKinds(bytes))
           /\ reported' = IF key.event = "press" /\ ~IsTerminalModifierKey(key)
                          THEN Append(reported, Len(frames')) ELSE reported
    /\ stream' = SubSeq(stream, EventLength + 1, Len(stream))
    /\ UNCHANGED <<sent, inputPc, answer>>

InputNext == Types \/ TerminalAnswers \/ QueryKeyboardProtocol \/ CaptureReady \/ ReadEvent

InputSpec == InputInit /\ [][InputNext]_inputVars

-----------------------------------------------------------------------------
KindsOf(unit) == [i \in DOMAIN UnitTokens(unit) |-> UnitTokens(unit)[i].t]

\* Only a pause tells where an Escape or an Alt-prefixed key ends; an Escape
\* is also ended by the next sequence.
Delimited(units) ==
    \A i \in 1 .. Len(units) - 1 :
        /\ units[i].form = "alt" => units[i + 1].late
        /\ units[i].form = "escape" => units[i + 1].late \/ KindsOf(units[i + 1])[1] = "esc"

AnswerCame == answer = "sent" /\ inputPc = "reading"

\* However the keys follow one another, and whichever are read at once, each
\* raw event is exactly one of them.
FramesAreKeys ==
    Delimited(sent) /\ answer = "none" =>
        /\ Len(frames) <= Len(sent)
        /\ \A i \in DOMAIN frames : frames[i] = KindsOf(sent[i])

=============================================================================
