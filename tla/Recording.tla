------------------------------- MODULE Recording -------------------------------
(***************************************************************************)
(* Recording and replaying what whykey reads from outside the process      *)
(* (src/recording.rs): a recorded run writes down every answer it gets,    *)
(* lab/run.py stores them, and a replay is answered from the store.        *)
(***************************************************************************)
EXTENDS Integers, Sequences, SequencesExt, FiniteSets

CONSTANTS
    MaxAsked,    \* bound: how often the recorded run asks each question
    MaxReplayed  \* bound: how often the replay does

ASSUME RecordingAssumption == MaxAsked \in Nat /\ MaxReplayed \in Nat

VARIABLES
    recPc,      \* "recording", "loading", "replaying", or "ended"
    kind,       \* the kind of the question that varies
    outside,    \* what the environment answers each question now
    log,        \* the recording: the answers to each question, in order
    document,   \* the inputs of the stored recording that are not loaded yet
    answers,    \* Replay.answers: what is left for each question
    seen,       \* the answers of the replay to each question
    recExit     \* the status the replay ends with

recVars == <<recPc, kind, outside, log, document, answers, seen, recExit>>

-----------------------------------------------------------------------------
(* What the functions ask for, and the answers each of them tells apart.   *)
Errors == {"os error", "other error"}

LiveAnswers ==
    [env        |-> {"absent", "text", "not utf-8"},
     file       |-> {"text", "not utf-8"} \union Errors,
     link       |-> {"text", "not utf-8"} \union Errors,
     metadata   |-> {"file", "dir", "symlink"} \union Errors,
     open       |-> {"yes", "no"},
     prefix     |-> {"none", "text", "not utf-8"},
     dir        |-> {"names", "untyped names", "not utf-8"} \union Errors,
     pid        |-> {"pid"},
     termios    |-> {"settings", "message"},
     command    |-> {"exit 0", "exit 1", "signal", "core dump", "timeout", "spawn: os error"}]

Kinds == DOMAIN LiveAnswers
Questions == {"env", kind}

\* Encoding and decoding an answer. Bytes survive (as hex, if need be), names
\* and values that are not UTF-8 do not, and of a child that dumped core the
\* signal is left.
BytesRoundTrip(a) == a
NameRoundTrip(a) == IF a = "not utf-8" THEN "replaced text" ELSE a
ListingRoundTrip(a) ==
    IF a = "untyped names" THEN "names without a type" ELSE NameRoundTrip(a)
CommandRoundTrip(a) == IF a = "core dump" THEN "signal" ELSE a

RoundTrip(k, a) ==
    CASE k \in {"env", "link"} -> NameRoundTrip(a)
      [] k = "dir" -> ListingRoundTrip(a)
      [] k = "command" -> CommandRoundTrip(a)
      [] OTHER -> BytesRoundTrip(a)

\* Replay.answers, of one question: a fixed one is kept, those of a queue are taken.
Absent == [is |-> "absent", queue |-> <<>>, asked |-> FALSE]
Fixed(response) == [is |-> "fixed", queue |-> response, asked |-> FALSE]
Ordered(queue) == [is |-> "ordered", queue |-> queue, asked |-> FALSE]

-----------------------------------------------------------------------------
RecInit ==
    /\ recPc = "recording" /\ kind \in Kinds
    /\ \E a \in LiveAnswers["env"], b \in LiveAnswers[kind] :
          outside = IF kind = "env" THEN [env |-> a]
                    ELSE [q \in Questions |-> IF q = "env" THEN a ELSE b]
    /\ log = [q \in Questions |-> <<>>] /\ document = log /\ seen = log
    /\ answers = [q \in Questions |-> Absent] /\ recExit = "none"

\* External: the environment changes between two questions.
OutsideChanges ==
    /\ recPc = "recording" /\ Len(log[kind]) < MaxAsked
    /\ \E a \in LiveAnswers[kind] : outside' = [outside EXCEPT ![kind] = a]
    /\ UNCHANGED <<recPc, kind, log, document, answers, seen, recExit>>

\* answer, recording: the run goes on with the answer as it is decoded.
RecordAnswer(q) == RoundTrip(q, outside[q])

AskRecorded(q) ==
    /\ recPc = "recording" /\ Len(log[q]) < MaxAsked
    /\ log' = [log EXCEPT ![q] = Append(@, RecordAnswer(q))]
    /\ UNCHANGED <<recPc, kind, outside, document, answers, seen, recExit>>

-----------------------------------------------------------------------------
Same(s) == \A i, j \in DOMAIN s : s[i] = s[j]

\* External: group_inputs of lab/run.py writes one input for each question.
Grouped(as) ==
    IF as = <<>> THEN <<>>
    ELSE IF Same(as) THEN <<[list |-> FALSE, responses |-> <<as[1]>>]>>
    ELSE <<[list |-> TRUE, responses |-> as]>>

\* A recording can also hold one input for each answer.
Ungrouped(as) == [i \in DOMAIN as |-> [list |-> FALSE, responses |-> <<as[i]>>]]

OpenMode ==
    /\ recPc = "recording" /\ recPc' = "loading"
    /\ document' \in {[q \in Questions |-> Grouped(log[q])], [q \in Questions |-> Ungrouped(log[q])]}
    /\ UNCHANGED <<kind, outside, log, answers, seen, recExit>>

\* Mutant of Loaded: a further input for a question replaces the first.
LastEntry(existing, input) ==
    IF ~input.list /\ existing.is = "absent" THEN Fixed(input.responses) ELSE Ordered(input.responses)

Loaded(existing, input) ==
    IF ~input.list /\ existing.is = "absent" THEN Fixed(input.responses)
    ELSE Ordered(existing.queue \o input.responses)

\* load_replay: one input after the other; those of different questions do not
\* bear on each other, so that their order is left open.
LoadReplay(q) ==
    /\ recPc = "loading" /\ document[q] # <<>>
    /\ answers' = [answers EXCEPT ![q] = Loaded(@, Head(document[q]))]
    /\ document' = [document EXCEPT ![q] = Tail(@)]
    /\ UNCHANGED <<recPc, kind, outside, log, seen, recExit>>

ReplayLoaded ==
    /\ recPc = "loading" /\ \A q \in Questions : document[q] = <<>>
    /\ recPc' = "replaying"
    /\ UNCHANGED <<kind, outside, log, document, answers, seen, recExit>>

\* answer, replaying. The replay is of any program: it asks what it likes.
Serves(q) ==
    LET known == answers[q] IN
    /\ seen' = [seen EXCEPT ![q] = Append(@, Head(known.queue))]
    /\ answers' = [answers EXCEPT ![q] =
          IF known.is = "fixed" THEN [known EXCEPT !.asked = TRUE]
          ELSE [known EXCEPT !.queue = Tail(@)]]

Lacks(q) == answers[q].queue = <<>>

AskReplayed(q) ==
    /\ recPc = "replaying" /\ Len(seen[q]) < MaxReplayed
    /\ IF Lacks(q)
       THEN /\ recPc' = "ended" /\ recExit' = "unrecorded" /\ UNCHANGED answers
            /\ seen' = [seen EXCEPT ![q] = Append(@, "unrecorded")]
       ELSE Serves(q) /\ UNCHANGED <<recPc, recExit>>
    /\ UNCHANGED <<kind, outside, log, document>>

\* finish, with and without WHYKEY_REPLAY_STRICT.
Unused == {q \in Questions :
             IF answers[q].is = "fixed" THEN ~answers[q].asked ELSE answers[q].queue # <<>>}

Finish(strict) ==
    /\ recPc = "replaying" /\ recPc' = "ended"
    /\ recExit' = CASE Unused = {} -> "code"
                    [] strict -> "unconsumed"
                    [] OTHER -> "code, warned"
    /\ UNCHANGED <<kind, outside, log, document, answers, seen>>

RecNext ==
    \/ OutsideChanges \/ OpenMode \/ ReplayLoaded
    \/ \E q \in Questions : AskRecorded(q) \/ LoadReplay(q) \/ AskReplayed(q)
    \/ \E strict \in BOOLEAN : Finish(strict)

RecSpec == RecInit /\ [][RecNext]_recVars

-----------------------------------------------------------------------------
\* The kth time a replay asks a question it gets what the recorded run got
\* the kth time, and more often only when that run got one and the same
\* answer every time; a replay ends for want of an answer only when the
\* recorded run did not get that many, and it ends with its own status and no
\* warning only when it asked for all of them, or for an answer that never
\* changed at least once: whatever the program does in between, and whichever
\* way the recording was stored (answer, load_replay, finish).
ReplayIsTheRun ==
    \A q \in Questions :
       LET was == log[q]
           is == seen[q] IN
       /\ \A i \in DOMAIN is :
             \/ i \in DOMAIN was /\ is[i] = was[i]
             \/ i > Len(was) /\ is[i] = "unrecorded"
             \/ i > Len(was) /\ was # <<>> /\ Same(was) /\ is[i] = was[1]
       /\ recExit = "code" => \/ Len(is) >= Len(was)
                              \/ is # <<>> /\ Same(was)

=============================================================================
