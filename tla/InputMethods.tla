----------------------------- MODULE InputMethods -----------------------------
(***************************************************************************)
(* What whykey says of input methods (ime.rs): IBus and Fcitx5 are         *)
(* detected by the environment and by their processes, then each is asked  *)
(* with separate commands while the user switches engines. A daemon that   *)
(* cannot be asked is no evidence that it leaves keys alone.               *)
(***************************************************************************)
EXTENDS Integers, FiniteSets

CONSTANT MaxSwitches \* bound: what changes during an inspection

ASSUME InputMethodsAssumption == MaxSwitches \in Nat

VARIABLES
    method,    \* what each daemon does with keys; "off": it does not run
    remote,    \* whykey runs at the far end of an SSH connection
    detected,  \* the daemons whykey asks, once it has looked
    heard,     \* what each of them has answered
    imePc,     \* "detect", "ask", "done"
    switches,  \* changes so far
    composed   \* whether a key would have been transformed, at every moment

imeVars == <<method, remote, detected, heard, imePc, switches, composed>>

\* "closed": no focused context. "inactive": the first, plain engine of the
\* group. Fcitx5 and IBus can also be active with a mere keyboard layout.
FcitxStates == {"off", "closed", "inactive", "active keyboard", "active engine"}
IbusStates == {"off", "no engine", "active keyboard", "active engine"}
StatesOf == [fcitx5 |-> FcitxStates, ibus |-> IbusStates]
ImeNames == {"fcitx5", "ibus"}

\* External: whether a daemon would turn the key into something else.
TransformsNow == ~remote /\ \E d \in ImeNames : method[d] = "active engine"

-----------------------------------------------------------------------------
(* What the commands answer. RuntimeQuery: the engine, Fcitx5's state,     *)
(* "no engine" of IBus, and an error.                                      *)
Unheard == [name |-> "unasked", state |-> "unasked", error |-> FALSE, noEngine |-> FALSE]
Heard(name, state, error, noEngine) == [name |-> name, state |-> state, error |-> error, noEngine |-> noEngine]

CurrentName(s) ==
    CASE s = "active engine" -> "engine" [] s \in {"inactive", "active keyboard"} -> "keyboard" [] OTHER -> "none"

\* fcitx5_state.
StateCode(s) == CASE s = "closed" -> "closed" [] s = "inactive" -> "inactive" [] OTHER -> "active"

\* Mutant of runtime_mode: a daemon that did not answer forwards keys.
SilentForwards(r) ==
    IF r.state = "active" \/ (r.name = "engine" /\ r.state = "none" /\ ~r.error) THEN "transforming" ELSE "forwarding"

\* What a daemon does with keys; a state that forwards them outweighs its engine.
runtime_mode(r) ==
    CASE r.noEngine -> "forwarding"
      [] r.state \in {"inactive", "closed"} -> "forwarding"
      [] r.name = "keyboard" -> "forwarding"
      [] r.name = "engine" /\ r.state # "active" /\ r.error -> "unknown"
      [] r.name = "engine" -> "transforming"
      [] r.state = "active" -> "transforming"
      [] OTHER -> "unknown"

\* inspect_with_detections.
ImeVerdict ==
    IF \A d \in detected : runtime_mode(heard[d]) = "forwarding" THEN "pass" ELSE "unsure"

-----------------------------------------------------------------------------
ImeInit ==
    /\ method \in [fcitx5 : FcitxStates, ibus : IbusStates]
    /\ remote \in BOOLEAN /\ detected = {} /\ imePc = "detect"
    /\ heard = [d \in ImeNames |-> Unheard]
    /\ switches = 0 /\ composed = {TransformsNow}

\* External: the user switches the engine or the focus, a daemon comes or goes.
Switch ==
    /\ switches < MaxSwitches /\ switches' = switches + 1
    /\ \E d \in ImeNames, s \in FcitxStates \union IbusStates :
          s \in StatesOf[d] /\ s # method[d] /\ method' = [method EXCEPT ![d] = s]
    /\ UNCHANGED <<remote, detected, heard, imePc>>
    /\ composed' = composed \union {TransformsNow'}

Unmoved == UNCHANGED <<method, remote, switches, composed>>

\* detect_with_snapshot: processes that run, and daemons the environment names
\* whether they run or not; nothing over SSH.
DetectMethods ==
    /\ imePc = "detect" /\ Unmoved /\ UNCHANGED heard
    /\ \E named \in SUBSET ImeNames :
          detected' = IF remote THEN {} ELSE named \union {d \in ImeNames : method[d] # "off"}
    /\ imePc' = "ask"

FcitxIsAsked == "fcitx5" \in detected => heard["fcitx5"].state # "unasked"

\* query_ibus, after Fcitx5.
AskIbus ==
    /\ imePc = "ask" /\ "ibus" \in detected /\ FcitxIsAsked /\ heard["ibus"] = Unheard /\ Unmoved /\ UNCHANGED <<detected, imePc>>
    /\ \/ /\ method["ibus"] # "off"
          /\ heard' = [heard EXCEPT !["ibus"] = Heard(CurrentName(method["ibus"]), "none", FALSE, method["ibus"] = "no engine")]
       \/ heard' = [heard EXCEPT !["ibus"] = Heard("none", "none", TRUE, FALSE)]

\* fcitx5_service_available and CurrentInputMethod.
AskFcitxEngine ==
    /\ imePc = "ask" /\ "fcitx5" \in detected /\ heard["fcitx5"] = Unheard /\ Unmoved /\ UNCHANGED <<detected, imePc>>
    /\ \/ /\ method["fcitx5"] # "off"
          /\ heard' = [heard EXCEPT !["fcitx5"] = Heard(CurrentName(method["fcitx5"]), "unasked", FALSE, FALSE)]
       \/ heard' = [heard EXCEPT !["fcitx5"] = Heard("none", "none", TRUE, FALSE)]

\* State, after the engine.
AskFcitxState ==
    /\ imePc = "ask" /\ heard["fcitx5"] # Unheard /\ heard["fcitx5"].state = "unasked"
    /\ Unmoved /\ UNCHANGED <<detected, imePc>>
    /\ \/ method["fcitx5"] # "off" /\ heard' = [heard EXCEPT !["fcitx5"].state = StateCode(method["fcitx5"])]
       \/ heard' = [heard EXCEPT !["fcitx5"] = [@ EXCEPT !.state = "none", !.error = TRUE]]

FinishIme ==
    /\ imePc = "ask" /\ \A d \in detected : heard[d].state # "unasked"
    /\ imePc' = "done" /\ Unmoved /\ UNCHANGED <<detected, heard>>

ImeNext == Switch \/ DetectMethods \/ AskIbus \/ AskFcitxEngine \/ AskFcitxState \/ FinishIme

ImeSpec == ImeInit /\ [][ImeNext]_imeVars

-----------------------------------------------------------------------------
\* "keys pass through unchanged" was so at some moment of the inspection.
ForwardingIsSound == imePc = "done" /\ ImeVerdict = "pass" => FALSE \in composed
=============================================================================
