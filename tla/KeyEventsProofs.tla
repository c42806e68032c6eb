--------------------------- MODULE KeyEventsProofs ---------------------------
(***************************************************************************)
(* What the session believes of the keyboards, for any number of           *)
(* keyboards, keys, attachments and arms.                                  *)
(*                                                                         *)
(* Everything is a relation between the keyboards as they are and the      *)
(* lines the session has not read: `Unread`, the buffer and then the       *)
(* socket.  Every action takes some first lines of it (`Takes`), or adds   *)
(* one (`Grows`); the invariant has one part per question that the unread  *)
(* lines answer:                                                           *)
(*   ArmedOnce   - where arm will stop reading;                            *)
(*   HeldInv     - held_keys, corrected by the unread lines, are the keys  *)
(*                 that are down, or were left behind when the hook went;  *)
(*   MaskInv     - so is the mask for the modifiers that are down;         *)
(*   SourceInv   - a keyboard the session may know is announced before     *)
(*                 each of its unread keys, or is the source until then.   *)
(***************************************************************************)
EXTENDS KeyEvents, FiniteSetTheorems, SequenceTheorems, TLAPS

-----------------------------------------------------------------------------
(* Sequences.                                                              *)

(* A nonempty set of naturals has a least element.                         *)
LEMMA LeastNatural ==
    ASSUME NEW I \in SUBSET Nat, I # {}
    PROVE  \E x \in I : \A y \in I : x <= y
<1> DEFINE T == {0 .. n : n \in I}
<1>1. T \subseteq FiniteSubsetsOf(Nat) /\ T # {}
  <2>1. \A n \in I : 0 .. n \in SUBSET Nat /\ IsFiniteSet(0 .. n)
    BY FS_Interval
  <2> QED BY <2>1 DEF FiniteSubsetsOf
<1>2. PICK X \in T : \A Y \in T : ~ (<<Y, X>> \in StrictSubsetOrdering(Nat))
  BY <1>1, FS_StrictSubsetOrderingWellFounded, WFMin
<1>3. PICK x \in I : X = 0 .. x
  BY <1>2
<1>4. ASSUME NEW y \in I PROVE x <= y
  <2>1. ~ (<<0 .. y, 0 .. x>> \in StrictSubsetOrdering(Nat))
    BY <1>2, <1>3
  <2>2. ~ (0 .. y \subseteq 0 .. x /\ 0 .. y # 0 .. x)
    BY <2>1 DEF StrictSubsetOrdering
  <2>3. ASSUME y < x PROVE FALSE
    <3>1. 0 .. y \subseteq 0 .. x
      BY <2>3
    <3>2. x \in 0 .. x /\ x \notin 0 .. y
      BY <2>3
    <3> QED BY <2>2, <3>1, <3>2
  <2> QED BY <2>3
<1> QED BY <1>4

(* Where arm stops reading: at the first "armed" line, if there is one.    *)
ArmedAt(lines) == SelectInSeq(lines, LAMBDA line : line.kind = "armed")

LEMMA ArmedAtIsPlace ==
    ASSUME NEW q \in Seq(Lines)
    PROVE  /\ ArmedAt(q) \in 0 .. Len(q)
           /\ \A e \in 1 .. Len(q) : q[e].kind = "armed" =>
                  ArmedAt(q) > 0 /\ q[ArmedAt(q)].kind = "armed"
<1> DEFINE I == {i \in 1 .. Len(q) : q[i].kind = "armed"}
<1>1. ArmedAt(q) = IF I # {} THEN Min(I) ELSE 0
  BY DEF ArmedAt, SelectInSeq
<1>2. Len(q) \in Nat /\ I \in SUBSET Nat /\ I \subseteq 1 .. Len(q)
  OBVIOUS
<1>3. ASSUME I # {} PROVE Min(I) \in I
  <2> HIDE DEF I
  <2>1. \E x \in I : \A y \in I : x <= y
    BY <1>2, <1>3, LeastNatural
  <2> QED BY <2>1 DEF Min
<1>4. CASE I = {}
  <2>1. ArmedAt(q) = 0
    BY <1>1, <1>4
  <2>2. \A e \in 1 .. Len(q) : ~ (q[e].kind = "armed")
    BY <1>4
  <2> QED BY <1>2, <2>1, <2>2
<1>5. CASE I # {}
  <2>1. ArmedAt(q) \in I
    BY <1>1, <1>3, <1>5
  <2>2. ArmedAt(q) \in 1 .. Len(q) /\ q[ArmedAt(q)].kind = "armed"
    BY <2>1
  <2> QED BY <1>2, <2>2
<1> QED BY <1>4, <1>5

-----------------------------------------------------------------------------
(* Lines and the modifiers they speak of.                                  *)
LEMMA KeyLineTyped ==
    ASSUME NEW line \in Lines, IsKey(line)
    PROVE  /\ line.code \in Codes /\ line.from \in Keyboards
           /\ line.mask \in SUBSET Modifiers /\ line.kind \in {"press", "release"}
BY DEF Lines, IsKey

(* Only virtual keyboards are announced.                                   *)
LEMMA LayoutLineTyped ==
    ASSUME NEW line \in Lines, line.kind = "activelayout"
    PROVE  line.from \in Virtuals
BY DEF Lines

(* Both readings of a modifier key are modifiers.                          *)
LEMMA ModifierTyped ==
    ASSUME NEW code, IsModifier(code)
    PROVE  HookModifier[code] \in Modifiers /\ OwnModifier[code] \in Modifiers
BY DEF IsModifier, HookModifier, OwnModifier, Modifiers

(* What the hook sends as the mask is a set of modifiers.                  *)
LEMMA ModifiersDownTyped == ModifiersDown \in SUBSET Modifiers
BY ModifierTyped DEF ModifiersDown

(* What held_modifiers_after computes is a set of modifiers.               *)
LEMMA HeldModifiersTyped ==
    ASSUME NEW line \in Lines, IsKey(line)
    PROVE  HeldModifiersAfter(line) \in SUBSET Modifiers
BY KeyLineTyped, ModifierTyped DEF HeldModifiersAfter

-----------------------------------------------------------------------------
(* The type of the session's state.                                        *)
LEMMA EmitsTyped ==
    ASSUME TypeOK, NEW line \in Lines, Emits(line)
    PROVE  stream' \in Seq(Lines)
BY DEF TypeOK, Emits

(* What the hook sends for a key is a line.                                *)
LEMMA KeyEmitsTyped ==
    ASSUME TypeOK, NEW kind \in {"press", "release"}, NEW k \in Keys, KeyEmits(kind, k)
    PROVE  stream' \in Seq(Lines)
<1>1. k[1] \in Keyboards /\ k[2] \in Codes
  BY KeyAssumption DEF Keys, Keyboards
<1>2. [kind |-> kind, code |-> k[2], from |-> k[1], mask |-> ModifiersDown] \in Lines
  BY <1>1, ModifiersDownTyped DEF Lines
<1>3. CASE hook
  BY <1>2, <1>3, EmitsTyped DEF KeyEmits
<1>4. CASE ~hook
  BY <1>4 DEF KeyEmits, TypeOK
<1> QED BY <1>3, <1>4

(* The keyboards keep the types.                                           *)
LEMMA WorldTyped == TypeOK /\ World => TypeOK'
<1> SUFFICES ASSUME TypeOK, World PROVE TypeOK'
  OBVIOUS
<1>1. MaxEvents \in Nat
  BY KeyAssumption
<1>2. ASSUME NEW k \in Keys, Press(k) PROVE TypeOK'
  <2>1. stream' \in Seq(Lines)
    BY <1>2, KeyEmitsTyped DEF Press
  <2>2. k[1] \in Keyboards
    BY DEF Keys, Keyboards
  <2>3. events' \in 0 .. MaxEvents
    BY <1>1, <1>2 DEF Press, Happens, TypeOK
  <2> QED BY <1>2, <2>1, <2>2, <2>3 DEF World, Press, TypeOK, heldVars
<1>3. ASSUME NEW k \in Keys, Release(k) PROVE TypeOK'
  <2>1. stream' \in Seq(Lines)
    BY <1>3, KeyEmitsTyped DEF Release
  <2> QED BY <1>3, <2>1 DEF World, Release, TypeOK, heldVars
<1>4. ASSUME NEW v \in Virtuals, Attach(v) PROVE TypeOK'
  <2>1. [kind |-> "activelayout", from |-> v] \in Lines
    BY DEF Lines
  <2>2. stream' \in Seq(Lines)
    BY <1>4, <2>1, EmitsTyped DEF Attach
  <2>3. events' \in 0 .. MaxEvents
    BY <1>1, <1>4 DEF Attach, Happens, TypeOK
  <2> QED BY <1>4, <2>2, <2>3 DEF World, Attach, TypeOK, heldVars
<1>5. ASSUME NEW v \in Virtuals, Detach(v) PROVE TypeOK'
  BY <1>5 DEF World, Detach, TypeOK, heldVars, Keyboards
<1> QED BY <1>2, <1>3, <1>4, <1>5 DEF World

\* What the source may be.
Sources == [name : Virtuals, queued : Nat \cup {NotDetached}] \cup {NoSource}

(* KeyboardSources stays a source: settle and on_inventory.                *)
LEMMA SourcesTyped ==
    ASSUME NEW src \in Sources,
           NEW n \in Nat, lastUsed \in Keyboards
    PROVE  /\ Settled(src) \in Sources
           /\ OnInventory(src, n) \in Sources
<1>1. MainIfForeign \in Sources
  BY DEF MainIfForeign, SourceOf, Sources
<1>2. HasLeft(src) => [src EXCEPT !.queued = n] \in [name : Virtuals, queued : Nat \cup {NotDetached}]
  BY DEF HasLeft, NoSource, Sources
<1> QED BY <1>1, <1>2 DEF Settled, OnInventory, Sources

(* KeyboardSources stays a source: consumed.                               *)
LEMMA ConsumedTyped ==
    TypeOK => Consumed \in Sources
<1> SUFFICES ASSUME TypeOK
             PROVE  Consumed \in Sources
  OBVIOUS
<1>1. CASE source = NoSource
  BY <1>1 DEF Consumed, NoSource, NotDetached, Sources
<1>2. CASE source \in [name : Virtuals, queued : Nat \cup {NotDetached}]
  BY <1>2 DEF Consumed, NotDetached, Sources
<1> QED BY <1>1, <1>2 DEF TypeOK

(* What the session has not read, and what its head and its tail are.      *)
Unread == buffer \o stream
Places == 1 .. Len(Unread)

(* What is unread is lines.                                                *)
LEMMA UnreadTyped == TypeOK => Unread \in Seq(Lines) /\ Len(Unread) \in Nat
BY DEF TypeOK, Unread

(* The next line of the buffer is the first unread one.                    *)
LEMMA TailOfUnread ==
    ASSUME TypeOK, buffer # <<>>
    PROVE  /\ Head(buffer) \in Lines /\ Head(buffer) = Unread[1]
           /\ Tail(buffer) \in Seq(Lines) /\ Tail(buffer) \o stream \in Seq(Lines)
           /\ Len(Unread) > 0
           /\ Len(Tail(buffer) \o stream) = Len(Unread) - 1
           /\ \A i \in 1 .. Len(Unread) - 1 : (Tail(buffer) \o stream)[i] = Unread[i + 1]
<1>1. buffer \in Seq(Lines) /\ stream \in Seq(Lines) /\ Len(buffer) > 0
  BY DEF TypeOK
<1>2. /\ Head(buffer) = buffer[1] /\ Head(buffer) \in Lines
      /\ Tail(buffer) \in Seq(Lines) /\ Len(Tail(buffer)) = Len(buffer) - 1
      /\ \A i \in 1 .. Len(buffer) - 1 : Tail(buffer)[i] = buffer[i + 1]
  BY <1>1, HeadTailProperties
<1>3. /\ Len(Unread) = Len(buffer) + Len(stream)
      /\ \A i \in 1 .. Len(Unread) :
             Unread[i] = IF i <= Len(buffer) THEN buffer[i] ELSE stream[i - Len(buffer)]
  BY <1>1, ConcatProperties DEF Unread
<1>4. /\ Tail(buffer) \o stream \in Seq(Lines)
      /\ Len(Tail(buffer) \o stream) = Len(buffer) - 1 + Len(stream)
      /\ \A i \in 1 .. Len(buffer) - 1 + Len(stream) :
             (Tail(buffer) \o stream)[i] =
                 IF i <= Len(buffer) - 1 THEN Tail(buffer)[i]
                 ELSE stream[i - (Len(buffer) - 1)]
  BY <1>1, <1>2, ConcatProperties
<1>5. Head(buffer) = Unread[1] /\ Len(Unread) > 0
  BY <1>1, <1>2, <1>3
<1>6. ASSUME NEW i \in 1 .. Len(Unread) - 1
      PROVE  (Tail(buffer) \o stream)[i] = Unread[i + 1]
  <2>1. CASE i <= Len(buffer) - 1
    <3>1. i \in 1 .. Len(buffer) - 1 /\ i + 1 <= Len(buffer)
      BY <1>1, <2>1
    <3>2. i \in 1 .. Len(buffer) - 1 + Len(stream) /\ i + 1 \in 1 .. Len(Unread)
      BY <1>1, <1>3, <3>1
    <3>3. (Tail(buffer) \o stream)[i] = buffer[i + 1]
      BY <1>2, <1>4, <2>1, <3>1, <3>2
    <3>4. Unread[i + 1] = buffer[i + 1]
      BY <1>3, <3>1, <3>2
    <3> QED BY <3>3, <3>4
  <2>2. CASE i > Len(buffer) - 1
    <3>1. i \in 1 .. Len(buffer) - 1 + Len(stream) /\ i + 1 \in 1 .. Len(Unread)
      BY <1>1, <1>3
    <3>2. (Tail(buffer) \o stream)[i] = stream[i - (Len(buffer) - 1)]
      BY <1>4, <2>2, <3>1
    <3>3. Unread[i + 1] = stream[i + 1 - Len(buffer)]
      BY <1>1, <1>3, <2>2, <3>1
    <3>4. i - (Len(buffer) - 1) = i + 1 - Len(buffer)
      BY <1>1
    <3> QED BY <3>2, <3>3, <3>4
  <2>3. i <= Len(buffer) - 1 \/ i > Len(buffer) - 1
    BY <1>1, <1>3
  <2> QED BY <2>1, <2>2, <2>3
<1> QED BY <1>1, <1>2, <1>3, <1>4, <1>5, <1>6

(* A line that is sent is the last unread one.                             *)
LEMMA UnreadGrows ==
    ASSUME TypeOK, NEW line \in Lines, Emits(line), UNCHANGED buffer
    PROVE  /\ Unread' = Append(Unread, line)
           /\ Len(Unread') = Len(Unread) + 1
           /\ \A i \in Places : Unread'[i] = Unread[i]
           /\ Unread'[Len(Unread) + 1] = line
<1>1. buffer \in Seq(Lines) /\ stream \in Seq(Lines)
  BY DEF TypeOK
<1>2. buffer \o Append(stream, line) = Append(buffer \o stream, line)
  BY <1>1
<1>3. Unread' = Append(Unread, line)
  BY <1>2 DEF Unread, Emits
<1> QED BY <1>3, UnreadTyped, AppendProperties DEF Places

(* Decoding a key keeps the types.                                         *)
LEMMA DecodesTyped ==
    ASSUME TypeOK, buffer # <<>>, NEW line, NEW answered \in BOOLEAN, Decodes(line, answered)
    PROVE  /\ misread' \in SUBSET BOOLEAN
           /\ source' \in Sources
           /\ buffer' \in Seq(Lines) /\ stream' \in Seq(Lines)
<1>1. misread' \in SUBSET BOOLEAN
  BY DEF Decodes, TypeOK
<1>2. source' \in Sources
  <2>1. Consumed \in Sources /\ lastUsed \in Keyboards
    BY ConsumedTyped DEF TypeOK, Sources
  <2>2. Len(Tail(buffer) \o stream) \in Nat
    BY TailOfUnread, UnreadTyped
  <2>3. OnInventory(Consumed, Len(Tail(buffer) \o stream)) \in Sources
    BY <2>1, <2>2, SourcesTyped
  <2>4. PICK src \in Sources : source' = Settled(src)
    BY <2>1, <2>3 DEF Decodes
  <2> QED BY <2>1, <2>4, SourcesTyped
<1>3. buffer' \in Seq(Lines) /\ stream' \in Seq(Lines)
  BY TailOfUnread DEF Decodes, TypeOK
<1> QED BY <1>1, <1>2, <1>3

(* Tracking a key keeps the types.                                         *)
LEMMA TracksTyped ==
    ASSUME TypeOK, NEW line \in Lines, IsKey(line), TracksKey(line)
    PROVE  mask' \in SUBSET Modifiers /\ held' \in SUBSET Codes
BY HeldModifiersTyped, KeyLineTyped DEF TracksKey, TypeOK

(* Taking an announcement keeps the types.                                 *)
LEMMA NoticedTyped ==
    ASSUME TypeOK, NEW line \in Lines, line.kind = "activelayout", Noticed(line)
    PROVE  source' \in Sources /\ dirty' = TRUE /\ forgotten' \in SUBSET Virtuals
<1>1. line.from \in Virtuals
  BY LayoutLineTyped
<1> QED BY <1>1 DEF Noticed, TypeOK, Sources, SourceOf

(* arm keeps the types.                                                    *)
LEMMA ArmedTyped == TypeOK /\ Armed => TypeOK'
<1> SUFFICES ASSUME TypeOK, Armed PROVE TypeOK'
  OBVIOUS
<1>1. Unread \in Seq(Lines) /\ Len(Unread) \in Nat /\ ArmedAt(Unread) \in 0 .. Len(Unread)
  BY UnreadTyped, ArmedAtIsPlace
<1>2. buffer' = SubSeq(Unread, ArmedAt(Unread) + 1, Len(Unread))
  BY DEF Armed, Unread, ArmedAt
<1>3. buffer' \in Seq(Lines)
  <2>1. \A i \in ArmedAt(Unread) + 1 .. Len(Unread) : Unread[i] \in Lines
    BY <1>1
  <2> QED BY <1>1, <1>2, <2>1, SubSeqProperties
<1>4. forgotten' \subseteq Virtuals
  BY DEF Armed, Announced, TypeOK
<1>5. stream' \in Seq(Lines)
  BY DEF Armed
<1>6. pc' = "listen" /\ UNCHANGED <<attached, lastUsed, down, events, hook, held, mask, main,
                                     dirty, source, misread, stranded, arms, queryFaults>>
  BY DEF Armed, worldVars, heldVars
<1> QED BY <1>3, <1>4, <1>5, <1>6 DEF TypeOK

(* The session keeps the types.                                            *)
LEMMA SessionTyped == TypeOK /\ Session => TypeOK'
<1> SUFFICES ASSUME TypeOK, Session PROVE TypeOK'
  OBVIOUS
<1> USE DEF worldVars, heldVars
<1>1. CASE Install
  <2>1. [kind |-> "armed"] \in Lines
    BY DEF Lines
  <2>2. stream' \in Seq(Lines)
    BY <1>1, <2>1, EmitsTyped DEF Install
  <2>3. arms' \in 0 .. MaxArms
    <3>1. MaxArms \in Nat
      BY KeyAssumption
    <3> QED BY <1>1, <3>1 DEF Install, TypeOK
  <2> QED BY <1>1, <2>2, <2>3 DEF Install, TypeOK
<1>2. CASE Armed
  BY <1>2, ArmedTyped
<1>3. CASE ReadIncoming
  BY <1>3 DEF ReadIncoming, TypeOK
<1>4. CASE TakeLayout
  <2>1. Head(buffer) \in Lines /\ Tail(buffer) \in Seq(Lines)
    BY <1>4, TailOfUnread DEF TakeLayout
  <2>2. source' \in Sources /\ dirty' = TRUE /\ forgotten' \in SUBSET Virtuals
    BY <1>4, <2>1, NoticedTyped DEF TakeLayout
  <2> QED BY <1>4, <2>1, <2>2 DEF TakeLayout, TypeOK, Sources
<1>5. CASE TakeKey
  <2> DEFINE line == Head(buffer)
  <2>1. line \in Lines /\ buffer # <<>> /\ IsKey(line) /\ line.code \in Codes
    BY <1>5, TailOfUnread, KeyLineTyped DEF TakeKey
  <2>2. mask' \in SUBSET Modifiers /\ held' \in SUBSET Codes
    BY <1>5, <2>1, TracksTyped DEF TakeKey
  <2>3. PICK answered \in BOOLEAN : Decodes(line, answered)
    BY <1>5 DEF TakeKey
  <2>4. /\ misread' \in SUBSET BOOLEAN /\ source' \in Sources
        /\ buffer' \in Seq(Lines) /\ stream' \in Seq(Lines)
    BY <2>1, <2>3, DecodesTyped
  <2>5. queryFaults' \in 0 .. MaxQueryFaults
    <3>1. MaxQueryFaults \in Nat
      BY KeyAssumption
    <3>2. UNCHANGED queryFaults \/ QueryFails
      BY <1>5 DEF TakeKey
    <3> QED BY <3>1, <3>2 DEF QueryFails, TypeOK
  <2>6. pc' \in {"listen", "chord"} /\ main' \in Codes \cup {"none"} /\ dirty' = FALSE
    BY <1>5, <2>1 DEF TakeKey, TypeOK
  <2>7. UNCHANGED <<attached, lastUsed, down, events, hook, forgotten, stranded, arms>>
    BY <1>5 DEF TakeKey
  <2> QED BY <2>2, <2>4, <2>5, <2>6, <2>7 DEF TypeOK, Sources
<1>6. CASE Drain
  <2> DEFINE line == Head(buffer)
  <2>1. line \in Lines /\ Tail(buffer) \in Seq(Lines)
    BY <1>6, TailOfUnread DEF Drain
  <2>2. /\ mask' \in SUBSET Modifiers /\ held' \in SUBSET Codes
        /\ source' \in Sources /\ dirty' \in BOOLEAN /\ forgotten' \in SUBSET Virtuals
    <3>1. CASE IsKey(line) /\ TracksKey(line) /\ source' = Consumed
               /\ UNCHANGED <<dirty, forgotten>>
      BY <2>1, <3>1, TracksTyped, ConsumedTyped DEF TypeOK, Sources
    <3>2. CASE line.kind = "activelayout" /\ Noticed(line) /\ UNCHANGED <<held, mask>>
      BY <2>1, <3>2, NoticedTyped DEF TypeOK
    <3> QED BY <1>6, <3>1, <3>2 DEF Drain
  <2>3. UNCHANGED <<attached, lastUsed, down, events, hook, stream, pc, main, misread,
                    stranded, arms, queryFaults>> /\ buffer' = Tail(buffer)
    BY <1>6 DEF Drain
  <2> QED BY <2>1, <2>2, <2>3 DEF TypeOK, Sources
<1>7. CASE Confirm \/ ChordTimesOut
  BY <1>7 DEF Confirm, ChordTimesOut, TypeOK
<1>8. CASE CloseToStop
  BY <1>8 DEF CloseToStop, TypeOK
<1> QED BY <1>1, <1>2, <1>3, <1>4, <1>5, <1>6, <1>7, <1>8 DEF Session

(* The types hold at connect.                                              *)
LEMMA InitTyped == Init => TypeOK
<1> SUFFICES ASSUME Init PROVE TypeOK
  OBVIOUS
<1>1. MaxEvents \in Nat /\ MaxArms \in Nat /\ MaxQueryFaults \in Nat
  BY KeyAssumption
<1>2. events \in 0 .. MaxEvents /\ arms \in 0 .. MaxArms /\ queryFaults \in 0 .. MaxQueryFaults
  BY <1>1 DEF Init
<1>3. attached \subseteq Virtuals /\ lastUsed \in Keyboards
  BY DEF Init, Keyboards
<1>4. source \in Sources
  BY DEF Init, Sources, MainIfForeign, SourceOf
<1>5. stream \in Seq(Lines) /\ buffer \in Seq(Lines)
  BY DEF Init
<1> QED BY <1>2, <1>3, <1>4, <1>5 DEF Init, TypeOK, Sources

(* Every step keeps the types.                                             *)
LEMMA StepTyped == TypeOK /\ [Next]_vars => TypeOK'
<1>1. UNCHANGED vars /\ TypeOK => TypeOK'
  BY DEF vars, worldVars, heldVars, TypeOK
<1> QED BY <1>1, WorldTyped, SessionTyped DEF Next

(* The types are an invariant.                                             *)
THEOREM EventsTyped == Spec => []TypeOK
BY InitTyped, StepTyped, PTL DEF Spec

-----------------------------------------------------------------------------
(* The two moves of what is unread: some first lines are taken (or none),  *)
(* or one line more is there.                                              *)
Takes(n) ==
    /\ n \in 0 .. Len(Unread)
    /\ Len(Unread)' = Len(Unread) - n
    /\ \A i \in Places' : i + n \in Places /\ Unread'[i] = Unread[i + n]

Grows(line) ==
    /\ Len(Unread)' = Len(Unread) + 1
    /\ \A i \in Places : Unread'[i] = Unread[i]
    /\ Unread'[Len(Unread) + 1] = line

(* Moving lines from the socket to the buffer takes none.                  *)
LEMMA SameTakesNone ==
    ASSUME TypeOK, Unread' = Unread
    PROVE  Takes(0)
<1>1. Len(Unread) \in Nat
  BY UnreadTyped
<1> QED BY <1>1 DEF Takes, Places

(* Sending a line adds one.                                                *)
LEMMA EmitsGrows ==
    ASSUME TypeOK, NEW line \in Lines, Emits(line), UNCHANGED buffer
    PROVE  Grows(line)
BY UnreadGrows DEF Grows

(* Taking the next line of the buffer takes one.                           *)
LEMMA TailTakesOne ==
    ASSUME TypeOK, buffer # <<>>, Unread' = Tail(buffer) \o stream
    PROVE  Takes(1)
<1>1. /\ Len(Unread) > 0 /\ Len(Unread) \in Nat
      /\ Len(Unread') = Len(Unread) - 1
      /\ \A i \in 1 .. Len(Unread) - 1 : Unread'[i] = Unread[i + 1]
  BY TailOfUnread, UnreadTyped
<1>2. ASSUME NEW i \in Places' PROVE i + 1 \in Places /\ Unread'[i] = Unread[i + 1]
  <2>1. i \in 1 .. Len(Unread) - 1
    BY <1>1 DEF Places
  <2>2. i + 1 \in Places
    BY <1>1, <2>1 DEF Places
  <2> QED BY <1>1, <2>1, <2>2
<1>3. 1 \in 0 .. Len(Unread) /\ Len(Unread)' = Len(Unread) - 1
  BY <1>1
<1> QED BY <1>2, <1>3 DEF Takes

(* arm takes the lines up to the first "armed".                            *)
LEMMA ArmedTakes ==
    ASSUME TypeOK, Armed
    PROVE  Takes(ArmedAt(Unread))
<1> DEFINE end == ArmedAt(Unread)
<1>1. Unread \in Seq(Lines) /\ Len(Unread) \in Nat /\ end \in 0 .. Len(Unread)
  BY UnreadTyped, ArmedAtIsPlace
<1>2. Unread' = SubSeq(Unread, end + 1, Len(Unread))
  <2>1. buffer' = SubSeq(Unread, end + 1, Len(Unread)) /\ stream' = <<>>
    BY DEF Armed, Unread, ArmedAt
  <2>2. \A i \in end + 1 .. Len(Unread) : Unread[i] \in Lines
    BY <1>1
  <2>3. SubSeq(Unread, end + 1, Len(Unread)) \in Seq(Lines)
    BY <1>1, <2>2, SubSeqProperties
  <2> QED BY <2>1, <2>3 DEF Unread
<1> HIDE DEF end
<1>3. \A i \in end + 1 .. Len(Unread) : Unread[i] \in Lines
  BY <1>1
<1>4. /\ Len(Unread') = IF end + 1 <= Len(Unread) THEN Len(Unread) - (end + 1) + 1 ELSE 0
      /\ \A i \in 1 .. Len(Unread) - (end + 1) + 1 : Unread'[i] = Unread[end + 1 + i - 1]
  BY <1>1, <1>2, <1>3, SubSeqProperties
<1>5. Len(Unread') = Len(Unread) - end
  BY <1>1, <1>4
<1>6. ASSUME NEW i \in Places' PROVE i + end \in Places /\ Unread'[i] = Unread[i + end]
  <2>1. i \in 1 .. Len(Unread) - end
    BY <1>5 DEF Places
  <2>2. i + end \in Places /\ i \in 1 .. Len(Unread) - (end + 1) + 1 /\ end + 1 + i - 1 = i + end
    BY <1>1, <2>1 DEF Places
  <2> QED BY <1>4, <2>2
<1>7. Takes(end)
  BY <1>1, <1>5, <1>6 DEF Takes
<1> QED BY <1>7 DEF end

(* Which move each action makes.                                           *)
LEMMA SessionMoves ==
    ASSUME TypeOK, Session
    PROVE  /\ Install => Grows([kind |-> "armed"])
           /\ Armed => Takes(ArmedAt(Unread))
           /\ ReadIncoming \/ Confirm \/ ChordTimesOut \/ CloseToStop => Takes(0)
           /\ TakeLayout \/ TakeKey \/ Drain => Takes(1)
<1>1. ASSUME Install PROVE Grows([kind |-> "armed"])
  <2>1. [kind |-> "armed"] \in Lines
    BY DEF Lines
  <2> QED BY <1>1, <2>1, EmitsGrows DEF Install
<1>2. Armed => Takes(ArmedAt(Unread))
  BY ArmedTakes
<1>3. ASSUME ReadIncoming PROVE Takes(0)
  <2>1. Unread' = Unread
    <3>1. buffer \o stream \in Seq(Lines)
      BY DEF TypeOK
    <3>2. (buffer \o stream) \o <<>> = buffer \o stream
      BY <3>1
    <3> QED BY <1>3, <3>2 DEF ReadIncoming, Unread
  <2> QED BY <2>1, SameTakesNone
<1>4. ASSUME Confirm \/ ChordTimesOut \/ CloseToStop PROVE Takes(0)
  <2>1. UNCHANGED <<buffer, stream>>
    BY <1>4 DEF Confirm, ChordTimesOut, CloseToStop
  <2> QED BY <2>1, SameTakesNone DEF Unread
<1>5. ASSUME TakeLayout \/ Drain PROVE Takes(1)
  <2>1. buffer # <<>> /\ buffer' = Tail(buffer) /\ stream' = stream
    BY <1>5 DEF TakeLayout, Drain
  <2> QED BY <2>1, TailTakesOne DEF Unread
<1>6. ASSUME TakeKey PROVE Takes(1)
  <2>1. PICK answered \in BOOLEAN : Decodes(Head(buffer), answered)
    BY <1>6 DEF TakeKey
  <2>2. buffer # <<>>
    BY <1>6 DEF TakeKey
  <2>3. Tail(buffer) \o stream \in Seq(Lines)
    BY <2>2, TailOfUnread
  <2>4. (Tail(buffer) \o stream) \o <<>> = Tail(buffer) \o stream
    BY <2>3
  <2>5. Unread' = Tail(buffer) \o stream
    <3>1. CASE answered /\ HasLeft(Consumed)
      BY <2>1, <2>4, <3>1 DEF Decodes, Unread
    <3>2. CASE ~(answered /\ HasLeft(Consumed))
      BY <2>1, <3>2 DEF Decodes, Unread
    <3> QED BY <3>1, <3>2
  <2> QED BY <2>2, <2>5, TailTakesOne
<1> QED BY <1>1, <1>2, <1>3, <1>4, <1>5, <1>6

(* The lines of the world: for which the hook may be gone.                 *)
KeyLine(kind, k) == [kind |-> kind, code |-> k[2], from |-> k[1], mask |-> ModifiersDown]

(* A key adds a line if the hook is installed.                             *)
LEMMA KeyMoves ==
    ASSUME TypeOK, NEW kind \in {"press", "release"}, NEW k \in Keys, KeyEmits(kind, k),
           UNCHANGED buffer
    PROVE  /\ KeyLine(kind, k) \in Lines /\ k[1] \in Keyboards /\ k[2] \in Codes
           /\ hook => Grows(KeyLine(kind, k))
           /\ ~hook => Takes(0)
<1>1. k[1] \in Keyboards /\ k[2] \in Codes
  BY KeyAssumption DEF Keys, Keyboards
<1>2. KeyLine(kind, k) \in Lines
  BY <1>1, ModifiersDownTyped DEF Lines, KeyLine
<1>3. ASSUME hook PROVE Grows(KeyLine(kind, k))
  BY <1>2, <1>3, EmitsGrows DEF KeyEmits, KeyLine
<1>4. ASSUME ~hook PROVE Takes(0)
  BY <1>4, SameTakesNone DEF KeyEmits, Unread
<1> QED BY <1>1, <1>2, <1>3, <1>4

(* A keyboard that is attached adds its announcement.                      *)
LEMMA AttachMoves ==
    ASSUME TypeOK, NEW v \in Virtuals, Attach(v), UNCHANGED buffer
    PROVE  Grows([kind |-> "activelayout", from |-> v])
<1>1. [kind |-> "activelayout", from |-> v] \in Lines
  BY DEF Lines
<1> QED BY <1>1, EmitsGrows DEF Attach

(* The keyboards never send "armed".                                       *)
LEMMA WorldMoves ==
    ASSUME TypeOK, World
    PROVE  Takes(0) \/ \E line \in Lines : line.kind # "armed" /\ Grows(line)
<1>1. UNCHANGED buffer
  BY DEF World
<1>2. ASSUME NEW k \in Keys, Press(k)
      PROVE  Takes(0) \/ \E line \in Lines : line.kind # "armed" /\ Grows(line)
  BY <1>1, <1>2, KeyMoves DEF Press, KeyLine
<1>3. ASSUME NEW k \in Keys, Release(k)
      PROVE  Takes(0) \/ \E line \in Lines : line.kind # "armed" /\ Grows(line)
  BY <1>1, <1>3, KeyMoves DEF Release, KeyLine
<1>4. ASSUME NEW v \in Virtuals, Attach(v)
      PROVE  Takes(0) \/ \E line \in Lines : line.kind # "armed" /\ Grows(line)
  <2>1. [kind |-> "activelayout", from |-> v] \in Lines
    BY DEF Lines
  <2> QED BY <1>1, <1>4, <2>1, AttachMoves
<1>5. ASSUME NEW v \in Virtuals, Detach(v) PROVE Takes(0)
  BY <1>1, <1>5, SameTakesNone DEF Detach, Unread
<1> QED BY <1>2, <1>3, <1>4, <1>5 DEF World

-----------------------------------------------------------------------------
(* The invariant, in four parts.                                           *)
IsArmed(i) == Unread[i].kind = "armed"
Announces(v, i) == Unread[i].kind = "activelayout" /\ Unread[i].from = v

\* The hook's "armed" is unread from the installation until arm reads it.
ArmedOnce ==
    /\ hook <=> pc \in {"arming", "listen", "chord"}
    /\ pc = "arming" => \E e \in Places : IsArmed(e)
    /\ pc # "arming" => \A e \in Places : ~IsArmed(e)
    /\ \A e, f \in Places : IsArmed(e) /\ IsArmed(f) => e = f

(* ArmedOnce is kept.                                                      *)
LEMMA ArmedOnceKept ==
    ASSUME TypeOK, ArmedOnce, [Next]_vars
    PROVE  ArmedOnce'
<1>0. PICK n \in Nat : n = Len(Unread)
  BY UnreadTyped
<1>1. ASSUME Takes(0), UNCHANGED <<hook, pc>> PROVE ArmedOnce'
  <2>1. \A i \in Places : i + 0 = i
    BY <1>0 DEF Places
  <2>2. Len(Unread)' = Len(Unread) - 0 /\ Len(Unread) - 0 = Len(Unread)
    BY <1>0, <1>1 DEF Takes
  <2>3. Places' = Places
    BY <2>2 DEF Places
  <2>4. \A i \in Places : Unread'[i] = Unread[i]
    BY <1>1, <2>1, <2>3 DEF Takes
  <2> QED BY <1>1, <2>3, <2>4 DEF ArmedOnce, IsArmed
<1>2. ASSUME NEW m \in Nat, Takes(m), pc # "arming" PROVE \A e \in Places' : ~IsArmed(e)'
  BY <1>2 DEF Takes, ArmedOnce, IsArmed
<1>3. ASSUME NEW line, Grows(line)
      PROVE  /\ Places' = Places \cup {n + 1} /\ n + 1 \notin Places
             /\ \A i \in Places : Unread'[i] = Unread[i]
             /\ Unread'[n + 1] = line
  BY <1>0, <1>3 DEF Grows, Places
<1>4. CASE World
  <2>1. UNCHANGED <<hook, pc>>
    BY <1>4 DEF World
  <2>2. CASE Takes(0)
    BY <1>1, <2>1, <2>2
  <2>3. ASSUME NEW line \in Lines, line.kind # "armed", Grows(line) PROVE ArmedOnce'
    <3>1. ~IsArmed(n + 1)' /\ \A e \in Places : IsArmed(e)' <=> IsArmed(e)
      BY <1>3, <2>3 DEF IsArmed
    <3> QED BY <1>3, <2>1, <2>3, <3>1 DEF ArmedOnce
  <2> QED BY <1>4, <2>2, <2>3, WorldMoves
<1>5. CASE Install
  <2>1. pc = "closed" /\ pc' = "arming" /\ hook' = TRUE
    BY <1>5 DEF Install
  <2>2. Grows([kind |-> "armed"])
    BY <1>5, SessionMoves DEF Session
  <2>3. IsArmed(n + 1)' /\ \A e \in Places : ~IsArmed(e)'
    BY <1>3, <2>1, <2>2 DEF IsArmed, ArmedOnce
  <2> QED BY <1>3, <2>1, <2>2, <2>3 DEF ArmedOnce
<1>6. CASE Armed
  <2> DEFINE end == ArmedAt(Unread)
  <2>1. pc = "arming" /\ pc' = "listen" /\ UNCHANGED hook /\ Takes(end)
    BY <1>6, ArmedTakes DEF Armed
  <2>2. Unread \in Seq(Lines)
    BY UnreadTyped
  <2>3. end \in Places /\ IsArmed(end)
    BY <2>1, <2>2, ArmedAtIsPlace DEF ArmedOnce, IsArmed, Places
  <2> HIDE DEF end
  <2>4. ASSUME NEW i \in Places' PROVE ~IsArmed(i)'
    <3>1. i + end \in Places /\ Unread'[i] = Unread[i + end] /\ i + end # end
      BY <2>1, <2>3 DEF Takes, Places
    <3> QED BY <2>3, <3>1 DEF ArmedOnce, IsArmed
  <2> QED BY <2>1, <2>4 DEF ArmedOnce
<1>7. CASE ReadIncoming
  BY <1>1, <1>7, SessionMoves DEF Session, ReadIncoming
<1>8. CASE TakeLayout \/ TakeKey \/ Drain
  <2>1. pc \in {"listen", "chord"} /\ pc' \in {"listen", "chord"} /\ UNCHANGED hook
    BY <1>8 DEF TakeLayout, TakeKey, Drain
  <2>2. Takes(1)
    BY <1>8, SessionMoves DEF Session
  <2> QED BY <1>2, <2>1, <2>2 DEF ArmedOnce
<1>9. CASE Confirm \/ ChordTimesOut \/ CloseToStop
  <2>1. pc \in {"listen", "chord"} /\ pc' \in {"closed", "over"} /\ hook' = FALSE
    BY <1>9 DEF Confirm, ChordTimesOut, CloseToStop
  <2>2. Takes(0)
    BY <1>9, SessionMoves DEF Session
  <2> QED BY <1>2, <2>1, <2>2 DEF ArmedOnce
<1>10. CASE UNCHANGED vars
  BY <1>1, <1>10, SameTakesNone DEF vars, Unread
<1> QED BY <1>4, <1>5, <1>6, <1>7, <1>8, <1>9, <1>10 DEF Next, Session

\* A key line that is not thrown away by arm.
Sees(i) == IsKey(Unread[i]) /\ \A e \in Places : IsArmed(e) => e < i

\* No later line speaks of its keycode; no later line is of a key.
LastOfCode(i) == \A j \in Places : j > i /\ IsKey(Unread[j]) => Unread[j].code # Unread[i].code
NoKeyAfter(i) == \A j \in Places : j > i => ~IsKey(Unread[j])

(* Where the lines are that stay, when some are taken.                     *)
LEMMA TakesPlaces ==
    ASSUME TypeOK, NEW m \in Nat, Takes(m)
    PROVE  /\ \A i \in Places' : i \in Nat /\ i > 0 /\ i + m \in Places /\ Unread'[i] = Unread[i + m]
           /\ \A j \in Places : j \in Nat /\ (j > m => j - m \in Places' /\ (j - m) + m = j)
           /\ Places' = Places <=> m = 0
<1>1. PICK n \in Nat : n = Len(Unread)
  BY UnreadTyped
<1>2. m <= n /\ Places = 1 .. n /\ Places' = 1 .. n - m
  BY <1>1 DEF Takes, Places
<1>3. \A i \in Places' : i \in Nat /\ i > 0 /\ i + m \in Places /\ Unread'[i] = Unread[i + m]
  BY <1>2 DEF Takes
<1>4. \A j \in Places : j \in Nat /\ (j > m => j - m \in Places' /\ (j - m) + m = j)
  BY <1>2
<1>5. Places' = Places <=> m = 0
  <2>1. ASSUME m # 0, Places' = Places PROVE FALSE
    <3>1. n \in Places /\ n \notin Places'
      BY <1>2, <2>1
    <3> QED BY <2>1, <3>1
  <2> QED BY <1>2, <2>1
<1> QED BY <1>3, <1>4, <1>5

(* Where the lines are when one is added.                                  *)
LEMMA GrowsPlaces ==
    ASSUME TypeOK, NEW line, Grows(line), NEW n, n = Len(Unread)
    PROVE  /\ n \in Nat
           /\ Places' = Places \cup {n + 1} /\ n + 1 \notin Places
           /\ \A i \in Places : i \in Nat /\ i > 0 /\ i < n + 1 /\ Unread'[i] = Unread[i]
           /\ Unread'[n + 1] = line
<1>1. n \in Nat
  BY UnreadTyped
<1> QED BY <1>1 DEF Grows, Places

(* Taking lines changes nothing about those that stay.                     *)
LEMMA TakesSees ==
    ASSUME TypeOK, NEW m \in Nat, Takes(m), NEW i \in Places'
    PROVE  /\ Sees(i)' <=> Sees(i + m)
           /\ LastOfCode(i)' <=> LastOfCode(i + m)
           /\ NoKeyAfter(i)' <=> NoKeyAfter(i + m)
<1>1. /\ \A j \in Places' : j \in Nat /\ j > 0 /\ j + m \in Places /\ Unread'[j] = Unread[j + m]
      /\ \A j \in Places : j \in Nat /\ (j > m => j - m \in Places' /\ (j - m) + m = j)
      /\ i \in Nat /\ i > 0 /\ i + m \in Places /\ Unread'[i] = Unread[i + m]
  BY TakesPlaces
<1>2. Sees(i)' <=> Sees(i + m)
  <2>1. ASSUME Sees(i)', NEW e \in Places, IsArmed(e) PROVE e < i + m
    <3>1. CASE e > m
      <4>1. IsArmed(e - m)'
        BY <1>1, <2>1, <3>1 DEF IsArmed
      <4>2. e - m < i
        BY <1>1, <2>1, <3>1, <4>1 DEF Sees
      <4> QED BY <1>1, <4>2
    <3>2. CASE ~(e > m)
      BY <1>1, <3>2
    <3> QED BY <3>1, <3>2
  <2>2. ASSUME Sees(i + m), NEW e \in Places', IsArmed(e)' PROVE e < i
    <3>1. e + m \in Places /\ IsArmed(e + m)
      BY <1>1, <2>2 DEF IsArmed
    <3>2. e + m < i + m
      BY <2>2, <3>1 DEF Sees
    <3> QED BY <1>1, <3>2
  <2>3. IsKey(Unread[i])' <=> IsKey(Unread[i + m])
    BY <1>1 DEF IsKey
  <2> QED BY <2>1, <2>2, <2>3 DEF Sees
<1>3. LastOfCode(i)' <=> LastOfCode(i + m)
  <2>1. ASSUME LastOfCode(i)', NEW j \in Places, j > i + m, IsKey(Unread[j])
        PROVE  Unread[j].code # Unread[i + m].code
    <3>1. j > m /\ j - m > i
      BY <1>1, <2>1
    <3>2. j - m \in Places' /\ Unread'[j - m] = Unread[j]
      BY <1>1, <3>1
    <3> QED BY <1>1, <2>1, <3>1, <3>2 DEF LastOfCode, IsKey
  <2>2. ASSUME LastOfCode(i + m), NEW j \in Places', j > i, IsKey(Unread'[j])
        PROVE  Unread'[j].code # Unread'[i].code
    <3>1. j + m \in Places /\ j + m > i + m /\ Unread'[j] = Unread[j + m]
      BY <1>1, <2>2
    <3> QED BY <1>1, <2>2, <3>1 DEF LastOfCode, IsKey
  <2> QED BY <2>1, <2>2 DEF LastOfCode, IsKey
<1>4. NoKeyAfter(i)' <=> NoKeyAfter(i + m)
  <2>1. ASSUME NoKeyAfter(i)', NEW j \in Places, j > i + m PROVE ~IsKey(Unread[j])
    <3>1. j > m /\ j - m > i
      BY <1>1, <2>1
    <3>2. j - m \in Places' /\ Unread'[j - m] = Unread[j]
      BY <1>1, <3>1
    <3> QED BY <2>1, <3>1, <3>2 DEF NoKeyAfter, IsKey
  <2>2. ASSUME NoKeyAfter(i + m), NEW j \in Places', j > i PROVE ~IsKey(Unread'[j])
    <3>1. j + m \in Places /\ j + m > i + m /\ Unread'[j] = Unread[j + m]
      BY <1>1, <2>2
    <3> QED BY <2>2, <3>1 DEF NoKeyAfter, IsKey
  <2> QED BY <2>1, <2>2 DEF NoKeyAfter, IsKey
<1> QED BY <1>2, <1>3, <1>4

(* A new line is only one more after those that are there.                 *)
LEMMA GrowsSees ==
    ASSUME TypeOK, NEW line, line.kind # "armed", Grows(line), NEW i \in Places
    PROVE  /\ Sees(i)' <=> Sees(i)
           /\ LastOfCode(i)' <=>
                  LastOfCode(i) /\ (IsKey(line) => line.code # Unread[i].code)
           /\ NoKeyAfter(i)' <=> NoKeyAfter(i) /\ ~IsKey(line)
<1>1. PICK n \in Nat : n = Len(Unread)
  BY UnreadTyped
<1>2. /\ Places' = Places \cup {n + 1} /\ n + 1 \notin Places
      /\ \A j \in Places : j \in Nat /\ j > 0 /\ j < n + 1 /\ Unread'[j] = Unread[j]
      /\ Unread'[n + 1] = line /\ n + 1 > i /\ Unread'[i] = Unread[i]
  BY <1>1, GrowsPlaces
<1>3. Sees(i)' <=> Sees(i)
  <2>1. ~IsArmed(n + 1)' /\ \A e \in Places : IsArmed(e)' <=> IsArmed(e)
    BY <1>2 DEF IsArmed
  <2>2. IsKey(Unread[i])' <=> IsKey(Unread[i])
    BY <1>2 DEF IsKey
  <2> QED BY <1>2, <2>1, <2>2 DEF Sees
<1>4. \A j \in Places : (IsKey(Unread[j])' <=> IsKey(Unread[j]))
  BY <1>2 DEF IsKey
<1>5. IsKey(Unread'[n + 1]) <=> IsKey(line)
  BY <1>2
<1>6. \A j \in Places' : IsKey(Unread[j])' <=> IsKey(Unread'[j])
  BY DEF IsKey
<1> QED BY <1>2, <1>3, <1>4, <1>5, <1>6 DEF LastOfCode, NoKeyAfter

\* The line that is added, and the lines before the hook's own.
LEMMA NewLineSeen ==
    ASSUME TypeOK, NEW line, line.kind # "armed", Grows(line), NEW n, n = Len(Unread)
    PROVE  /\ Sees(n + 1)' <=> IsKey(line)
           /\ LastOfCode(n + 1)' /\ NoKeyAfter(n + 1)'
<1>1. /\ n \in Nat
      /\ Places' = Places \cup {n + 1}
      /\ \A j \in Places : j < n + 1 /\ j \in Nat
      /\ Unread'[n + 1] = line
  BY GrowsPlaces
<1>2. \A j \in Places' : ~(j > n + 1)
  BY <1>1
<1>3. \A j \in Places' : IsArmed(j)' => j < n + 1
  BY <1>1 DEF IsArmed
<1>4. IsKey(Unread[n + 1])' <=> IsKey(line)
  BY <1>1 DEF IsKey
<1> QED BY <1>2, <1>3, <1>4 DEF Sees, LastOfCode, NoKeyAfter

LEMMA ArmedHides ==
    ASSUME TypeOK, Grows([kind |-> "armed"])
    PROVE  \A i \in Places' : ~Sees(i)'
<1>1. PICK n \in Nat : n = Len(Unread)
  BY UnreadTyped
<1>2. /\ Places' = Places \cup {n + 1}
      /\ \A j \in Places : j < n + 1 /\ j \in Nat
      /\ Unread'[n + 1] = [kind |-> "armed"]
  BY <1>1, GrowsPlaces
<1>3. IsArmed(n + 1)' /\ n + 1 \in Places'
  BY <1>2 DEF IsArmed
<1>4. \A i \in Places' : ~(n + 1 < i)
  BY <1>1, <1>2
<1> QED BY <1>3, <1>4 DEF Sees

\* What the last unread line of a keycode says of it.
PressedAreDown ==
    hook => \A i \in Places : Sees(i) /\ LastOfCode(i) /\ Unread[i].kind = "press" =>
                <<Unread[i].from, Unread[i].code>> \in down

\* Why a keycode may be in held_keys.
HasReason(c) ==
    \/ c \in stranded
    \/ \E i \in Places : Sees(i) /\ Unread[i].code = c
    \/ \E kb \in Keyboards : <<kb, c>> \in down

\* held_keys, corrected by the unread lines.
HeldInv ==
    /\ PressedAreDown
    /\ hook => \A c \in held : HasReason(c)
    /\ pc = "closed" => held \subseteq stranded

(* Taking lines keeps PressedAreDown.                                      *)
LEMMA PressedTakes ==
    ASSUME TypeOK, PressedAreDown, NEW m \in Nat, Takes(m), hook' => hook, UNCHANGED down
    PROVE  PressedAreDown'
<1> SUFFICES ASSUME hook', NEW i \in Places', Sees(i)', LastOfCode(i)', Unread'[i].kind = "press"
             PROVE  <<Unread'[i].from, Unread'[i].code>> \in down'
  BY DEF PressedAreDown
<1>1. i + m \in Places /\ Unread'[i] = Unread[i + m]
  BY TakesPlaces
<1>2. Sees(i + m) /\ LastOfCode(i + m)
  BY TakesSees
<1> QED BY <1>1, <1>2 DEF PressedAreDown

\* A line that is taken gives no keycode a reason, if it was not seen or is
\* not the keycode's.
LEMMA ReasonTakes ==
    ASSUME TypeOK, NEW m \in Nat, Takes(m), UNCHANGED <<stranded, down>>, NEW c, HasReason(c),
           \A i \in Places : i <= m => ~(Sees(i) /\ Unread[i].code = c)
    PROVE  HasReason(c)'
<1>1. ASSUME NEW i \in Places, Sees(i), Unread[i].code = c
      PROVE  \E j \in Places' : Sees(j)' /\ Unread'[j].code = c
  <2>1. i > m /\ i - m \in Places' /\ (i - m) + m = i
    BY <1>1, TakesPlaces
  <2>2. PICK j \in Places' : j + m = i
    BY <2>1
  <2>3. Sees(j)' /\ Unread'[j].code = c
    BY <1>1, <2>2, TakesPlaces, TakesSees
  <2> QED BY <2>3
<1> QED BY <1>1 DEF HasReason

LEMMA ReasonGrows ==
    ASSUME TypeOK, NEW line, line.kind # "armed", Grows(line), UNCHANGED stranded,
           NEW c, HasReason(c),
           \A kb \in Keyboards : <<kb, c>> \in down \ down' => IsKey(line) /\ line.code = c
    PROVE  HasReason(c)'
<1>1. PICK n \in Nat : n = Len(Unread)
  BY UnreadTyped
<1>2. /\ Places' = Places \cup {n + 1} /\ Unread'[n + 1] = line
      /\ \A j \in Places : Unread'[j] = Unread[j]
  BY <1>1, GrowsPlaces
<1>3. ASSUME NEW i \in Places, Sees(i), Unread[i].code = c PROVE HasReason(c)'
  BY <1>2, <1>3, GrowsSees DEF HasReason
<1>4. ASSUME NEW kb \in Keyboards, <<kb, c>> \in down PROVE HasReason(c)'
  <2>1. CASE <<kb, c>> \in down'
    BY <2>1 DEF HasReason
  <2>2. CASE <<kb, c>> \notin down'
    <3>1. Sees(n + 1)' /\ Unread'[n + 1].code = c /\ n + 1 \in Places'
      BY <1>1, <1>2, <1>4, <2>2, NewLineSeen
    <3> QED BY <3>1 DEF HasReason
  <2> QED BY <2>1, <2>2
<1>5. c \in stranded => HasReason(c)'
  BY DEF HasReason
<1> QED BY <1>3, <1>4, <1>5 DEF HasReason

(* A key is a keyboard and a keycode.                                      *)
LEMMA KeyIsPair == \A k \in Keys : k = <<k[1], k[2]>>
BY DEF Keys

(* The keyboards keep HeldInv: a release leaves its line.                  *)
LEMMA WorldHeld ==
    ASSUME TypeOK, ArmedOnce, HeldInv, World
    PROVE  HeldInv'
<1>1. UNCHANGED <<hook, buffer, pc, held, stranded>>
  BY DEF World, heldVars
<1>2. CASE ~hook
  BY <1>1, <1>2 DEF HeldInv, PressedAreDown
<1>3. ASSUME hook, NEW line, line.kind # "armed", Grows(line),
             \A d \in down \ down' : IsKey(line) /\ line.kind = "release" /\ d = <<line.from, line.code>>,
             IsKey(line) /\ line.kind = "press" => <<line.from, line.code>> \in down'
      PROVE  HeldInv'
  <2>1. PICK n \in Nat : n = Len(Unread)
    BY UnreadTyped
  <2>2. /\ Places' = Places \cup {n + 1} /\ Unread'[n + 1] = line
        /\ \A j \in Places : Unread'[j] = Unread[j]
    BY <1>3, <2>1, GrowsPlaces
  <2>3. ASSUME NEW i \in Places, Sees(i)', LastOfCode(i)', Unread'[i].kind = "press"
        PROVE  <<Unread'[i].from, Unread'[i].code>> \in down'
    <3>1. Sees(i) /\ LastOfCode(i) /\ Unread'[i] = Unread[i]
          /\ (IsKey(line) => line.code # Unread[i].code)
      BY <1>3, <2>2, <2>3, GrowsSees
    <3>2. <<Unread[i].from, Unread[i].code>> \in down
      BY <1>3, <2>3, <3>1 DEF HeldInv, PressedAreDown
    <3> QED BY <1>3, <3>1, <3>2
  <2>4. Sees(n + 1)' => IsKey(line)
    BY <1>3, <2>1, NewLineSeen
  <2>5. PressedAreDown'
    BY <1>3, <2>2, <2>3, <2>4 DEF PressedAreDown
  <2>6. ASSUME NEW c \in held PROVE HasReason(c)'
    <3>1. HasReason(c)
      BY <1>3, <2>6 DEF HeldInv
    <3>2. \A kb \in Keyboards : <<kb, c>> \in down \ down' => IsKey(line) /\ line.code = c
      BY <1>3
    <3> QED BY <1>1, <1>3, <3>1, <3>2, ReasonGrows
  <2> QED BY <1>1, <2>5, <2>6 DEF HeldInv
<1>4. ASSUME hook, NEW k \in Keys, Press(k) PROVE HeldInv'
  <2>1. /\ Grows(KeyLine("press", k)) /\ down' = down \cup {k}
    BY <1>1, <1>4, KeyMoves DEF Press
  <2>2. k = <<k[1], k[2]>>
    BY KeyIsPair
  <2> QED BY <1>3, <1>4, <2>1, <2>2 DEF KeyLine
<1>5. ASSUME hook, NEW k \in Keys, Release(k) PROVE HeldInv'
  <2>1. /\ Grows(KeyLine("release", k)) /\ down' = down \ {k}
    BY <1>1, <1>5, KeyMoves DEF Release
  <2>2. k = <<k[1], k[2]>>
    BY KeyIsPair
  <2>3. IsKey(KeyLine("release", k))
    BY DEF IsKey, KeyLine
  <2> QED BY <1>3, <1>5, <2>1, <2>2, <2>3 DEF KeyLine
<1>6. ASSUME hook, NEW v \in Virtuals, Attach(v) PROVE HeldInv'
  <2>1. Grows([kind |-> "activelayout", from |-> v]) /\ UNCHANGED down
    BY <1>1, <1>6, AttachMoves DEF Attach
  <2>2. ~IsKey([kind |-> "activelayout", from |-> v])
    BY DEF IsKey
  <2> QED BY <1>3, <1>6, <2>1, <2>2
<1>7. ASSUME NEW v \in Virtuals, Detach(v) PROVE HeldInv'
  <2>1. Takes(0) /\ UNCHANGED <<down, stranded>>
    BY <1>1, <1>7, SameTakesNone DEF Detach, Unread
  <2>2. \A i \in Places : ~(i <= 0)
    BY UnreadTyped DEF Places
  <2>3. PressedAreDown'
    BY <1>1, <2>1, PressedTakes DEF HeldInv
  <2>4. ASSUME NEW c \in held, hook PROVE HasReason(c)'
    BY <2>1, <2>2, <2>4, ReasonTakes DEF HeldInv
  <2> QED BY <1>1, <2>3, <2>4 DEF HeldInv
<1> QED BY <1>2, <1>4, <1>5, <1>6, <1>7 DEF World

\* The first unread line, when the session is reading.
LEMMA FirstLine ==
    ASSUME TypeOK, ArmedOnce, pc # "arming", buffer # <<>>
    PROVE  /\ 1 \in Places /\ Unread[1] = Head(buffer) /\ Head(buffer) \in Lines
           /\ \A i \in Places : (i = 1 \/ i > 1) /\ (i <= 1 => i = 1)
           /\ \A i \in Places : Sees(i) <=> IsKey(Unread[i])
<1>1. Head(buffer) \in Lines /\ Head(buffer) = Unread[1] /\ Len(Unread) > 0
  BY TailOfUnread
<1>2. PICK n \in Nat : n = Len(Unread)
  BY UnreadTyped
<1>3. 1 \in Places /\ \A i \in Places : (i = 1 \/ i > 1) /\ (i <= 1 => i = 1)
  BY <1>1, <1>2 DEF Places
<1> QED BY <1>1, <1>3 DEF ArmedOnce, Sees

(* Reading a key line keeps HeldInv: what the line says of its keycode     *)
(* still holds, or a later line says otherwise.                            *)
LEMMA TracksHeld ==
    ASSUME TypeOK, ArmedOnce, HeldInv, pc \in {"listen", "chord"}, pc' \in {"listen", "chord"},
           buffer # <<>>, IsKey(Head(buffer)), TracksKey(Head(buffer)), Takes(1),
           UNCHANGED <<hook, down, stranded>>
    PROVE  HeldInv'
<1> DEFINE line == Head(buffer)
<1>1. /\ 1 \in Places /\ Unread[1] = line /\ line \in Lines
      /\ \A i \in Places : (i = 1 \/ i > 1) /\ (i <= 1 => i = 1)
      /\ \A i \in Places : Sees(i) <=> IsKey(Unread[i])
  BY FirstLine
<1>2. line.code \in Codes /\ line.from \in Keyboards /\ line.kind \in {"press", "release"}
  BY <1>1, KeyLineTyped
<1>3. hook
  BY DEF ArmedOnce
<1>8. PICK code \in Codes : code = line.code
  BY <1>2
<1> HIDE DEF line
<1>4. ASSUME NEW c \in held, c # code PROVE HasReason(c)'
  <2>1. HasReason(c)
    BY <1>3, <1>4 DEF HeldInv
  <2>2. \A i \in Places : i <= 1 => ~(Sees(i) /\ Unread[i].code = c)
    BY <1>1, <1>8, <1>4
  <2> QED BY <2>1, <2>2, ReasonTakes
<1>5. ASSUME line.kind = "press" PROVE HasReason(code)'
  <2>1. CASE \E j \in Places : j > 1 /\ IsKey(Unread[j]) /\ Unread[j].code = code
    <3>1. PICK j \in Places : j > 1 /\ IsKey(Unread[j]) /\ Unread[j].code = code
      BY <2>1
    <3>2. j - 1 \in Places' /\ (j - 1) + 1 = j
      BY <3>1, TakesPlaces
    <3>3. PICK i \in Places' : i + 1 = j
      BY <3>2
    <3>4. Sees(i)' /\ Unread'[i].code = code
      BY <1>1, <3>1, <3>3, TakesPlaces, TakesSees
    <3> QED BY <3>4 DEF HasReason
  <2>2. CASE ~ \E j \in Places : j > 1 /\ IsKey(Unread[j]) /\ Unread[j].code = code
    <3>1. Sees(1) /\ LastOfCode(1)
      BY <1>1, <1>8, <2>2 DEF LastOfCode, line
    <3>2. <<line.from, code>> \in down
      BY <1>1, <1>3, <1>8, <1>5, <3>1 DEF HeldInv, PressedAreDown
    <3> QED BY <1>2, <3>2 DEF HasReason
  <2> QED BY <2>1, <2>2
<1>6. PressedAreDown'
  BY PressedTakes DEF HeldInv
<1>7. \A c \in held' : (c \in held /\ c # code) \/ (c = code /\ line.kind = "press")
  BY <1>2, <1>8 DEF TracksKey, line
<1> QED BY <1>4, <1>5, <1>6, <1>7 DEF HeldInv

(* The session keeps HeldInv.                                              *)
LEMMA SessionHeld ==
    ASSUME TypeOK, ArmedOnce, HeldInv, Session
    PROVE  HeldInv'
<1>1. CASE Install
  <2>1. Grows([kind |-> "armed"]) /\ UNCHANGED <<held, stranded>> /\ held \subseteq stranded
        /\ pc' = "arming"
    BY <1>1, SessionMoves DEF Install, HeldInv, heldVars
  <2>2. PressedAreDown'
    BY <2>1, ArmedHides DEF PressedAreDown
  <2> QED BY <2>1, <2>2 DEF HeldInv, HasReason
<1>2. ASSUME NEW m \in Nat, Takes(m), UNCHANGED <<hook, down, held, stranded>>,
             pc' # "closed", \A i \in Places : i <= m => ~Sees(i)
      PROVE  HeldInv'
  <2>1. PressedAreDown'
    BY <1>2, PressedTakes DEF HeldInv
  <2>2. ASSUME hook, NEW c \in held PROVE HasReason(c)'
    BY <1>2, <2>2, ReasonTakes DEF HeldInv
  <2> QED BY <1>2, <2>1, <2>2 DEF HeldInv
<1>3. CASE Armed
  <2>1. Unread \in Seq(Lines) /\ pc = "arming" /\ pc' = "listen"
        /\ UNCHANGED <<hook, down, held, stranded>>
    BY <1>3, UnreadTyped DEF Armed, worldVars, heldVars
  <2>2. PICK m \in Nat : m = ArmedAt(Unread) /\ m \in Places /\ IsArmed(m)
    BY <2>1, ArmedAtIsPlace DEF ArmedOnce, IsArmed, Places
  <2>3. Takes(m)
    BY <1>3, <2>2, ArmedTakes
  <2>4. \A i \in Places : i <= m => ~Sees(i)
    BY <2>2, UnreadTyped DEF Sees, Places
  <2> QED BY <1>2, <2>1, <2>3, <2>4
<1>4. \A i \in Places : ~(i <= 0)
  BY UnreadTyped DEF Places
<1>5. CASE ReadIncoming
  <2>1. Takes(0) /\ UNCHANGED <<hook, down, held, stranded, pc>> /\ pc # "closed"
    BY <1>5, SessionMoves DEF ReadIncoming, worldVars, heldVars
  <2> QED BY <1>2, <1>4, <2>1
<1>6. ASSUME pc \in {"listen", "chord"}, pc' = pc, buffer # <<>>, ~IsKey(Head(buffer)), Takes(1),
             UNCHANGED <<hook, down, held, stranded>>
      PROVE  HeldInv'
  <2>1. \A i \in Places : i <= 1 => ~Sees(i)
    BY <1>6, FirstLine
  <2> QED BY <1>2, <1>6, <2>1
<1>7. CASE TakeLayout
  <2>1. Takes(1)
    BY <1>7, SessionMoves
  <2>2. ~IsKey(Head(buffer))
    BY <1>7 DEF TakeLayout, IsKey
  <2> QED BY <1>6, <1>7, <2>1, <2>2 DEF TakeLayout, worldVars, heldVars
<1>8. CASE TakeKey
  <2>1. Takes(1)
    BY <1>8, SessionMoves
  <2>2. /\ pc \in {"listen", "chord"} /\ pc' \in {"listen", "chord"} /\ buffer # <<>>
        /\ IsKey(Head(buffer)) /\ TracksKey(Head(buffer)) /\ UNCHANGED <<hook, down, stranded>>
    BY <1>8 DEF TakeKey, worldVars
  <2> QED BY <2>1, <2>2, TracksHeld
<1>9. CASE Drain
  <2>1. Takes(1) /\ pc = "chord" /\ pc' = pc /\ buffer # <<>> /\ UNCHANGED <<hook, down, stranded>>
    BY <1>9, SessionMoves DEF Drain, worldVars
  <2>2. CASE IsKey(Head(buffer)) /\ TracksKey(Head(buffer))
    BY <2>1, <2>2, TracksHeld
  <2>3. CASE Head(buffer).kind = "activelayout" /\ UNCHANGED heldVars
    <3>1. ~IsKey(Head(buffer)) /\ UNCHANGED held
      BY <2>3 DEF IsKey, heldVars
    <3> QED BY <1>6, <2>1, <3>1
  <2> QED BY <1>9, <2>2, <2>3 DEF Drain
<1>10. CASE Confirm
  <2>1. hook' = FALSE /\ held' = {}
    BY <1>10 DEF Confirm, ChordReleaseConfirmed, heldVars
  <2> QED BY <2>1 DEF HeldInv, PressedAreDown
<1>11. CASE ChordTimesOut
  <2>1. hook' = FALSE /\ pc' = "over"
    BY <1>11 DEF ChordTimesOut
  <2> QED BY <2>1 DEF HeldInv, PressedAreDown
<1>12. CASE CloseToStop
  <2>1. hook' = FALSE /\ stranded' = held /\ held' = held
    BY <1>12 DEF CloseToStop, heldVars
  <2> QED BY <2>1 DEF HeldInv, PressedAreDown
<1> QED BY <1>1, <1>3, <1>5, <1>7, <1>8, <1>9, <1>10, <1>11, <1>12 DEF Session

(* HeldInv is kept.                                                        *)
LEMMA HeldKept ==
    ASSUME TypeOK, ArmedOnce, HeldInv, [Next]_vars
    PROVE  HeldInv'
<1>1. CASE UNCHANGED vars
  <2>1. Unread' = Unread /\ UNCHANGED <<hook, down, held, stranded, pc>>
    BY <1>1 DEF vars, worldVars, heldVars, Unread
  <2>2. Places' = Places
    BY <2>1 DEF Places
  <2>3. \A i \in Places : (Sees(i)' <=> Sees(i)) /\ (LastOfCode(i)' <=> LastOfCode(i))
    BY <2>1, <2>2 DEF Sees, LastOfCode, IsArmed, IsKey
  <2> QED BY <2>1, <2>2, <2>3 DEF HeldInv, PressedAreDown, HasReason
<1> QED BY <1>1, WorldHeld, SessionHeld DEF Next

\* The modifiers of a set of keys that are down, as ModifiersDown has them.
ModifiersOf(S) == {HookModifier[k[2]] : k \in {d \in S : IsModifier(d[2])}}

(* The modifier keys.                                                      *)
LEMMA ModifierNames ==
    /\ \A c : IsModifier(c) <=> c = "ctrl" \/ c = "altgr"
    /\ HookModifier["ctrl"] = "ctrl" /\ HookModifier["altgr"] = "level3"
    /\ OwnModifier["ctrl"] = "ctrl" /\ OwnModifier["altgr"] = "alt"
BY DEF IsModifier, HookModifier, OwnModifier

(* Only the physical keyboard has modifier keys, one of each.              *)
LEMMA ModifiersAre ==
    ASSUME NEW S \in SUBSET Keys
    PROVE  /\ ModifiersOf(S) \subseteq {"ctrl", "level3"}
           /\ "ctrl" \in ModifiersOf(S) <=> <<Physical, "ctrl">> \in S
           /\ "level3" \in ModifiersOf(S) <=> <<Physical, "altgr">> \in S
<1>1. ASSUME NEW k \in S, IsModifier(k[2])
      PROVE  k = <<Physical, k[2]>> /\ (k[2] = "ctrl" \/ k[2] = "altgr")
  <2>1. k[2] = "ctrl" \/ k[2] = "altgr"
    BY <1>1, ModifierNames
  <2>2. k \notin Virtuals \X {"letter"}
    BY <2>1
  <2> QED BY <2>1, <2>2 DEF Keys
<1>2. ModifiersOf(S) \subseteq {"ctrl", "level3"}
  BY <1>1, ModifierNames DEF ModifiersOf
<1>3. ASSUME "ctrl" \in ModifiersOf(S) PROVE <<Physical, "ctrl">> \in S
  <2>1. PICK k \in S : IsModifier(k[2]) /\ HookModifier[k[2]] = "ctrl"
    BY <1>3 DEF ModifiersOf
  <2>2. k[2] = "ctrl"
    BY <1>1, <2>1, ModifierNames
  <2> QED BY <1>1, <2>1, <2>2
<1>4. ASSUME "level3" \in ModifiersOf(S) PROVE <<Physical, "altgr">> \in S
  <2>1. PICK k \in S : IsModifier(k[2]) /\ HookModifier[k[2]] = "level3"
    BY <1>4 DEF ModifiersOf
  <2>2. k[2] = "altgr"
    BY <1>1, <2>1, ModifierNames
  <2> QED BY <1>1, <2>1, <2>2
<1>5. ASSUME NEW c \in {"ctrl", "altgr"}, <<Physical, c>> \in S PROVE HookModifier[c] \in ModifiersOf(S)
  <2>1. PICK k \in S : k = <<Physical, c>>
    BY <1>5
  <2>2. IsModifier(k[2]) /\ k[2] = c
    BY <2>1, ModifierNames
  <2> QED BY <2>2 DEF ModifiersOf
<1> QED BY <1>2, <1>3, <1>4, <1>5, ModifierNames

\* What a mask says of the modifiers that are down.
Tells(m) ==
    /\ m = {} => ModifiersDown = {}
    /\ "altgr" \notin Codes => m = ModifiersDown

\* current_modifier_mask, corrected by the last unread key line.
MaskInv ==
    /\ hook => \A i \in Places : Sees(i) /\ NoKeyAfter(i) => Tells(HeldModifiersAfter(Unread[i]))
    /\ pc = "chord" /\ NoKeyAfter(0) => Tells(mask)

(* The mask after a key tells the modifiers that are down then.            *)
LEMMA KeyTells ==
    ASSUME TypeOK, NEW k \in Keys, NEW kind \in {"press", "release"},
           kind = "press" => down' = down \cup {k},
           kind = "release" => k \in down /\ down' = down \ {k},
           NEW m, m = HeldModifiersAfter(KeyLine(kind, k))
    PROVE  Tells(m)'
<1> DEFINE line == KeyLine(kind, k)
<1>1. down \in SUBSET Keys /\ down' \in SUBSET Keys
  BY DEF TypeOK
<1>2. ModifiersDown = ModifiersOf(down) /\ ModifiersDown' = ModifiersOf(down')
  BY DEF ModifiersDown, ModifiersOf
<1>3. /\ ModifiersOf(down) \subseteq {"ctrl", "level3"} /\ ModifiersOf(down') \subseteq {"ctrl", "level3"}
      /\ "ctrl" \in ModifiersOf(down) <=> <<Physical, "ctrl">> \in down
      /\ "level3" \in ModifiersOf(down) <=> <<Physical, "altgr">> \in down
      /\ "ctrl" \in ModifiersOf(down') <=> <<Physical, "ctrl">> \in down'
      /\ "level3" \in ModifiersOf(down') <=> <<Physical, "altgr">> \in down'
  BY <1>1, ModifiersAre
<1>4. k = <<k[1], k[2]>> /\ (IsModifier(k[2]) => k[1] = Physical) /\ k[2] \in Codes
  <2>1. k = <<k[1], k[2]>>
    BY KeyIsPair
  <2>2. IsModifier(k[2]) => k[1] = Physical
    BY ModifierNames DEF Keys
  <2> QED BY <2>1, <2>2, KeyAssumption DEF Keys
<1>5. /\ line.kind = kind /\ line.code = k[2] /\ line.mask = ModifiersOf(down)
  BY <1>2 DEF KeyLine
<1>6. m = HeldModifiersAfter(line)
  OBVIOUS
<1>7. /\ m = {} => ModifiersOf(down') = {}
      /\ "altgr" \notin Codes => m = ModifiersOf(down')
  <2>1. CASE ~IsModifier(k[2])
    <3>1. m = ModifiersOf(down)
      BY <1>5, <1>6, <2>1 DEF HeldModifiersAfter
    <3>2. k # <<Physical, "ctrl">> /\ k # <<Physical, "altgr">>
      BY <2>1, ModifierNames
    <3>3. ModifiersOf(down') = ModifiersOf(down)
      BY <1>3, <3>2
    <3> QED BY <3>1, <3>3
  <2>2. CASE k[2] = "ctrl"
    <3>1. IsModifier(k[2]) /\ OwnModifier[k[2]] = "ctrl" /\ k = <<Physical, "ctrl">>
      BY <1>4, <2>2, ModifierNames
    <3>2. m = IF kind = "press" THEN ModifiersOf(down) \cup {"ctrl"} ELSE ModifiersOf(down) \ {"ctrl"}
      BY <1>5, <1>6, <3>1 DEF HeldModifiersAfter
    <3>3. <<Physical, "altgr">> \in down' <=> <<Physical, "altgr">> \in down
      BY <3>1
    <3>4. <<Physical, "ctrl">> \in down' <=> kind = "press"
      BY <3>1
    <3> QED BY <1>3, <3>2, <3>3, <3>4
  <2>3. CASE k[2] = "altgr"
    <3>1. IsModifier(k[2]) /\ OwnModifier[k[2]] = "alt" /\ k = <<Physical, "altgr">>
      BY <1>4, <2>3, ModifierNames
    <3>2. m = IF kind = "press" THEN ModifiersOf(down) \cup {"alt"} ELSE ModifiersOf(down) \ {"alt"}
      BY <1>5, <1>6, <3>1 DEF HeldModifiersAfter
    <3>3. m # {}
      <4>1. kind = "release" => "level3" \in ModifiersOf(down)
        BY <1>3, <3>1
      <4> QED BY <3>2, <4>1
    <3>4. "altgr" \in Codes
      BY <1>4, <2>3
    <3> QED BY <3>3, <3>4
  <2> QED BY <2>1, <2>2, <2>3, ModifierNames
<1> QED BY <1>2, <1>7 DEF Tells

(* Taking lines keeps what the last key line tells.                        *)
LEMMA MaskTakes ==
    ASSUME TypeOK, MaskInv, NEW m \in Nat, Takes(m), hook' => hook, UNCHANGED down
    PROVE  hook' => \A i \in Places' : Sees(i)' /\ NoKeyAfter(i)' =>
               Tells(HeldModifiersAfter(Unread[i]))'
<1>1. UNCHANGED ModifiersDown
  BY DEF ModifiersDown
<1>2. ASSUME hook', NEW i \in Places', Sees(i)', NoKeyAfter(i)'
      PROVE  Tells(HeldModifiersAfter(Unread[i]))'
  <2>1. i + m \in Places /\ Unread'[i] = Unread[i + m] /\ Sees(i + m) /\ NoKeyAfter(i + m)
    BY <1>2, TakesPlaces, TakesSees
  <2>2. PICK x : x = HeldModifiersAfter(Unread[i + m])
    OBVIOUS
  <2>3. Tells(x)
    BY <1>2, <2>1, <2>2 DEF MaskInv
  <2>4. Tells(x)'
    BY <1>1, <2>3 DEF Tells
  <2>5. HeldModifiersAfter(Unread[i])' = x
    BY <2>1, <2>2 DEF HeldModifiersAfter
  <2> QED BY <2>4, <2>5
<1> QED BY <1>2

(* The keyboards keep MaskInv.                                             *)
LEMMA WorldMask ==
    ASSUME TypeOK, ArmedOnce, MaskInv, World
    PROVE  MaskInv'
<1>1. UNCHANGED <<hook, buffer, pc, mask>>
  BY DEF World, heldVars
<1>2. CASE ~hook
  BY <1>1, <1>2 DEF MaskInv, ArmedOnce
<1>3. PICK n \in Nat : n = Len(Unread)
  BY UnreadTyped
<1>4. ASSUME NEW line, Grows(line)
      PROVE  /\ Places' = Places \cup {n + 1} /\ Unread'[n + 1] = line
             /\ \A j \in Places : Unread'[j] = Unread[j] /\ j > 0
             /\ n + 1 > 0 /\ n + 1 \in Places'
  BY <1>3, <1>4, GrowsPlaces
<1>5. ASSUME hook, NEW k \in Keys, NEW kind \in {"press", "release"},
             kind = "press" => down' = down \cup {k},
             kind = "release" => k \in down /\ down' = down \ {k},
             KeyEmits(kind, k)
      PROVE  MaskInv'
  <2>1. PICK line : line = KeyLine(kind, k)
    OBVIOUS
  <2>2. Grows(line) /\ IsKey(line) /\ line.kind # "armed"
    BY <1>1, <1>5, <2>1, KeyMoves DEF KeyLine, IsKey
  <2>3. ASSUME NEW i \in Places', NoKeyAfter(i)' PROVE Tells(HeldModifiersAfter(Unread[i]))'
    <3>1. i = n + 1
      BY <1>4, <2>2, <2>3, GrowsSees
    <3>2. PICK m : m = HeldModifiersAfter(line)
      OBVIOUS
    <3>3. Tells(m)'
      BY <1>5, <2>1, <3>2, KeyTells
    <3>4. HeldModifiersAfter(Unread[i])' = m
      BY <1>4, <2>2, <3>1, <3>2 DEF HeldModifiersAfter
    <3> QED BY <3>3, <3>4
  <2>4. ~NoKeyAfter(0)'
    <3>1. IsKey(Unread[n + 1])'
      BY <1>4, <2>2 DEF IsKey
    <3> QED BY <1>4, <2>2, <3>1 DEF NoKeyAfter
  <2> QED BY <2>3, <2>4 DEF MaskInv
<1>6. ASSUME hook, NEW v \in Virtuals, Attach(v) PROVE MaskInv'
  <2>1. PICK line : line = [kind |-> "activelayout", from |-> v]
    OBVIOUS
  <2>2. Grows(line) /\ ~IsKey(line) /\ line.kind # "armed" /\ UNCHANGED down
    BY <1>1, <1>6, <2>1, AttachMoves DEF IsKey, Attach
  <2>3. UNCHANGED ModifiersDown
    BY <2>2 DEF ModifiersDown
  <2>4. ASSUME NEW i \in Places', Sees(i)', NoKeyAfter(i)'
        PROVE  Tells(HeldModifiersAfter(Unread[i]))'
    <3>1. i \in Places
      BY <1>3, <1>4, <2>2, <2>4, NewLineSeen
    <3>2. Sees(i) /\ NoKeyAfter(i) /\ Unread'[i] = Unread[i]
      BY <1>4, <2>2, <2>4, <3>1, GrowsSees
    <3>3. PICK x : x = HeldModifiersAfter(Unread[i])
      OBVIOUS
    <3>4. Tells(x)
      BY <1>6, <3>1, <3>2, <3>3 DEF MaskInv
    <3>5. HeldModifiersAfter(Unread[i])' = x
      BY <3>2, <3>3 DEF HeldModifiersAfter
    <3> QED BY <2>3, <3>4, <3>5 DEF Tells
  <2>5. NoKeyAfter(0)' => NoKeyAfter(0)
    BY <1>4, <2>2 DEF NoKeyAfter, IsKey
  <2>6. Tells(mask) => Tells(mask)'
    BY <1>1, <2>3 DEF Tells
  <2> QED BY <1>1, <2>4, <2>5, <2>6 DEF MaskInv
<1>7. ASSUME NEW v \in Virtuals, Detach(v) PROVE MaskInv'
  <2>1. Takes(0) /\ UNCHANGED <<down, Unread>>
    BY <1>1, <1>7, SameTakesNone DEF Detach, Unread
  <2>2. UNCHANGED <<ModifiersDown, Places>>
    BY <2>1 DEF ModifiersDown, Places
  <2>3. NoKeyAfter(0)' => NoKeyAfter(0)
    BY <2>1, <2>2 DEF NoKeyAfter, IsKey
  <2>4. Tells(mask) => Tells(mask)'
    BY <1>1, <2>2 DEF Tells
  <2> QED BY <1>1, <2>1, <2>3, <2>4, MaskTakes DEF MaskInv
<1>8. ASSUME hook, NEW k \in Keys, Press(k) \/ Release(k) PROVE MaskInv'
  BY <1>5, <1>8 DEF Press, Release
<1> QED BY <1>2, <1>6, <1>7, <1>8 DEF World

(* The session keeps MaskInv.                                              *)
LEMMA SessionMask ==
    ASSUME TypeOK, ArmedOnce, MaskInv, Session
    PROVE  MaskInv'
<1>1. CASE Install
  <2>1. Grows([kind |-> "armed"]) /\ pc' = "arming"
    BY <1>1, SessionMoves DEF Install
  <2> QED BY <2>1, ArmedHides DEF MaskInv
<1>2. ASSUME NEW m \in Nat, Takes(m), UNCHANGED <<hook, down>>, pc' # "chord"
      PROVE  MaskInv'
  BY <1>2, MaskTakes DEF MaskInv
<1>3. CASE Armed
  <2>1. PICK m \in Nat : m = ArmedAt(Unread)
    BY UnreadTyped, ArmedAtIsPlace
  <2>2. Takes(m) /\ pc' = "listen" /\ UNCHANGED <<hook, down>>
    BY <1>3, <2>1, ArmedTakes DEF Armed, worldVars
  <2> QED BY <1>2, <2>2
<1>4. \A i \in Places : i > 0
  BY UnreadTyped DEF Places
<1>5. ASSUME Unread' = Unread, UNCHANGED <<hook, down, pc, mask>> PROVE MaskInv'
  <2>1. UNCHANGED <<ModifiersDown, Places>>
    BY <1>5 DEF ModifiersDown, Places
  <2>2. NoKeyAfter(0)' => NoKeyAfter(0)
    BY <1>5, <2>1 DEF NoKeyAfter, IsKey
  <2>3. Tells(mask) => Tells(mask)'
    BY <1>5, <2>1 DEF Tells
  <2> QED BY <1>5, <2>2, <2>3, SameTakesNone, MaskTakes DEF MaskInv
<1>6. CASE ReadIncoming
  <2>1. buffer \o stream \in Seq(Lines)
    BY DEF TypeOK
  <2>2. (buffer \o stream) \o <<>> = buffer \o stream
    BY <2>1
  <2>3. Unread' = Unread /\ UNCHANGED <<hook, down, pc, mask>>
    BY <1>6, <2>2 DEF ReadIncoming, Unread, worldVars, heldVars
  <2> QED BY <1>5, <2>3
<1>7. ASSUME NEW line, line = Head(buffer), IsKey(line), pc \in {"listen", "chord"}, buffer # <<>>,
             mask' = HeldModifiersAfter(line), UNCHANGED <<hook, down>>, Takes(1)
      PROVE  MaskInv'
  <2>1. /\ 1 \in Places /\ Unread[1] = line /\ \A i \in Places : Sees(i) <=> IsKey(Unread[i])
    BY <1>7, FirstLine
  <2>2. hook
    BY <1>7 DEF ArmedOnce
  <2>3. ASSUME NoKeyAfter(0)' PROVE Tells(mask)'
    <3>1. ASSUME NEW j \in Places, j > 1 PROVE ~IsKey(Unread[j])
      <4>1. j - 1 \in Places' /\ Unread'[j - 1] = Unread[j] /\ j - 1 > 0
        BY <1>7, <3>1, TakesPlaces
      <4> QED BY <2>3, <4>1 DEF NoKeyAfter, IsKey
    <3>2. NoKeyAfter(1)
      BY <3>1 DEF NoKeyAfter
    <3>3. Tells(mask')
      BY <1>7, <2>1, <2>2, <3>2 DEF MaskInv
    <3>4. UNCHANGED ModifiersDown
      BY <1>7 DEF ModifiersDown
    <3> QED BY <3>3, <3>4 DEF Tells
  <2> QED BY <1>7, <2>3, MaskTakes DEF MaskInv
<1>8. CASE TakeLayout
  <2>1. Takes(1) /\ pc' = "listen" /\ UNCHANGED <<hook, down>>
    BY <1>8, SessionMoves DEF TakeLayout, worldVars
  <2> QED BY <1>2, <2>1
<1>9. CASE TakeKey
  <2>1. Takes(1)
    BY <1>9, SessionMoves
  <2> QED BY <1>7, <1>9, <2>1 DEF TakeKey, TracksKey, worldVars
<1>10. CASE Drain
  <2>1. Takes(1) /\ pc = "chord" /\ pc' = pc /\ buffer # <<>> /\ UNCHANGED <<hook, down>>
    BY <1>10, SessionMoves DEF Drain, worldVars
  <2>2. CASE IsKey(Head(buffer)) /\ TracksKey(Head(buffer))
    BY <1>7, <2>1, <2>2 DEF TracksKey
  <2>3. CASE Head(buffer).kind = "activelayout" /\ UNCHANGED heldVars
    <3>1. ~IsKey(Head(buffer)) /\ UNCHANGED mask /\ Unread[1] = Head(buffer)
          /\ \A i \in Places : i = 1 \/ i > 1
      BY <2>1, <2>3, FirstLine DEF IsKey, heldVars
    <3>2. ASSUME NoKeyAfter(0)', NEW j \in Places PROVE ~IsKey(Unread[j])
      <4>1. CASE j > 1
        <5>1. j - 1 \in Places' /\ Unread'[j - 1] = Unread[j] /\ j - 1 > 0
          BY <2>1, <4>1, TakesPlaces
        <5> QED BY <3>2, <5>1 DEF NoKeyAfter, IsKey
      <4> QED BY <3>1, <4>1
    <3>3. NoKeyAfter(0)' => NoKeyAfter(0)
      BY <3>2 DEF NoKeyAfter
    <3>4. Tells(mask) => Tells(mask)'
      <4>1. UNCHANGED ModifiersDown
        BY <2>1 DEF ModifiersDown
      <4> QED BY <3>1, <4>1 DEF Tells
    <3> QED BY <2>1, <3>3, <3>4, MaskTakes DEF MaskInv
  <2> QED BY <1>10, <2>2, <2>3 DEF Drain
<1>11. CASE Confirm \/ ChordTimesOut \/ CloseToStop
  <2>1. hook' = FALSE /\ pc' # "chord"
    BY <1>11 DEF Confirm, ChordTimesOut, CloseToStop
  <2> QED BY <2>1 DEF MaskInv
<1> QED BY <1>1, <1>3, <1>6, <1>8, <1>9, <1>10, <1>11 DEF Session

(* MaskInv is kept.                                                        *)
LEMMA MaskKept ==
    ASSUME TypeOK, ArmedOnce, MaskInv, [Next]_vars
    PROVE  MaskInv'
<1>1. CASE UNCHANGED vars
  <2>1. Unread' = Unread /\ UNCHANGED <<hook, down, mask, pc>>
    BY <1>1 DEF vars, worldVars, heldVars, Unread
  <2>2. UNCHANGED <<ModifiersDown, Places>>
    BY <2>1 DEF ModifiersDown, Places
  <2>3. NoKeyAfter(0)' => NoKeyAfter(0)
    BY <2>1, <2>2 DEF NoKeyAfter, IsKey
  <2>4. Tells(mask) => Tells(mask)'
    BY <2>1, <2>2 DEF Tells
  <2> QED BY <2>1, <2>3, <2>4, SameTakesNone, MaskTakes DEF MaskInv
<1> QED BY <1>1, WorldMask, SessionMask DEF Next

\* A keyboard that is attached is the source, or its announcement is unread,
\* unless the session does not have it.
KnownAreAnnounced ==
    \A v \in attached \ forgotten : source = SourceOf(v) \/ \E i \in Places : Announces(v, i)

\* The source is the keyboard's until the line at this place has been read.
SourceLasts(v, i) == source.name = v /\ (source.queued = NotDetached \/ i <= source.queued)

\* A key line has its keyboard's announcement before it, or the source.
TypedIsAnnounced(i) ==
    IsKey(Unread[i]) /\ Unread[i].from \in Virtuals \ forgotten =>
        \/ \E j \in Places : j < i /\ Announces(Unread[i].from, j)
        \/ SourceLasts(Unread[i].from, i)

SourceInv ==
    /\ KnownAreAnnounced
    /\ \A i \in Places : TypedIsAnnounced(i)

(* SourceInv is about the unread lines, the source and what is forgotten.  *)
LEMMA SourceSame ==
    ASSUME SourceInv, Unread' = Unread, UNCHANGED <<source, forgotten>>,
           attached' \subseteq attached
    PROVE  SourceInv'
BY DEF SourceInv, KnownAreAnnounced, TypedIsAnnounced, SourceLasts, Announces, IsKey, Places

\* Lines are taken that forgotten' accounts for.
LEMMA SourceTakes ==
    ASSUME TypeOK, SourceInv, NEW m \in Nat, Takes(m), UNCHANGED attached,
           \* an announcement that is taken is forgotten, or its keyboard is the source
           \A v \in Virtuals \ forgotten', i \in Places :
               i <= m /\ Announces(v, i) => source' = SourceOf(v),
           \* what the source was for, it still is
           \A v \in Virtuals \ forgotten' :
               \/ source' = SourceOf(v)
               \/ v \notin forgotten
                  /\ (source = SourceOf(v) => v \notin attached)
                  /\ \A i \in Places' : SourceLasts(v, i + m) => SourceLasts(v, i)'
    PROVE  SourceInv'
<1>1. /\ \A i \in Places' : i \in Nat /\ i > 0 /\ i + m \in Places /\ Unread'[i] = Unread[i + m]
      /\ \A j \in Places : j \in Nat /\ (j > m => j - m \in Places' /\ (j - m) + m = j)
  BY TakesPlaces
<1>2. ASSUME NEW v \in Virtuals, NEW j \in Places, j > m, Announces(v, j)
      PROVE  j - m \in Places' /\ Announces(v, j - m)'
  BY <1>1, <1>2 DEF Announces
<1>3. KnownAreAnnounced'
  <2> SUFFICES ASSUME NEW v \in attached' \ forgotten', source' # SourceOf(v)
               PROVE  \E i \in Places' : Announces(v, i)'
    BY DEF KnownAreAnnounced
  <2>1. v \in Virtuals /\ v \in attached \ forgotten
    BY DEF TypeOK
  <2>2. source # SourceOf(v)
    BY <2>1
  <2>3. PICK j \in Places : Announces(v, j)
    BY <2>1, <2>2 DEF SourceInv, KnownAreAnnounced
  <2>4. ~(j <= m)
    BY <2>1, <2>3
  <2>5. j - m \in Places' /\ Announces(v, j - m)'
    BY <1>1, <1>2, <2>1, <2>3, <2>4
  <2> QED BY <2>5
<1>4. ASSUME NEW i \in Places', NEW v \in Virtuals \ forgotten', IsKey(Unread'[i]),
             Unread'[i].from = v
      PROVE  (\E j \in Places' : j < i /\ Announces(v, j)') \/ SourceLasts(v, i)'
  <2>1. i + m \in Places /\ Unread'[i] = Unread[i + m] /\ i \in Nat
    BY <1>1
  <2>2. CASE source' = SourceOf(v)
    BY <2>2 DEF SourceLasts, SourceOf
  <2>3. CASE source' # SourceOf(v)
    <3>1. v \notin forgotten
      BY <2>3
    <3>2. (\E j \in Places : j < i + m /\ Announces(v, j)) \/ SourceLasts(v, i + m)
      BY <1>4, <2>1, <3>1 DEF SourceInv, TypedIsAnnounced
    <3>3. ASSUME NEW j \in Places, j < i + m, Announces(v, j)
          PROVE  \E e \in Places' : e < i /\ Announces(v, e)'
      <4>1. ~(j <= m)
        BY <2>3, <3>3
      <4>2. j > m /\ j - m < i
        BY <1>1, <2>1, <3>3, <4>1
      <4>3. j - m \in Places' /\ Announces(v, j - m)'
        BY <1>2, <3>3, <4>2
      <4> QED BY <4>2, <4>3
    <3>4. SourceLasts(v, i + m) => SourceLasts(v, i)'
      BY <2>3
    <3> QED BY <3>2, <3>3, <3>4
  <2> QED BY <2>2, <2>3
<1>5. \A i \in Places' : TypedIsAnnounced(i)'
  BY <1>4 DEF TypedIsAnnounced, IsKey
<1> QED BY <1>3, <1>5 DEF SourceInv

\* A keyboard is not unplugged while its key is down.
DownAreAttached == \A k \in down : k[1] \in attached \cup {Physical}

(* DownAreAttached is kept.                                                *)
LEMMA DownKept ==
    ASSUME TypeOK, DownAreAttached, [Next]_vars
    PROVE  DownAreAttached'
<1>1. CASE UNCHANGED vars
  BY <1>1 DEF vars, worldVars, DownAreAttached
<1>2. CASE Session
  <2>1. UNCHANGED <<down, attached>>
    BY <1>2 DEF Session, Install, Armed, ReadIncoming, TakeLayout, TakeKey, Drain, Confirm,
                ChordTimesOut, CloseToStop, worldVars
  <2> QED BY <2>1 DEF DownAreAttached
<1>3. ASSUME NEW k \in Keys, Press(k) \/ Release(k) PROVE DownAreAttached'
  BY <1>3 DEF Press, Release, DownAreAttached
<1>4. ASSUME NEW v \in Virtuals, Attach(v) PROVE DownAreAttached'
  BY <1>4 DEF Attach, DownAreAttached
<1>5. ASSUME NEW v \in Virtuals, Detach(v) PROVE DownAreAttached'
  <2>1. ASSUME NEW k \in down PROVE k[1] # v
    <3>1. k \in Keys
      BY DEF TypeOK
    <3>2. k = <<k[1], k[2]>> /\ (k[1] \in Virtuals => k[2] = "letter")
      BY <3>1, KeyAssumption DEF Keys
    <3> QED BY <1>5, <3>2 DEF Detach
  <2> QED BY <1>5, <2>1 DEF Detach, DownAreAttached
<1> QED BY <1>1, <1>2, <1>3, <1>4, <1>5 DEF Next, World

(* A new line keeps SourceInv if its keyboard is attached.                 *)
LEMMA SourceGrows ==
    ASSUME TypeOK, SourceInv, NEW line \in Lines, Grows(line), UNCHANGED <<source, forgotten>>,
           attached' \subseteq attached \/ (\E v \in Virtuals : line = [kind |-> "activelayout", from |-> v]
                                                /\ attached' = attached \cup {v}),
           IsKey(line) => line.from \in attached \cup {Physical}
    PROVE  SourceInv'
<1>1. PICK n \in Nat : n = Len(Unread)
  BY UnreadTyped
<1>2. /\ Places' = Places \cup {n + 1} /\ Unread'[n + 1] = line
      /\ \A j \in Places : j < n + 1 /\ Unread'[j] = Unread[j]
  BY <1>1, GrowsPlaces
<1>3. \A v : \A j \in Places : Announces(v, j)' <=> Announces(v, j)
  BY <1>2 DEF Announces
<1>4. KnownAreAnnounced'
  <2> SUFFICES ASSUME NEW v \in attached' \ forgotten'
               PROVE  source' = SourceOf(v) \/ \E i \in Places' : Announces(v, i)'
    BY DEF KnownAreAnnounced
  <2>1. CASE v \in attached
    BY <1>2, <1>3, <2>1 DEF SourceInv, KnownAreAnnounced
  <2>2. CASE v \notin attached
    <3>1. line = [kind |-> "activelayout", from |-> v]
      BY <2>2
    <3>2. Announces(v, n + 1)' /\ n + 1 \in Places'
      BY <1>2, <3>1 DEF Announces
    <3> QED BY <3>2
  <2> QED BY <2>1, <2>2
<1>5. ASSUME NEW i \in Places PROVE TypedIsAnnounced(i)'
  <2>1. TypedIsAnnounced(i) /\ Unread'[i] = Unread[i]
    BY <1>2 DEF SourceInv
  <2>2. ASSUME NEW v PROVE SourceLasts(v, i)' <=> SourceLasts(v, i)
    BY DEF SourceLasts
  <2> QED BY <1>2, <1>3, <2>1, <2>2 DEF TypedIsAnnounced, IsKey
<1>6. TypedIsAnnounced(n + 1)'
  <2> SUFFICES ASSUME NEW v \in Virtuals \ forgotten, IsKey(line), line.from = v
               PROVE  (\E j \in Places' : j < n + 1 /\ Announces(v, j)') \/ SourceLasts(v, n + 1)'
    BY <1>2 DEF TypedIsAnnounced, IsKey
  <2>1. v \in attached \ forgotten
    BY KeyAssumption
  <2>2. CASE source = SourceOf(v)
    BY <2>2 DEF SourceLasts, SourceOf
  <2>3. ASSUME NEW j \in Places, Announces(v, j)
        PROVE  j \in Places' /\ j < n + 1 /\ Announces(v, j)'
    BY <1>2, <1>3, <2>3
  <2> QED BY <2>1, <2>2, <2>3 DEF SourceInv, KnownAreAnnounced
<1> QED BY <1>2, <1>4, <1>5, <1>6 DEF SourceInv

(* The keyboards keep SourceInv.                                           *)
LEMMA WorldSource ==
    ASSUME TypeOK, DownAreAttached, SourceInv, World
    PROVE  SourceInv'
<1>1. UNCHANGED <<buffer, source, forgotten>>
  BY DEF World
<1>2. ASSUME NEW k \in Keys, NEW kind \in {"press", "release"}, KeyEmits(kind, k),
             k[1] \in attached \cup {Physical}, UNCHANGED attached
      PROVE  SourceInv'
  <2>1. CASE hook
    <3>1. PICK line \in Lines : line = KeyLine(kind, k)
      BY <1>1, <1>2, KeyMoves
    <3>2. Grows(line) /\ line.from \in attached \cup {Physical}
      BY <1>1, <1>2, <2>1, <3>1, KeyMoves DEF KeyLine
    <3> QED BY <1>1, <1>2, <3>2, SourceGrows
  <2>2. CASE ~hook
    BY <1>1, <1>2, <2>2, SourceSame DEF KeyEmits, Unread
  <2> QED BY <2>1, <2>2
<1>3. ASSUME NEW k \in Keys, Press(k) PROVE SourceInv'
  BY <1>2, <1>3 DEF Press
<1>4. ASSUME NEW k \in Keys, Release(k) PROVE SourceInv'
  BY <1>2, <1>4 DEF Release, DownAreAttached
<1>5. ASSUME NEW v \in Virtuals, Attach(v) PROVE SourceInv'
  <2>1. PICK line \in Lines : line = [kind |-> "activelayout", from |-> v]
    BY DEF Lines
  <2>2. Grows(line) /\ ~IsKey(line) /\ attached' = attached \cup {v}
    BY <1>1, <1>5, <2>1, AttachMoves DEF Attach, IsKey
  <2> QED BY <1>1, <2>1, <2>2, SourceGrows
<1>6. ASSUME NEW v \in Virtuals, Detach(v) PROVE SourceInv'
  BY <1>1, <1>6, SourceSame DEF Detach, Unread
<1> QED BY <1>3, <1>4, <1>5, <1>6 DEF World

-----------------------------------------------------------------------------
(* What becomes of the source when a key line is read.                     *)
LEMMA SourceFields ==
    ASSUME TypeOK
    PROVE  /\ source = NoSource \/ (source.name \in Virtuals /\ source = [name |-> source.name, queued |-> source.queued])
           /\ source.queued = NotDetached \/ source.queued \in Nat
           /\ \A v \in Virtuals : v # NoSource.name
           /\ \A v \in Virtuals : source.name = v => source # NoSource
<1>1. \A v \in Virtuals : v # NoSource.name
  BY KeyAssumption DEF NoSource
<1>2. \A v \in Virtuals : source.name = v => source # NoSource
  BY <1>1
<1>3. source = NoSource \/ (source.name \in Virtuals /\ source = [name |-> source.name, queued |-> source.queued])
  BY DEF TypeOK
<1>4. source.queued = NotDetached \/ source.queued \in Nat
  BY DEF TypeOK, NoSource
<1> QED BY <1>1, <1>2, <1>3, <1>4

(* What consumed leaves of the source of a keyboard.                       *)
LEMMA ConsumedIs ==
    ASSUME TypeOK, NEW v \in Virtuals, source.name = v
    PROVE  /\ Consumed.name = v
           /\ source.queued = NotDetached => Consumed = SourceOf(v)
           /\ source.queued = 0 => Consumed.queued = 0
           /\ source.queued \in Nat /\ source.queued > 0 => Consumed.queued = source.queued - 1
<1>1. source = [name |-> v, queued |-> source.queued]
  BY SourceFields
<1>2. source.queued = NotDetached => ~(source.queued > 0)
  BY DEF NotDetached
<1>3. /\ Consumed.name = v
      /\ Consumed.queued = IF source.queued > 0 THEN source.queued - 1 ELSE source.queued
      /\ Consumed = [name |-> v, queued |-> IF source.queued > 0 THEN source.queued - 1 ELSE source.queued]
  BY <1>1 DEF Consumed
<1> QED BY <1>1, <1>2, <1>3 DEF SourceOf

(* After one line, the source lasts one line less.                         *)
LEMMA ConsumedLasts ==
    ASSUME TypeOK, NEW v \in Virtuals, NEW i \in Nat, i > 0, SourceLasts(v, i + 1)
    PROVE  /\ Consumed.name = v
           /\ Consumed = SourceOf(v) \/ (Consumed.queued \in Nat /\ i <= Consumed.queued)
<1>1. source.name = v
  BY DEF SourceLasts
<1>2. CASE source.queued = NotDetached
  BY <1>1, <1>2, ConsumedIs
<1>3. CASE source.queued \in Nat
  <2>1. i + 1 <= source.queued
    BY <1>3 DEF SourceLasts, NotDetached
  <2>2. source.queued > 0 /\ source.queued - 1 \in Nat /\ i <= source.queued - 1
    BY <1>3, <2>1
  <2> QED BY <1>1, <1>3, <2>2, ConsumedIs
<1> QED BY <1>2, <1>3, SourceFields

(* The source of a keyboard that has left lasts as long as its lines.      *)
LEMMA DecodedLasts ==
    ASSUME TypeOK, buffer # <<>>, NEW line, NEW answered \in BOOLEAN, Decodes(line, answered),
           NEW v \in Virtuals
    PROVE  \/ source' = SourceOf(v)
           \/ /\ source = SourceOf(v) => v \notin attached
              /\ \A i \in 1 .. Len(Unread) - 1 : SourceLasts(v, i + 1) => SourceLasts(v, i)'
<1> DEFINE n == Len(Tail(buffer) \o stream)
           current == IF answered THEN OnInventory(Consumed, n) ELSE Consumed
<1>1. source' = Settled(current)
  BY DEF Decodes
<1>2. n = Len(Unread) - 1 /\ n \in Nat
  BY TailOfUnread, UnreadTyped
<1> HIDE DEF n
<1>3. CASE source.name # v
  BY <1>3 DEF SourceLasts, SourceOf
<1>4. CASE source.name = v /\ source.queued = NotDetached
  <2>1. Consumed = SourceOf(v) /\ source = SourceOf(v)
    BY <1>4, ConsumedIs, SourceFields DEF SourceOf
  <2>2. Consumed # NoSource
    BY <2>1, SourceFields DEF SourceOf, NoSource
  <2>3. CASE answered /\ HasLeft(Consumed)
    <3>1. current = [name |-> v, queued |-> n]
      BY <2>1, <2>3 DEF OnInventory, SourceOf
    <3>2. v \notin attached
      BY <2>1, <2>3 DEF HasLeft, SourceOf
    <3>3. ASSUME NEW i \in 1 .. n PROVE SourceLasts(v, i)'
      <4>1. n # 0
        BY <1>2, <3>3
      <4>2. source' = [name |-> v, queued |-> n]
        BY <1>1, <3>1, <4>1 DEF Settled
      <4> QED BY <1>2, <3>3, <4>2 DEF SourceLasts
    <3> QED BY <1>2, <3>2, <3>3
  <2>4. CASE ~(answered /\ HasLeft(Consumed))
    <3>1. current = SourceOf(v)
      BY <2>1, <2>2, <2>4 DEF OnInventory
    <3>2. source' = SourceOf(v)
      BY <1>1, <3>1 DEF Settled, SourceOf, NotDetached
    <3> QED BY <3>2
  <2> QED BY <2>3, <2>4
<1>5. CASE source.name = v /\ source.queued \in Nat
  <2>1. source # SourceOf(v)
    BY <1>5 DEF SourceOf, NotDetached
  <2>2. Consumed.name = v /\ Consumed.queued \in Nat
    <3>1. source.queued = 0 \/ (source.queued > 0 /\ source.queued - 1 \in Nat)
      BY <1>5
    <3> QED BY <1>5, <3>1, ConsumedIs
  <2>3. current = Consumed
    <3>1. ~HasLeft(Consumed)
      BY <2>2 DEF HasLeft, NotDetached
    <3>2. Consumed # NoSource
      BY <2>2, SourceFields
    <3> QED BY <3>1, <3>2 DEF OnInventory
  <2>4. ASSUME NEW i \in 1 .. n, SourceLasts(v, i + 1) PROVE SourceLasts(v, i)'
    <3>1. i \in Nat /\ i > 0
      BY <1>2, <2>4
    <3>2. Consumed = SourceOf(v) \/ (Consumed.queued \in Nat /\ i <= Consumed.queued)
      BY <2>4, <3>1, ConsumedLasts
    <3>3. i <= Consumed.queued
      BY <2>2, <3>2 DEF SourceOf, NotDetached
    <3>4. Consumed.queued # 0
      BY <3>1, <3>3
    <3>5. source' = Consumed
      BY <1>1, <2>3, <3>4 DEF Settled
    <3> QED BY <2>2, <3>3, <3>5 DEF SourceLasts
  <2> QED BY <1>2, <2>1, <2>4
<1> QED BY <1>3, <1>4, <1>5, SourceFields

\* Taking an announcement.
LEMMA NoticedSource ==
    ASSUME TypeOK, ArmedOnce, SourceInv, pc # "arming", buffer # <<>>,
           Head(buffer).kind = "activelayout", Noticed(Head(buffer)), Takes(1),
           UNCHANGED attached
    PROVE  SourceInv'
<1> DEFINE line == Head(buffer)
<1>1. /\ 1 \in Places /\ Unread[1] = line /\ line \in Lines
      /\ \A i \in Places : i <= 1 => i = 1
  BY FirstLine
<1>2. line.from \in Virtuals
  BY <1>1, LayoutLineTyped
<1>3. source' = SourceOf(line.from)
      /\ forgotten' = (forgotten \cup ({source.name} \cap Virtuals)) \ {line.from}
  BY DEF Noticed
<1> HIDE DEF line
<1>4. \A v \in Virtuals \ forgotten', i \in Places :
          i <= 1 /\ Announces(v, i) => source' = SourceOf(v)
  BY <1>1, <1>3 DEF Announces
<1>5. ASSUME NEW v \in Virtuals \ forgotten', source' # SourceOf(v)
      PROVE  /\ v \notin forgotten /\ source # SourceOf(v)
             /\ \A i \in Places' : ~SourceLasts(v, i + 1)
  <2>1. v \notin forgotten /\ source.name # v
    BY <1>3, <1>5
  <2> QED BY <2>1 DEF SourceLasts, SourceOf
<1> QED BY <1>4, <1>5, SourceTakes

(* Taking a key line keeps SourceInv if the source lasts.                  *)
LEMMA KeyTakes ==
    ASSUME TypeOK, ArmedOnce, SourceInv, pc # "arming", buffer # <<>>, IsKey(Head(buffer)),
           Takes(1), UNCHANGED <<attached, forgotten>>,
           \A v \in Virtuals :
               \/ source' = SourceOf(v)
               \/ /\ source = SourceOf(v) => v \notin attached
                  /\ \A i \in 1 .. Len(Unread) - 1 : SourceLasts(v, i + 1) => SourceLasts(v, i)'
    PROVE  SourceInv'
<1>1. /\ Unread[1] = Head(buffer) /\ \A i \in Places : i <= 1 => i = 1
  BY FirstLine
<1>2. \A v : \A i \in Places : i <= 1 => ~Announces(v, i)
  BY <1>1 DEF Announces, IsKey
<1>3. Places' = 1 .. Len(Unread) - 1
  BY DEF Takes, Places
<1> QED BY <1>2, <1>3, SourceTakes

(* The session keeps SourceInv.                                            *)
LEMMA SessionSource ==
    ASSUME TypeOK, ArmedOnce, SourceInv, Session
    PROVE  SourceInv'
<1>1. CASE Install
  <2>1. PICK line \in Lines : line = [kind |-> "armed"]
    BY DEF Lines
  <2>2. Grows(line) /\ ~IsKey(line)
    BY <1>1, <2>1, SessionMoves DEF IsKey
  <2>3. UNCHANGED <<source, forgotten, attached>>
    BY <1>1 DEF Install, worldVars
  <2> QED BY <2>2, <2>3, SourceGrows
<1>2. CASE Armed
  <2>1. PICK m \in Nat : m = ArmedAt(Unread)
    BY UnreadTyped, ArmedAtIsPlace
  <2>2. Takes(m) /\ UNCHANGED <<attached, source>>
    BY <1>2, <2>1, ArmedTakes DEF Armed, worldVars
  <2>3. forgotten' = forgotten \cup Announced(SubSeq(Unread, 1, m))
    BY <1>2, <2>1 DEF Armed, ArmedAt, Unread
  <2>4. ASSUME NEW v \in Virtuals, NEW i \in Places, i <= m, Announces(v, i)
        PROVE  v \in forgotten'
    <3>1. m <= Len(Unread) /\ Len(Unread) \in Nat /\ Unread \in Seq(Lines)
      BY <2>2, UnreadTyped DEF Takes
    <3>2. i \in 1 .. m /\ \A j \in 1 .. m : Unread[j] \in Lines
      BY <2>4, <3>1 DEF Places
    <3>3. Len(SubSeq(Unread, 1, m)) = m /\ SubSeq(Unread, 1, m)[i] = Unread[i]
      BY <3>1, <3>2, SubSeqProperties
    <3>4. Unread[i] \in ToSet(SubSeq(Unread, 1, m))
      <4>1. SubSeq(Unread, 1, m) \in Seq(Lines)
        BY <3>1, <3>2, SubSeqProperties
      <4>2. i \in DOMAIN SubSeq(Unread, 1, m)
        BY <3>2, <3>3, <4>1
      <4> QED BY <3>3, <4>2 DEF ToSet
    <3>5. Unread[i] = [kind |-> "activelayout", from |-> v]
      <4>1. Unread[i] \in Lines
        BY <3>1, <2>4 DEF Places
      <4> QED BY <2>4, <4>1 DEF Announces, Lines
    <3> QED BY <2>3, <3>4, <3>5 DEF Announced
  <2>5. ASSUME NEW v \in Virtuals \ forgotten', source' # SourceOf(v)
        PROVE  /\ v \notin forgotten /\ source # SourceOf(v)
               /\ \A i \in Places' : SourceLasts(v, i + m) => SourceLasts(v, i)'
    <3>1. v \notin forgotten /\ source # SourceOf(v)
      BY <2>2, <2>3, <2>5
    <3>2. ASSUME NEW i \in Places', SourceLasts(v, i + m) PROVE SourceLasts(v, i)'
      <4>1. i \in Nat
        BY <2>2, TakesPlaces
      <4>2. source.queued = NotDetached \/ source.queued \in Nat
        BY SourceFields
      <4>3. source.queued \in Nat /\ i + m <= source.queued => i <= source.queued
        BY <4>1
      <4> QED BY <2>2, <3>2, <4>2, <4>3 DEF SourceLasts
    <3> QED BY <3>1, <3>2
  <2> QED BY <2>2, <2>4, <2>5, SourceTakes
<1>3. CASE ReadIncoming \/ Confirm \/ ChordTimesOut \/ CloseToStop
  <2>1. buffer \o stream \in Seq(Lines)
    BY DEF TypeOK
  <2>2. (buffer \o stream) \o <<>> = buffer \o stream
    BY <2>1
  <2>3. Unread' = Unread
    BY <1>3, <2>2 DEF ReadIncoming, Confirm, ChordTimesOut, CloseToStop, Unread
  <2>4. UNCHANGED <<source, forgotten, attached>>
    BY <1>3 DEF ReadIncoming, Confirm, ChordTimesOut, CloseToStop, worldVars
  <2> QED BY <2>3, <2>4, SourceSame
<1>4. CASE TakeLayout
  <2>1. Takes(1)
    BY <1>4, SessionMoves
  <2> QED BY <1>4, <2>1, NoticedSource DEF TakeLayout, worldVars
<1>5. CASE TakeKey
  <2>1. Takes(1)
    BY <1>5, SessionMoves
  <2>2. PICK answered \in BOOLEAN : Decodes(Head(buffer), answered)
    BY <1>5 DEF TakeKey
  <2>3. pc # "arming" /\ buffer # <<>> /\ IsKey(Head(buffer)) /\ UNCHANGED <<attached, forgotten>>
    BY <1>5 DEF TakeKey, worldVars
  <2> QED BY <2>1, <2>2, <2>3, DecodedLasts, KeyTakes
<1>6. CASE Drain
  <2>1. Takes(1) /\ pc # "arming" /\ buffer # <<>> /\ UNCHANGED attached
    BY <1>6, SessionMoves DEF Drain, worldVars
  <2>2. CASE Head(buffer).kind = "activelayout" /\ Noticed(Head(buffer))
    BY <2>1, <2>2, NoticedSource
  <2>3. CASE IsKey(Head(buffer)) /\ source' = Consumed /\ UNCHANGED forgotten
    <3>1. ASSUME NEW v \in Virtuals, source' # SourceOf(v)
          PROVE  /\ source # SourceOf(v)
                 /\ \A i \in 1 .. Len(Unread) - 1 : SourceLasts(v, i + 1) => SourceLasts(v, i)'
      <4>1. source # SourceOf(v)
        BY <2>3, <3>1, ConsumedIs DEF SourceOf
      <4>2. ASSUME NEW i \in 1 .. Len(Unread) - 1, SourceLasts(v, i + 1) PROVE SourceLasts(v, i)'
        <5>1. i \in Nat /\ i > 0
          BY UnreadTyped
        <5>2. Consumed.name = v /\ i <= Consumed.queued
          BY <2>3, <3>1, <4>2, <5>1, ConsumedLasts
        <5> QED BY <2>3, <5>2 DEF SourceLasts
      <4> QED BY <4>1, <4>2
    <3> QED BY <2>1, <2>3, <3>1, KeyTakes
  <2> QED BY <1>6, <2>2, <2>3 DEF Drain
<1> QED BY <1>1, <1>2, <1>3, <1>4, <1>5, <1>6 DEF Session

(* SourceInv is kept.                                                      *)
LEMMA SourceKept ==
    ASSUME TypeOK, ArmedOnce, DownAreAttached, SourceInv, [Next]_vars
    PROVE  SourceInv'
<1>1. CASE UNCHANGED vars
  BY <1>1, SourceSame DEF vars, worldVars, Unread
<1> QED BY <1>1, WorldSource, SessionSource DEF Next

\* A key is decoded with a source, if its keyboard was announced.
LEMMA ReadKept ==
    ASSUME TypeOK, ArmedOnce, SourceInv, ForeignIsNotMisread, [Next]_vars
    PROVE  ForeignIsNotMisread'
<1>1. CASE TakeKey
  <2> DEFINE line == Head(buffer)
             v == line.from
             n == Len(Tail(buffer) \o stream)
  <2>1. PICK answered \in BOOLEAN : Decodes(line, answered)
    BY <1>1 DEF TakeKey
  <2>2. 1 \in Places /\ Unread[1] = line /\ IsKey(line)
        /\ \A i \in Places : ~(i < 1)
    <3>1. pc # "arming" /\ buffer # <<>> /\ IsKey(line)
      BY <1>1 DEF TakeKey
    <3>2. \A i \in Places : ~(i < 1)
      BY UnreadTyped DEF Places
    <3> QED BY <3>1, <3>2, FirstLine
  <2>3. ASSUME v \in Virtuals, v \notin forgotten
        PROVE  (IF answered THEN OnInventory(Consumed, n) ELSE Consumed) # NoSource
    <3>1. source.name = v
      BY <2>2, <2>3 DEF SourceInv, TypedIsAnnounced, SourceLasts
    <3>2. Consumed.name = v
      BY <2>3, <3>1, ConsumedIs
    <3>3. v # NoSource.name /\ v # "none"
      BY <2>3, SourceFields DEF NoSource
    <3>4. Consumed # NoSource
      BY <3>2, <3>3
    <3>5. HasLeft(Consumed) => Consumed = SourceOf(v)
      <4>1. source.queued \in Nat => Consumed.queued # NotDetached
        <5>1. source.queued \in Nat => source.queued = 0 \/ (source.queued > 0 /\ source.queued - 1 \in Nat)
          OBVIOUS
        <5> QED BY <2>3, <3>1, <5>1, ConsumedIs DEF NotDetached
      <4> QED BY <2>3, <3>1, <4>1, ConsumedIs, SourceFields DEF HasLeft
    <3>6. HasLeft(Consumed) => OnInventory(Consumed, n) # NoSource
      BY <3>3, <3>5 DEF OnInventory, SourceOf, NoSource
    <3>7. ~HasLeft(Consumed) => OnInventory(Consumed, n) = Consumed
      BY <3>4 DEF OnInventory
    <3> QED BY <3>4, <3>6, <3>7
  <2> QED BY <2>1, <2>3 DEF Decodes, ForeignIsNotMisread
<1>2. CASE ~TakeKey
  BY <1>2 DEF Next, World, Session, Install, Armed, ReadIncoming, TakeLayout, Drain, Confirm,
              ChordTimesOut, CloseToStop, vars, ForeignIsNotMisread
<1> QED BY <1>1, <1>2

-----------------------------------------------------------------------------
(* The theorems.                                                           *)
\* All of it.
KeyInv ==
    /\ TypeOK
    /\ ArmedOnce
    /\ HeldInv
    /\ MaskInv
    /\ DownAreAttached
    /\ SourceInv
    /\ ForeignIsNotMisread

(* The invariant holds at connect.                                         *)
LEMMA InitKey == Init => KeyInv
<1> SUFFICES ASSUME Init PROVE KeyInv
  OBVIOUS
<1>1. TypeOK
  BY InitTyped
<1>2. Unread = <<>> /\ Places = {} /\ hook = FALSE /\ pc = "closed" /\ held = {} /\ down = {}
      /\ misread = {}
  <2>1. Unread = <<>>
    BY DEF Init, Unread
  <2>2. Len(Unread) = 0
    BY <2>1
  <2> QED BY <2>1, <2>2 DEF Init, Places
<1>3. ArmedOnce /\ HeldInv /\ MaskInv /\ DownAreAttached /\ ForeignIsNotMisread
  BY <1>2 DEF ArmedOnce, HeldInv, PressedAreDown, MaskInv, DownAreAttached, ForeignIsNotMisread
<1>4. SourceInv
  <2>1. ASSUME NEW v \in attached \ forgotten PROVE source = SourceOf(v)
    <3>1. v = lastUsed /\ v \in Virtuals
      BY <2>1 DEF Init
    <3> QED BY <3>1 DEF Init, MainIfForeign
  <2> QED BY <1>2, <2>1 DEF SourceInv, KnownAreAnnounced
<1> QED BY <1>1, <1>3, <1>4 DEF KeyInv

(* Every step keeps the invariant.                                         *)
LEMMA KeyStep == KeyInv /\ [Next]_vars => KeyInv'
BY StepTyped, ArmedOnceKept, HeldKept, MaskKept, DownKept, SourceKept, ReadKept DEF KeyInv

(* The inductive invariant.                                                *)
THEOREM KeyInvHolds == Spec => []KeyInv
BY InitKey, KeyStep, PTL DEF Spec

(* next_observed_event and KeyboardSources: however keyboards come, type   *)
(* and leave, a virtual keyboard's key is read with the physical layout    *)
(* only if the session does not have the keyboard's announcement.          *)
THEOREM ForeignReadAsItself == Spec => []ForeignIsNotMisread
<1>1. KeyInv => ForeignIsNotMisread
  BY DEF KeyInv
<1> QED BY <1>1, KeyInvHolds, PTL

(* With nothing unread there is no key line left.                          *)
LEMMA NothingUnread ==
    ASSUME buffer \o stream = <<>>
    PROVE  Places = {} /\ NoKeyAfter(0)
<1>1. Len(Unread) = 0
  BY DEF Unread
<1> QED BY <1>1 DEF Places, NoKeyAfter

(* chord_release_confirmed: with all keys up and every line read the keys  *)
(* the session believes held are those it believed held when the hook was  *)
(* last removed, and its mask is empty: the wait can end.                  *)
THEOREM NothingHeld == Spec => []NothingStaysHeld
<1>1. KeyInv => NothingStaysHeld
  <2> SUFFICES ASSUME KeyInv, "altgr" \notin Codes, pc = "chord", buffer \o stream = <<>>, down = {}
               PROVE  held \subseteq stranded /\ mask = {}
    BY DEF NothingStaysHeld
  <2>1. Places = {} /\ NoKeyAfter(0) /\ hook
    BY NothingUnread DEF KeyInv, ArmedOnce
  <2>2. held \subseteq stranded
    BY <2>1 DEF KeyInv, HeldInv, HasReason
  <2>3. mask = ModifiersDown
    BY <2>1 DEF KeyInv, MaskInv, Tells
  <2>4. ModifiersDown = {}
    BY DEF ModifiersDown
  <2> QED BY <2>2, <2>3, <2>4
<1> QED BY <1>1, KeyInvHolds, PTL

(* A confirmation with nothing unread comes when no modifier is down: what *)
(* is lost is never a modifier that is still held, whatever was pressed    *)
(* before the hook was installed and however lines were late.              *)
THEOREM ModifiersUp == Spec => ModifiersAreUp
<1>1. KeyInv /\ [Next]_vars =>
          [pc = "chord" /\ pc' = "closed" /\ stream = <<>> => ModifiersDown = {}]_vars
  <2> SUFFICES ASSUME KeyInv, Next, pc = "chord", pc' = "closed", stream = <<>>
               PROVE  ModifiersDown = {}
    OBVIOUS
  <2>1. Confirm
    BY DEF Next, World, Session, Install, Armed, ReadIncoming, TakeLayout, TakeKey, Drain,
           ChordTimesOut, CloseToStop
  <2>2. mask = {} /\ buffer \o stream = <<>>
    BY <2>1 DEF Confirm, ChordReleaseConfirmed
  <2>3. Tells(mask)
    BY <2>2, NothingUnread DEF KeyInv, MaskInv
  <2> QED BY <2>2, <2>3 DEF Tells
<1> QED BY <1>1, KeyInvHolds, PTL DEF Spec, ModifiersAreUp

=============================================================================
