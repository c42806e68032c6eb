----------------------------- MODULE TerminalProofs -----------------------------
(***************************************************************************)
(* What holds of the way of a key for any length of the configurations and *)
(* of the sequences: a definite verdict of the remappers, of the terminal  *)
(* and its TTY, and of a multiplexer, is what becomes of the key.          *)
(***************************************************************************)
EXTENDS MCTerminal, FiniteSetTheorems, SequenceTheorems, TLAPS

-----------------------------------------------------------------------------
(* Folds over sequences, by induction over the positions. *)
\* What holds of 0 and passes from a number to the next one holds of all numbers.
LEMMA AllNaturals ==
    ASSUME NEW S, 0 \in S, \A n \in Nat : n \in S => n + 1 \in S
    PROVE  Nat \subseteq S
<1> DEFINE R == {p \in Nat \X Nat : p[1] < p[2]}
           T == Nat \ S
<1>1. IsWellFoundedOn(R, Nat)
  <2>1. IsWellFoundedOn(OpToRel(<, Nat), Nat)
    BY NatLessThanWellFounded
  <2> QED BY <2>1 DEF OpToRel
<1>2. SUFFICES ASSUME T # {} PROVE FALSE
  BY <1>2
<1>3. PICK x \in T : \A y \in T : ~ (<<y, x>> \in R)
  <2>1. T \subseteq Nat
    OBVIOUS
  <2> HIDE DEF R, T
  <2> QED BY <1>1, <1>2, <2>1, WFMin
<1>4. x \in Nat /\ x # 0 /\ x - 1 \in Nat /\ (x - 1) + 1 = x /\ x - 1 < x
  OBVIOUS
<1>5. x - 1 \notin T
  BY <1>3, <1>4
<1> QED BY <1>4, <1>5

\* The greatest of a set of numbers is its greatest element.
LEMMA MaxIs ==
    ASSUME NEW t \in SUBSET Nat, NEW m \in t, \A y \in t : y <= m
    PROVE  Max(t) = m
<1>1. \E x \in t : \A y \in t : x >= y
  OBVIOUS
<1>2. Max(t) \in t /\ \A y \in t : Max(t) >= y
  BY <1>1 DEF Max
<1>3. Max(t) \in Nat /\ m \in Nat /\ Max(t) <= m /\ Max(t) >= m
  BY <1>2
<1> QED BY <1>3

\* A set of positions has a greatest one.
LEMMA MaxIn ==
    ASSUME NEW N \in Nat, NEW t \in SUBSET (1 .. N), t # {}
    PROVE  Max(t) \in t
<1> DEFINE S == {n \in Nat : \A u \in SUBSET (1 .. n) : u # {} => Max(u) \in u}
<1>1. 0 \in S
  <2>1. 1 .. 0 = {}
    OBVIOUS
  <2> QED BY <2>1
<1>2. ASSUME NEW n \in Nat, n \in S PROVE n + 1 \in S
  <2>1. \A u \in SUBSET (1 .. n) : u # {} => Max(u) \in u
    BY <1>2
  <2>2. ASSUME NEW u \in SUBSET (1 .. n + 1), u # {} PROVE Max(u) \in u
    <3>1. CASE n + 1 \in u
      <4>1. u \in SUBSET Nat /\ \A y \in u : y <= n + 1
        OBVIOUS
      <4>2. Max(u) = n + 1
        BY <3>1, <4>1, MaxIs
      <4> QED BY <3>1, <4>2
    <3>2. CASE n + 1 \notin u
      <4>1. u \in SUBSET (1 .. n)
        BY <3>2
      <4> QED BY <2>1, <2>2, <4>1
    <3> QED BY <3>1, <3>2
  <2> QED BY <2>2
<1>3. Nat \subseteq S
  <2> HIDE DEF S
  <2> QED BY <1>1, <1>2, AllNaturals
<1> QED BY <1>3

\* A step op of N positions that keeps to the set A.
Foldable(A, base, op, N) == N \in Nat /\ base \in A /\ op \in [A \X (1 .. N) -> A]

\* f solves the recursion of FoldLeft over N positions.
Solved(f, A, base, op, N) ==
    /\ f \in [SUBSET (1 .. N) -> A]
    /\ f = [t \in SUBSET (1 .. N) |-> IF t = {} THEN base ELSE op[<<f[t \ {Max(t)}], Max(t)>>]]

\* The recursion of FoldLeft, on the sets of positions of a sequence, has a solution.
LEMMA FoldExists ==
    ASSUME NEW N, NEW A, NEW base, NEW op, Foldable(A, base, op, N)
    PROVE  \E f : Solved(f, A, base, op, N)
<1>0. N \in Nat /\ base \in A /\ op \in [A \X (1 .. N) -> A]
  BY DEF Foldable
<1> USE <1>0
<1> DEFINE Solves(f, n) == \A t \in SUBSET (1 .. n) :
               f[t] = IF t = {} THEN base ELSE op[<<f[t \ {Max(t)}], Max(t)>>]
           Good(n) == /\ \A t \in SUBSET (1 .. n) : t # {} => Max(t) \in t
                      /\ \E f \in [SUBSET (1 .. n) -> A] : Solves(f, n)
           S == {n \in Nat : n <= N => Good(n)}
<1>1. 0 \in S
  <2>1. SUBSET (1 .. 0) = {{}}
    OBVIOUS
  <2>2. [t \in SUBSET (1 .. 0) |-> base] \in [SUBSET (1 .. 0) -> A]
        /\ Solves([t \in SUBSET (1 .. 0) |-> base], 0)
    BY <2>1
  <2> QED BY <2>1, <2>2
<1>2. ASSUME NEW n \in Nat, n \in S PROVE n + 1 \in S
  <2> HIDE DEF Good
  <2>1. SUFFICES ASSUME n + 1 <= N PROVE Good(n + 1)
    OBVIOUS
  <2>0. Good(n)
    BY <1>2, <2>1
  <2> USE DEF Good
  <2> HIDE DEF Solves
  <2>2. PICK f \in [SUBSET (1 .. n) -> A] : Solves(f, n)
    BY <2>0
  <2>3. \A t \in SUBSET (1 .. n) : t # {} => Max(t) \in t
    BY <2>0
  <2> USE DEF Solves
  <2>4. \A t \in SUBSET (1 .. n + 1) : n + 1 \in t => Max(t) = n + 1
    <3>1. TAKE t \in SUBSET (1 .. n + 1)
    <3>2. HAVE n + 1 \in t
    <3> QED BY <3>2, MaxIs
  <2>5. \A t \in SUBSET (1 .. n + 1) : n + 1 \notin t => t \in SUBSET (1 .. n)
    OBVIOUS
  <2>6. \A t \in SUBSET (1 .. n + 1) : t # {} => Max(t) \in t
    BY <2>3, <2>4, <2>5
  <2> DEFINE g == [t \in SUBSET (1 .. n + 1) |->
                     IF n + 1 \in t THEN op[<<f[t \ {n + 1}], n + 1>>] ELSE f[t]]
  <2>7. g \in [SUBSET (1 .. n + 1) -> A]
    <3>1. ASSUME NEW t \in SUBSET (1 .. n + 1) PROVE g[t] \in A
      <4>1. CASE n + 1 \in t
        <5>1. t \ {n + 1} \in SUBSET (1 .. n)
          BY <2>5
        <5> QED BY <2>1, <4>1, <5>1
      <4>2. CASE n + 1 \notin t
        BY <2>5, <4>2
      <4> QED BY <4>1, <4>2
    <3> QED BY <3>1
  <2>8. ASSUME NEW t \in SUBSET (1 .. n + 1)
        PROVE  g[t] = IF t = {} THEN base ELSE op[<<g[t \ {Max(t)}], Max(t)>>]
    <3>1. CASE n + 1 \in t
      <4>1. Max(t) = n + 1 /\ t # {}
        BY <2>4, <3>1
      <4>2. t \ {n + 1} \in SUBSET (1 .. n + 1) /\ n + 1 \notin t \ {n + 1}
        OBVIOUS
      <4>3. g[t \ {n + 1}] = f[t \ {n + 1}]
        BY <4>2
      <4> HIDE DEF g
      <4>4. g[t] = op[<<f[t \ {n + 1}], n + 1>>]
        BY <3>1 DEF g
      <4> QED BY <4>1, <4>3, <4>4
    <3>2. CASE n + 1 \notin t
      <4>1. t \in SUBSET (1 .. n)
        BY <2>5, <3>2
      <4>2. t \ {Max(t)} \in SUBSET (1 .. n + 1) /\ n + 1 \notin t \ {Max(t)}
        BY <3>2
      <4>3. g[t] = f[t] /\ g[t \ {Max(t)}] = f[t \ {Max(t)}]
        BY <3>2, <4>2
      <4> HIDE DEF g
      <4> QED BY <2>2, <4>1, <4>3
    <3> QED BY <3>1, <3>2
  <2> HIDE DEF g
  <2>9. Solves(g, n + 1)
    BY <2>8
  <2> HIDE DEF Solves
  <2> QED BY <2>6, <2>7, <2>9
<1>3. N \in S
  <2> HIDE DEF S
  <2> QED BY <1>1, <1>2, AllNaturals
<1>4. Good(N)
  <2> HIDE DEF Good
  <2>1. N <= N
    OBVIOUS
  <2> QED BY <1>3, <2>1
<1>5. PICK f \in [SUBSET (1 .. N) -> A] : Solves(f, N)
  <2> HIDE DEF Solves
  <2> QED BY <1>4
<1> QED BY <1>5 DEF Solved

\* F solves that recursion wherever its values are in A.
Folds(F, A, base, op, N) ==
    /\ Foldable(A, base, op, N)
    /\ F[{}] = base
    /\ \A t \in SUBSET (1 .. N) : t # {} /\ F[t \ {Max(t)}] \in A
          => F[t] = op[<<F[t \ {Max(t)}], Max(t)>>]

\* What solves that recursion takes its values in A, one position after the other.
LEMMA FoldSteps ==
    ASSUME NEW N, NEW A, NEW base, NEW op, NEW F, Folds(F, A, base, op, N)
    PROVE  /\ \A n \in 0 .. N : F[1 .. n] \in A
           /\ \A n \in 1 .. N : F[1 .. n] = op[<<F[1 .. n - 1], n>>]
<1> USE DEF Folds, Foldable
<1> DEFINE S == {n \in Nat : n <= N => F[1 .. n] \in A}
<1>1. \A n \in 1 .. N : F[1 .. n - 1] \in A => F[1 .. n] = op[<<F[1 .. n - 1], n>>]
  <2>1. TAKE n \in 1 .. N
  <2>2. Max(1 .. n) = n
    <3>1. 1 .. n \in SUBSET Nat /\ n \in 1 .. n /\ \A y \in 1 .. n : y <= n
      OBVIOUS
    <3> QED BY <3>1, MaxIs
  <2>3. (1 .. n) \ {n} = 1 .. n - 1
    OBVIOUS
  <2>4. 1 .. n \in SUBSET (1 .. N) /\ 1 .. n # {}
    OBVIOUS
  <2>5. (F[(1 .. n) \ {Max(1 .. n)}] \in A
            => F[1 .. n] = op[<<F[(1 .. n) \ {Max(1 .. n)}], Max(1 .. n)>>])
    BY <2>4
  <2> QED BY <2>2, <2>3, <2>5
<1>2. 0 \in S
  <2>1. 1 .. 0 = {}
    OBVIOUS
  <2> QED BY <2>1
<1>3. ASSUME NEW n \in Nat, n \in S PROVE n + 1 \in S
  <2>1. SUFFICES ASSUME n + 1 <= N PROVE F[1 .. n + 1] \in A
    OBVIOUS
  <2>2. F[1 .. n] \in A /\ n + 1 \in 1 .. N /\ (n + 1) - 1 = n
    BY <1>3, <2>1
  <2>3. F[1 .. n + 1] = op[<<F[1 .. n], n + 1>>]
    BY <1>1, <2>2
  <2> QED BY <2>2, <2>3
<1>4. Nat \subseteq S
  <2> HIDE DEF S
  <2> QED BY <1>2, <1>3, AllNaturals
<1>5. \A n \in 0 .. N : F[1 .. n] \in A
  BY <1>4
<1>6. ASSUME NEW n \in 1 .. N PROVE F[1 .. n] = op[<<F[1 .. n - 1], n>>]
  <2>1. n - 1 \in 0 .. N
    OBVIOUS
  <2> QED BY <1>1, <1>5, <2>1
<1> QED BY <1>5, <1>6

\* Two sequences that agree up to N are folded alike up to N.
LEMMA FoldsAlike ==
    ASSUME NEW N, NEW A, NEW base, NEW op, NEW F, Folds(F, A, base, op, N),
           NEW M, NEW more, NEW G, Folds(G, A, base, more, M),
           N <= M, \A a \in A, n \in 1 .. N : more[<<a, n>>] = op[<<a, n>>]
    PROVE  F[1 .. N] \in A /\ G[1 .. N] = F[1 .. N]
<1>0. N \in Nat /\ M \in Nat
  BY DEF Folds, Foldable
<1> DEFINE S == {n \in Nat : n <= N => G[1 .. n] = F[1 .. n]}
<1>1. /\ \A n \in 0 .. N : F[1 .. n] \in A
      /\ \A n \in 1 .. N : F[1 .. n] = op[<<F[1 .. n - 1], n>>]
  BY FoldSteps
<1>2. \A n \in 1 .. M : G[1 .. n] = more[<<G[1 .. n - 1], n>>]
  BY FoldSteps
<1>3. 0 \in S
  <2>1. 1 .. 0 = {}
    OBVIOUS
  <2> QED BY <2>1 DEF Folds, Foldable
<1>4. ASSUME NEW n \in Nat, n \in S PROVE n + 1 \in S
  <2>1. SUFFICES ASSUME n + 1 <= N PROVE G[1 .. n + 1] = F[1 .. n + 1]
    OBVIOUS
  <2>2. n + 1 \in 1 .. N /\ n + 1 \in 1 .. M /\ (n + 1) - 1 = n /\ n \in 0 .. N
    BY <1>0, <2>1
  <2>3. G[1 .. n] = F[1 .. n] /\ F[1 .. n] \in A
    BY <1>1, <1>4, <2>1, <2>2
  <2>4. G[1 .. n + 1] = more[<<F[1 .. n], n + 1>>]
    BY <1>2, <2>2, <2>3
  <2>5. F[1 .. n + 1] = op[<<F[1 .. n], n + 1>>]
    BY <1>1, <2>2
  <2> QED BY <2>2, <2>3, <2>4, <2>5
<1>5. Nat \subseteq S
  <2> HIDE DEF S
  <2> QED BY <1>3, <1>4, AllNaturals
<1>6. N \in 0 .. N /\ N <= N
  BY <1>0
<1> QED BY <1>1, <1>5, <1>6

\* One more position is one more step.
LEMMA FoldMore ==
    ASSUME NEW N, NEW A, NEW base, NEW op, NEW F, Folds(F, A, base, op, N),
           NEW more, NEW G, Folds(G, A, base, more, N + 1),
           \A a \in A, n \in 1 .. N : more[<<a, n>>] = op[<<a, n>>]
    PROVE  G[1 .. N + 1] = more[<<F[1 .. N], N + 1>>]
<1>1. N \in Nat /\ N <= N + 1 /\ N + 1 \in 1 .. N + 1 /\ (N + 1) - 1 = N
  BY DEF Folds, Foldable
<1>2. G[1 .. N] = F[1 .. N]
  BY <1>1, FoldsAlike
<1>3. \A n \in 1 .. N + 1 : G[1 .. n] = more[<<G[1 .. n - 1], n>>]
  BY FoldSteps
<1> QED BY <1>1, <1>2, <1>3

\* What holds of the empty sequence and passes to a sequence with one element more holds of
\* all sequences.
LEMMA AllSequences ==
    ASSUME NEW E, NEW S, <<>> \in S, \A s \in Seq(E), x \in E : s \in S => Append(s, x) \in S
    PROVE  Seq(E) \subseteq S
<1> DEFINE T == {n \in Nat : \A s \in Seq(E) : Len(s) = n => s \in S}
<1>1. 0 \in T
  <2>1. \A s \in Seq(E) : Len(s) = 0 => s = <<>>
    OBVIOUS
  <2> QED BY <2>1
<1>2. ASSUME NEW n \in Nat, n \in T PROVE n + 1 \in T
  <2>1. SUFFICES ASSUME NEW s \in Seq(E), Len(s) = n + 1 PROVE s \in S
    OBVIOUS
  <2>2. PICK t \in Seq(E), x \in E : s = Append(t, x) /\ Len(t) = n
    <3>1. SubSeq(s, 1, n) \in Seq(E) /\ s[n + 1] \in E /\ Len(SubSeq(s, 1, n)) = n
          /\ s = Append(SubSeq(s, 1, n), s[n + 1])
      BY <2>1
    <3> QED BY <3>1
  <2>3. t \in S
    BY <1>2, <2>2
  <2> QED BY <2>2, <2>3
<1>3. Nat \subseteq T
  <2> HIDE DEF T
  <2> QED BY <1>1, <1>2, AllNaturals
<1>4. \A s \in Seq(E) : Len(s) \in Nat
  OBVIOUS
<1> QED BY <1>3, <1>4

-----------------------------------------------------------------------------
(* The terminal and its TTY. *)
\* The wanted lines, one after the other.
LEMMA WithinFold ==
    ASSUME NEW E,
           NEW wanted,
           NEW l \in Seq(E)
    PROVE  /\ Within(<<>>, wanted) = <<>>
           /\ Within(l, wanted) \in Seq(E)
           /\ \A x \in E : Within(Append(l, x), wanted) = (IF x \in wanted THEN Append(Within(l, wanted), x) ELSE Within(l, wanted))
<1> DEFINE op(s) == [p \in Seq(E) \X (1 .. Len(s)) |-> (IF s[p[2]] \in wanted THEN Append(p[1], s[p[2]]) ELSE p[1])]
           Solves(s, F) == F = [t \in SUBSET DOMAIN s |->
               IF t = {} THEN <<>> ELSE (IF s[Max(t)] \in wanted THEN Append(F[t \ {Max(t)}], s[Max(t)]) ELSE F[t \ {Max(t)}])]
           Sol(s) == CHOOSE F : Solves(s, F)
<1>1. \A a \in Seq(E), y \in E : (IF y \in wanted THEN Append(a, y) ELSE a) \in Seq(E)
  <2>1. TAKE a \in Seq(E), y \in E
  <2> QED OBVIOUS
<1>2. <<>> \in Seq(E)
  OBVIOUS
<1>3. ASSUME NEW s \in Seq(E)
      PROVE  Folds(Sol(s), Seq(E), <<>>, op(s), Len(s))
  <2>1. Len(s) \in Nat /\ DOMAIN s = 1 .. Len(s) /\ \A i \in 1 .. Len(s) : s[i] \in E
    OBVIOUS
  <2>2. op(s) \in [Seq(E) \X (1 .. Len(s)) -> Seq(E)]
    BY <1>1, <2>1
  <2>0. PICK f : Solved(f, Seq(E), <<>>, op(s), Len(s))
    <3>1. Foldable(Seq(E), <<>>, op(s), Len(s))
      <4> HIDE DEF op
      <4> QED BY <1>2, <2>1, <2>2 DEF Foldable
    <3> HIDE DEF op
    <3> QED BY <3>1, FoldExists
  <2>3. /\ f \in [SUBSET (1 .. Len(s)) -> Seq(E)]
        /\ f = [t \in SUBSET (1 .. Len(s)) |->
                     IF t = {} THEN <<>> ELSE op(s)[<<f[t \ {Max(t)}], Max(t)>>]]
    <3> HIDE DEF op
    <3> QED BY <2>0 DEF Solved
  <2>4. \A t \in SUBSET (1 .. Len(s)) : t # {} => Max(t) \in t
    BY <2>1, MaxIn
  <2>5. Solves(s, f)
    <3>1. ASSUME NEW t \in SUBSET (1 .. Len(s)), t # {}
          PROVE  op(s)[<<f[t \ {Max(t)}], Max(t)>>] = (IF s[Max(t)] \in wanted THEN Append(f[t \ {Max(t)}], s[Max(t)]) ELSE f[t \ {Max(t)}])
      <4>1. Max(t) \in 1 .. Len(s) /\ t \ {Max(t)} \in SUBSET (1 .. Len(s))
        BY <2>4, <3>1
      <4>2. f[t \ {Max(t)}] \in Seq(E)
        BY <2>3, <4>1
      <4> QED BY <4>1, <4>2
    <3> HIDE DEF op
    <3> QED BY <2>1, <2>3, <3>1
  <2>6. Solves(s, Sol(s))
    <3> HIDE DEF Solves
    <3> QED BY <2>5
  <2> DEFINE F == Sol(s)
  <2> HIDE DEF F
  <2>7. Solves(s, F)
    BY <2>6 DEF F
  <2>8. Folds(F, Seq(E), <<>>, op(s), Len(s))
    <3>1. ASSUME NEW t \in SUBSET (1 .. Len(s)), t # {}, F[t \ {Max(t)}] \in Seq(E)
          PROVE  F[t] = op(s)[<<F[t \ {Max(t)}], Max(t)>>]
      <4>1. Max(t) \in 1 .. Len(s)
        BY <2>4, <3>1
      <4>2. F[t] = (IF s[Max(t)] \in wanted THEN Append(F[t \ {Max(t)}], s[Max(t)]) ELSE F[t \ {Max(t)}])
        BY <2>1, <2>7, <3>1
      <4> QED BY <3>1, <4>1, <4>2
    <3>2. F[{}] = <<>>
      BY <2>1, <2>7
    <3> HIDE DEF op, Solves
    <3> QED BY <1>2, <2>1, <2>2, <3>1, <3>2 DEF Folds, Foldable
  <2> QED BY <2>8 DEF F
<1>4. \A s \in Seq(E) : Within(s, wanted) = Sol(s)[DOMAIN s]
  BY DEF Within, FoldLeft, MapThenFoldSet
<1>5. Within(<<>>, wanted) = <<>>
  <2>1. <<>> \in Seq(E) /\ DOMAIN <<>> = {}
    OBVIOUS
  <2>2. Sol(<<>>)[{}] = <<>>
    <3>1. Folds(Sol(<<>>), Seq(E), <<>>, op(<<>>), Len(<<>>))
      <4> HIDE DEF Sol, op
      <4> QED BY <1>3, <2>1
    <3> HIDE DEF Sol, op
    <3> QED BY <3>1 DEF Folds
  <2> HIDE DEF Sol
  <2> QED BY <1>4, <2>1, <2>2
<1>6. Within(l, wanted) \in Seq(E)
  <2>1. Len(l) \in Nat /\ DOMAIN l = 1 .. Len(l) /\ Len(l) \in 0 .. Len(l)
    OBVIOUS
  <2> DEFINE F == Sol(l)
  <2> HIDE DEF Sol, op
  <2>2. Folds(F, Seq(E), <<>>, op(l), Len(l))
    BY <1>3
  <2> HIDE DEF F
  <2>3. F[1 .. Len(l)] \in Seq(E)
    BY <2>1, <2>2, FoldSteps
  <2> QED BY <1>4, <2>1, <2>3 DEF F
<1>7. ASSUME NEW x \in E
      PROVE  Within(Append(l, x), wanted) = (IF x \in wanted THEN Append(Within(l, wanted), x) ELSE Within(l, wanted))
  <2>1. l \in Seq(E) /\ Append(l, x) \in Seq(E) /\ Len(l) \in Nat /\ Len(Append(l, x)) = Len(l) + 1
        /\ DOMAIN l = 1 .. Len(l) /\ DOMAIN Append(l, x) = 1 .. Len(l) + 1
        /\ Append(l, x)[Len(l) + 1] = x /\ Len(l) <= Len(l) + 1
        /\ \A i \in 1 .. Len(l) : Append(l, x)[i] = l[i]
    OBVIOUS
  <2>2. \A a \in Seq(E), n \in 1 .. Len(l) : op(Append(l, x))[<<a, n>>] = op(l)[<<a, n>>]
    BY <2>1
  <2>3. op(Append(l, x))[<<Within(l, wanted), Len(l) + 1>>] = (IF x \in wanted THEN Append(Within(l, wanted), x) ELSE Within(l, wanted))
    BY <1>6, <2>1
  <2> DEFINE F == Sol(l)
             G == Sol(Append(l, x))
  <2> HIDE DEF Sol, op
  <2>4. Folds(F, Seq(E), <<>>, op(l), Len(l)) /\ Folds(G, Seq(E), <<>>, op(Append(l, x)), Len(l) + 1)
    BY <1>3, <2>1
  <2> HIDE DEF F, G
  <2>5. G[1 .. Len(l) + 1] = op(Append(l, x))[<<F[1 .. Len(l)], Len(l) + 1>>]
    BY <2>1, <2>2, <2>4, FoldMore
  <2>6. Within(l, wanted) = F[1 .. Len(l)] /\ Within(Append(l, x), wanted) = G[1 .. Len(l) + 1]
    BY <1>4, <2>1 DEF F, G
  <2> QED BY <2>3, <2>5, <2>6
<1> QED BY <1>5, <1>6, <1>7

\* The wanted lines are all, when all are wanted, and none, when none is; the last line is
\* the last one wanted, when it is wanted.
LEMMA WithinIs ==
    ASSUME NEW E, NEW wanted, NEW l \in Seq(E)
    PROVE  /\ Within(l, wanted) \in Seq(E)
           /\ (\A i \in DOMAIN l : l[i] \in wanted) => Within(l, wanted) = l
           /\ (Within(l, wanted) = <<>>) <=> (\A i \in DOMAIN l : l[i] \notin wanted)
           /\ \A i \in DOMAIN Within(l, wanted) : \E j \in DOMAIN l : l[j] = Within(l, wanted)[i]
           /\ l # <<>> /\ Last(l) \in wanted =>
                /\ Within(l, wanted) # <<>>
                /\ Last(Within(l, wanted)) = Last(l)
<1> DEFINE All(s) == (\A i \in DOMAIN s : s[i] \in wanted) => Within(s, wanted) = s
           None(s) == (Within(s, wanted) = <<>>) <=> (\A i \in DOMAIN s : s[i] \notin wanted)
           Some(s) == \A i \in DOMAIN Within(s, wanted) : \E j \in DOMAIN s : s[j] = Within(s, wanted)[i]
           S == {s \in Seq(E) : All(s) /\ None(s) /\ Some(s)}
<1>0. Within(<<>>, wanted) = <<>>
  <2>1. <<>> \in Seq(E)
    OBVIOUS
  <2> QED BY <2>1, WithinFold
<1>1. <<>> \in S
  BY <1>0
<1>2. ASSUME NEW s \in Seq(E), NEW x \in E, s \in S PROVE Append(s, x) \in S
  <2>1. All(s) /\ None(s) /\ Some(s)
    BY <1>2
  <2>2. /\ Within(s, wanted) \in Seq(E)
        /\ Within(Append(s, x), wanted) = IF x \in wanted THEN Append(Within(s, wanted), x)
                                         ELSE Within(s, wanted)
    BY WithinFold
  <2> DEFINE w == Within(s, wanted)
             v == Within(Append(s, x), wanted)
             t == Append(s, x)
  <2>3. /\ Len(s) \in Nat /\ DOMAIN s = 1 .. Len(s) /\ DOMAIN t = 1 .. Len(s) + 1
        /\ t[Len(s) + 1] = x /\ \A i \in 1 .. Len(s) : t[i] = s[i]
    OBVIOUS
  <2>4. \A i \in DOMAIN t : i \in DOMAIN s \/ i = Len(s) + 1
    BY <2>3
  <2>5. t \in Seq(E)
    OBVIOUS
  <2> HIDE DEF t
  <2>6. All(t)
    <3>1. SUFFICES ASSUME \A i \in DOMAIN t : t[i] \in wanted PROVE v = t
      BY DEF t
    <3>2. x \in wanted /\ \A i \in DOMAIN s : s[i] \in wanted
      BY <2>3, <3>1
    <3>3. w = s
      BY <2>1, <3>2
    <3> QED BY <2>2, <3>2, <3>3 DEF t
  <2>7. None(t)
    <3>1. CASE x \in wanted
      <4>1. v = Append(w, x)
        BY <2>2, <3>1
      <4>2. v # <<>>
        <5> HIDE DEF v, w
        <5>1. w \in Seq(E)
          BY <2>2 DEF w
        <5> QED BY <4>1, <5>1
      <4>3. Len(s) + 1 \in DOMAIN t /\ t[Len(s) + 1] \in wanted
        BY <2>3, <3>1
      <4> QED BY <4>2, <4>3 DEF t
    <3>2. CASE x \notin wanted
      <4>1. v = w
        BY <2>2, <3>2
      <4>2. (\A i \in DOMAIN t : t[i] \notin wanted) <=> (\A i \in DOMAIN s : s[i] \notin wanted)
        BY <2>3, <3>2
      <4> QED BY <2>1, <4>1, <4>2 DEF t
    <3> QED BY <3>1, <3>2
  <2>8. Some(t)
    <3>1. \A i \in DOMAIN w : \E j \in DOMAIN t : t[j] = w[i]
      <4>1. \A j \in DOMAIN s : j \in DOMAIN t /\ t[j] = s[j]
        BY <2>3
      <4> QED BY <2>1, <4>1
    <3>2. CASE x \in wanted
      <4>1. v = Append(w, x) /\ w \in Seq(E)
        BY <2>2, <3>2
      <4> HIDE DEF v, w
      <4>2. \A i \in DOMAIN v : v[i] = x \/ (i \in DOMAIN w /\ v[i] = w[i])
        BY <4>1
      <4>3. Len(s) + 1 \in DOMAIN t /\ t[Len(s) + 1] = x
        BY <2>3
      <4>4. \A i \in DOMAIN v : \E j \in DOMAIN t : t[j] = v[i]
        BY <3>1, <4>2, <4>3
      <4> QED BY <4>4 DEF v, t
    <3>3. CASE x \notin wanted
      <4>1. v = w
        BY <2>2, <3>3
      <4> QED BY <3>1, <4>1 DEF t
    <3> QED BY <3>2, <3>3
  <2> QED BY <2>5, <2>6, <2>7, <2>8 DEF t
<1>3. Seq(E) \subseteq S
  <2> HIDE DEF S
  <2> QED BY <1>1, <1>2, AllSequences
<1>4. All(l) /\ None(l) /\ Some(l)
  BY <1>3
<1>5. ASSUME l # <<>>, Last(l) \in wanted
      PROVE  Within(l, wanted) # <<>> /\ Last(Within(l, wanted)) = Last(l)
  <2>1. PICK s \in Seq(E), x \in E : l = Append(s, x)
    <3>1. Len(l) \in Nat /\ Len(l) # 0
      BY <1>5
    <3>2. SubSeq(l, 1, Len(l) - 1) \in Seq(E) /\ l[Len(l)] \in E
          /\ l = Append(SubSeq(l, 1, Len(l) - 1), l[Len(l)])
      BY <3>1
    <3> QED BY <3>2
  <2>2. Last(l) = x
    BY <2>1 DEF Last
  <2>3. Within(l, wanted) = Append(Within(s, wanted), x) /\ Within(s, wanted) \in Seq(E)
    BY <1>5, <2>1, <2>2, WithinFold
  <2> QED BY <2>2, <2>3 DEF Last
<1>6. Within(l, wanted) \in Seq(E)
  BY WithinFold
<1> QED BY <1>4, <1>5, <1>6

\* The lines of the terminals that have one table, or a default one.
LEMMA FileLineIs ==
    /\ \A l \in FileLines : /\ l.table = "default" /\ l.prefix = "none"
                            /\ \/ l.does = "send" /\ l.bytes \in Payloads
                               \/ l.does \in {"act", "forward", "unclear"}
    /\ KonsoleLines \subseteq FileLines
    /\ \A l \in WezTermLines : l.table = "default" => l \in FileLines
<1>1. \A l \in FileLines : /\ l.table = "default" /\ l.prefix = "none"
                           /\ \/ l.does = "send" /\ l.bytes \in Payloads
                              \/ l.does \in {"act", "forward", "unclear"}
  BY DEF FileLines, Acts, Sends, BindLine
<1>2. \A l \in WezTermLines : l.table = "default" => l \in FileLines
  <2>1. \A l \in Acts("other", "none") \cup Sends("other", "none") : l.table = "other"
    BY DEF Acts, Sends, BindLine
  <2> QED BY <2>1 DEF WezTermLines
<1> QED BY <1>1, <1>2 DEF KonsoleLines

\* The lines of Ghostty: those that send bytes, and the others, are one key's unless set aside.
LEMMA GhosttyLineIs ==
    \A l \in GhosttyLines :
        \/ l.does = "send" /\ l.bytes \in Payloads /\ l.prefix \in {"none", "unconsumed", "performable"}
        \/ l.does = "act" /\ l.prefix \in {"none", "unconsumed", "performable", "physical", "leader"}
        \/ l.does \in {"ignore", "unbind", "clear"} /\ l.prefix = "none"
<1>1. \A prefix \in {"none", "unconsumed", "performable"} : \A l \in Sends("default", prefix) :
          l.does = "send" /\ l.bytes \in Payloads /\ l.prefix = prefix
  BY DEF Sends, BindLine
<1>2. \A l \in UNION {Sends("default", prefix) : prefix \in {"none", "unconsumed", "performable"}} :
          l.does = "send" /\ l.bytes \in Payloads /\ l.prefix \in {"none", "unconsumed", "performable"}
  BY <1>1
<1>3. \A l \in {BindLine("act", <<>>, "default", prefix) :
                    prefix \in {"none", "unconsumed", "performable", "physical", "leader"}} :
          l.does = "act" /\ l.prefix \in {"none", "unconsumed", "performable", "physical", "leader"}
  BY DEF BindLine
<1>4. \A l \in {BindLine(does, <<>>, "default", "none") : does \in {"ignore", "unbind", "clear"}} :
          l.does \in {"ignore", "unbind", "clear"} /\ l.prefix = "none"
  BY DEF BindLine
<1> DEFINE A == {BindLine("act", <<>>, "default", prefix) :
                     prefix \in {"none", "unconsumed", "performable", "physical", "leader"}}
           B == UNION {Sends("default", prefix) : prefix \in {"none", "unconsumed", "performable"}}
           C == {BindLine(does, <<>>, "default", "none") : does \in {"ignore", "unbind", "clear"}}
<1>5. GhosttyLines = A \cup B \cup C
  BY Zenon DEF GhosttyLines
<1>6. \A l \in B : l.does = "send" /\ l.bytes \in Payloads /\ l.prefix \in {"none", "unconsumed", "performable"}
  BY <1>2
<1>7. \A l \in A : l.does = "act" /\ l.prefix \in {"none", "unconsumed", "performable", "physical", "leader"}
  BY <1>3
<1>8. \A l \in C : l.does \in {"ignore", "unbind", "clear"} /\ l.prefix = "none"
  BY <1>4
<1> HIDE DEF A, B, C
<1> QED BY <1>5, <1>6, <1>7, <1>8

\* The table of Ghostty takes in one line after the other.
LEMMA GhosttyFold ==
    ASSUME NEW l \in Seq(GhosttyLines)
    PROVE  /\ GhosttyTable(<<>>) = <<>>
           /\ GhosttyTable(l) \in Seq(GhosttyLines)
           /\ \A x \in GhosttyLines : GhosttyTable(Append(l, x)) = WithKeybind(GhosttyTable(l), x)
<1> DEFINE op(s) == [p \in Seq(GhosttyLines) \X (1 .. Len(s)) |-> WithKeybind(p[1], s[p[2]])]
           Solves(s, F) == F = [t \in SUBSET DOMAIN s |->
               IF t = {} THEN <<>> ELSE WithKeybind(F[t \ {Max(t)}], s[Max(t)])]
           Sol(s) == CHOOSE F : Solves(s, F)
<1>1. \A a \in Seq(GhosttyLines), y \in GhosttyLines : WithKeybind(a, y) \in Seq(GhosttyLines)
  <2>1. TAKE a \in Seq(GhosttyLines), y \in GhosttyLines
  <2>2. Within(a, SetAside) \in Seq(GhosttyLines)
    BY WithinIs
  <2> QED BY <2>2 DEF WithKeybind
<1>2. <<>> \in Seq(GhosttyLines)
  OBVIOUS
<1>3. ASSUME NEW s \in Seq(GhosttyLines)
      PROVE  Folds(Sol(s), Seq(GhosttyLines), <<>>, op(s), Len(s))
  <2>1. Len(s) \in Nat /\ DOMAIN s = 1 .. Len(s) /\ \A i \in 1 .. Len(s) : s[i] \in GhosttyLines
    OBVIOUS
  <2>2. op(s) \in [Seq(GhosttyLines) \X (1 .. Len(s)) -> Seq(GhosttyLines)]
    BY <1>1, <2>1
  <2>0. PICK f : Solved(f, Seq(GhosttyLines), <<>>, op(s), Len(s))
    <3>1. Foldable(Seq(GhosttyLines), <<>>, op(s), Len(s))
      <4> HIDE DEF op
      <4> QED BY <1>2, <2>1, <2>2 DEF Foldable
    <3> HIDE DEF op
    <3> QED BY <3>1, FoldExists
  <2>3. /\ f \in [SUBSET (1 .. Len(s)) -> Seq(GhosttyLines)]
        /\ f = [t \in SUBSET (1 .. Len(s)) |->
                     IF t = {} THEN <<>> ELSE op(s)[<<f[t \ {Max(t)}], Max(t)>>]]
    <3> HIDE DEF op
    <3> QED BY <2>0 DEF Solved
  <2>4. \A t \in SUBSET (1 .. Len(s)) : t # {} => Max(t) \in t
    BY <2>1, MaxIn
  <2>5. Solves(s, f)
    <3>1. ASSUME NEW t \in SUBSET (1 .. Len(s)), t # {}
          PROVE  op(s)[<<f[t \ {Max(t)}], Max(t)>>] = WithKeybind(f[t \ {Max(t)}], s[Max(t)])
      <4>1. Max(t) \in 1 .. Len(s) /\ t \ {Max(t)} \in SUBSET (1 .. Len(s))
        BY <2>4, <3>1
      <4>2. f[t \ {Max(t)}] \in Seq(GhosttyLines)
        BY <2>3, <4>1
      <4> QED BY <4>1, <4>2
    <3> HIDE DEF op
    <3> QED BY <2>1, <2>3, <3>1
  <2>6. Solves(s, Sol(s))
    <3> HIDE DEF Solves
    <3> QED BY <2>5
  <2> DEFINE F == Sol(s)
  <2> HIDE DEF F
  <2>7. Solves(s, F)
    BY <2>6 DEF F
  <2>8. Folds(F, Seq(GhosttyLines), <<>>, op(s), Len(s))
    <3>1. ASSUME NEW t \in SUBSET (1 .. Len(s)), t # {}, F[t \ {Max(t)}] \in Seq(GhosttyLines)
          PROVE  F[t] = op(s)[<<F[t \ {Max(t)}], Max(t)>>]
      <4>1. Max(t) \in 1 .. Len(s)
        BY <2>4, <3>1
      <4>2. F[t] = WithKeybind(F[t \ {Max(t)}], s[Max(t)])
        BY <2>1, <2>7, <3>1
      <4> QED BY <3>1, <4>1, <4>2
    <3>2. F[{}] = <<>>
      BY <2>1, <2>7
    <3> HIDE DEF op, Solves
    <3> QED BY <1>2, <2>1, <2>2, <3>1, <3>2 DEF Folds, Foldable
  <2> QED BY <2>8 DEF F
<1>4. \A s \in Seq(GhosttyLines) : GhosttyTable(s) = Sol(s)[DOMAIN s]
  BY DEF GhosttyTable, FoldLeft, MapThenFoldSet
<1>5. GhosttyTable(<<>>) = <<>>
  <2>1. <<>> \in Seq(GhosttyLines) /\ DOMAIN <<>> = {}
    OBVIOUS
  <2>2. Sol(<<>>)[{}] = <<>>
    <3>1. Folds(Sol(<<>>), Seq(GhosttyLines), <<>>, op(<<>>), Len(<<>>))
      <4> HIDE DEF Sol, op
      <4> QED BY <1>3, <2>1
    <3> HIDE DEF Sol, op
    <3> QED BY <3>1 DEF Folds
  <2> HIDE DEF Sol
  <2> QED BY <1>4, <2>1, <2>2
<1>6. GhosttyTable(l) \in Seq(GhosttyLines)
  <2>1. Len(l) \in Nat /\ DOMAIN l = 1 .. Len(l) /\ Len(l) \in 0 .. Len(l)
    OBVIOUS
  <2> DEFINE F == Sol(l)
  <2> HIDE DEF Sol, op
  <2>2. Folds(F, Seq(GhosttyLines), <<>>, op(l), Len(l))
    BY <1>3
  <2> HIDE DEF F
  <2>3. F[1 .. Len(l)] \in Seq(GhosttyLines)
    BY <2>1, <2>2, FoldSteps
  <2> QED BY <1>4, <2>1, <2>3 DEF F
<1>7. ASSUME NEW x \in GhosttyLines
      PROVE  GhosttyTable(Append(l, x)) = WithKeybind(GhosttyTable(l), x)
  <2>1. l \in Seq(GhosttyLines) /\ Append(l, x) \in Seq(GhosttyLines) /\ Len(l) \in Nat /\ Len(Append(l, x)) = Len(l) + 1
        /\ DOMAIN l = 1 .. Len(l) /\ DOMAIN Append(l, x) = 1 .. Len(l) + 1
        /\ Append(l, x)[Len(l) + 1] = x /\ Len(l) <= Len(l) + 1
        /\ \A i \in 1 .. Len(l) : Append(l, x)[i] = l[i]
    OBVIOUS
  <2>2. \A a \in Seq(GhosttyLines), n \in 1 .. Len(l) : op(Append(l, x))[<<a, n>>] = op(l)[<<a, n>>]
    BY <2>1
  <2>3. op(Append(l, x))[<<GhosttyTable(l), Len(l) + 1>>] = WithKeybind(GhosttyTable(l), x)
    BY <1>6, <2>1
  <2> DEFINE F == Sol(l)
             G == Sol(Append(l, x))
  <2> HIDE DEF Sol, op
  <2>4. Folds(F, Seq(GhosttyLines), <<>>, op(l), Len(l)) /\ Folds(G, Seq(GhosttyLines), <<>>, op(Append(l, x)), Len(l) + 1)
    BY <1>3, <2>1
  <2> HIDE DEF F, G
  <2>5. G[1 .. Len(l) + 1] = op(Append(l, x))[<<F[1 .. Len(l)], Len(l) + 1>>]
    BY <2>1, <2>2, <2>4, FoldMore
  <2>6. GhosttyTable(l) = F[1 .. Len(l)] /\ GhosttyTable(Append(l, x)) = G[1 .. Len(l) + 1]
    BY <1>4, <2>1 DEF F, G
  <2> QED BY <2>3, <2>5, <2>6
<1> QED BY <1>5, <1>6, <1>7

\* The table of Ghostty: lines of the configuration, and a single one, that binds the key,
\* when none was set aside.
LEMMA GhosttyHas ==
    ASSUME NEW l \in Seq(GhosttyLines)
    PROVE  /\ GhosttyTable(l) \in Seq(GhosttyLines)
           /\ \A i \in DOMAIN GhosttyTable(l) : \E j \in DOMAIN l : l[j] = GhosttyTable(l)[i]
           /\ (\A j \in DOMAIN l : l[j] \notin SetAside) =>
                 \/ GhosttyTable(l) = <<>>
                 \/ \E j \in DOMAIN l : /\ GhosttyTable(l) = <<l[j]>>
                                        /\ l[j].does \notin {"clear", "unbind"}
<1> DEFINE Some(s) == \A i \in DOMAIN GhosttyTable(s) : \E j \in DOMAIN s : s[j] = GhosttyTable(s)[i]
           Single(s) == \/ GhosttyTable(s) = <<>>
                        \/ \E j \in DOMAIN s : /\ GhosttyTable(s) = <<s[j]>>
                                               /\ s[j].does \notin {"clear", "unbind"}
           One(s) == (\A j \in DOMAIN s : s[j] \notin SetAside) => Single(s)
           S == {s \in Seq(GhosttyLines) : Some(s) /\ One(s)}
<1>0. <<>> \in Seq(GhosttyLines)
  OBVIOUS
<1>1. <<>> \in S
  <2>1. GhosttyTable(<<>>) = <<>>
    BY <1>0, GhosttyFold
  <2> QED BY <2>1
<1>2. ASSUME NEW s \in Seq(GhosttyLines), NEW x \in GhosttyLines, s \in S PROVE Append(s, x) \in S
  <2>1. Some(s) /\ One(s)
    BY <1>2
  <2> DEFINE g == GhosttyTable(s)
             t == Append(s, x)
             k == Within(g, SetAside)
  <2>2. g \in Seq(GhosttyLines) /\ GhosttyTable(t) = WithKeybind(g, x)
    BY GhosttyFold
  <2>3. /\ Len(s) \in Nat /\ DOMAIN s = 1 .. Len(s) /\ DOMAIN t = 1 .. Len(s) + 1
        /\ t[Len(s) + 1] = x /\ \A i \in 1 .. Len(s) : t[i] = s[i]
    OBVIOUS
  <2>4. t \in Seq(GhosttyLines)
    OBVIOUS
  <2> HIDE DEF t, g
  <2>5. /\ k \in Seq(GhosttyLines)
        /\ (k = <<>>) <=> (\A i \in DOMAIN g : g[i] \notin SetAside)
        /\ \A i \in DOMAIN k : \E j \in DOMAIN g : g[j] = k[i]
    BY <2>2, WithinIs
  <2> HIDE DEF k
  <2>6. \A i \in DOMAIN g : \E j \in DOMAIN t : t[j] = g[i]
    <3>1. \A j \in DOMAIN s : j \in DOMAIN t /\ t[j] = s[j]
      BY <2>3
    <3> QED BY <2>1, <3>1 DEF g
  <2>7. \A i \in DOMAIN k : \E j \in DOMAIN t : t[j] = k[i]
    BY <2>5, <2>6
  <2>8. Len(s) + 1 \in DOMAIN t /\ t[Len(s) + 1] = x
    BY <2>3
  <2>9. WithKeybind(g, x) \in {<<>>, Append(g, x), k, Append(k, x)}
    BY DEF WithKeybind, k
  <2>10. ASSUME NEW r \in Seq(GhosttyLines), \A i \in DOMAIN r : \E j \in DOMAIN t : t[j] = r[i],
                NEW v, v = Append(r, x)
         PROVE  \A i \in DOMAIN v : \E j \in DOMAIN t : t[j] = v[i]
    <3>1. \A i \in DOMAIN v : v[i] = x \/ (i \in DOMAIN r /\ v[i] = r[i])
      BY <2>10
    <3> QED BY <2>8, <2>10, <3>1
  <2>11. Some(t)
    <3> DEFINE w == GhosttyTable(t)
    <3>1. w \in {<<>>, Append(g, x), k, Append(k, x)}
      BY <2>2, <2>9
    <3> HIDE DEF w
    <3>2. \A i \in DOMAIN w : \E j \in DOMAIN t : t[j] = w[i]
      <4>1. CASE w = <<>>
        BY <4>1
      <4>2. CASE w = k
        BY <2>7, <4>2
      <4>3. CASE w = Append(g, x)
        BY <2>2, <2>6, <2>10, <4>3
      <4>4. CASE w = Append(k, x)
        BY <2>5, <2>7, <2>10, <4>4
      <4> QED BY <3>1, <4>1, <4>2, <4>3, <4>4
    <3> QED BY <3>2 DEF w
  <2>12. One(t)
    <3>1. SUFFICES ASSUME \A j \in DOMAIN t : t[j] \notin SetAside PROVE Single(t)
      OBVIOUS
    <3>2. x \notin SetAside
      BY <2>8, <3>1
    <3>3. k = <<>>
      BY <2>5, <2>6, <3>1
    <3>4. CASE x.does \in {"clear", "unbind"}
      <4>1. GhosttyTable(t) = <<>>
        BY <2>2, <3>2, <3>3, <3>4 DEF WithKeybind, k
      <4> QED BY <4>1
    <3>5. CASE x.does \notin {"clear", "unbind"}
      <4>1. GhosttyTable(t) = Append(<<>>, x)
        BY <2>2, <3>2, <3>3, <3>5 DEF WithKeybind, k
      <4>2. Append(<<>>, x) = <<x>>
        OBVIOUS
      <4> QED BY <2>8, <3>5, <4>1, <4>2
    <3> QED BY <3>4, <3>5
  <2> QED BY <2>4, <2>11, <2>12 DEF t
<1>3. Seq(GhosttyLines) \subseteq S
  <2> HIDE DEF S
  <2> QED BY <1>1, <1>2, AllSequences
<1>4. Some(l) /\ One(l)
  BY <1>3
<1> QED BY <1>4, GhosttyFold

\* Without a leader sequence, and with nothing else where a physical trigger is, the table
\* is empty, has the one line of the key, or has only physical triggers.
LEMMA GhosttyIs ==
    ASSUME NEW l \in Seq(GhosttyLines), \A j \in DOMAIN l : l[j].prefix # "leader",
           \A j \in DOMAIN l : l[j].prefix = "physical" => Resolved(GhosttyTable(l)) = <<>>
    PROVE  \/ GhosttyTable(l) = <<>> /\ Resolved(GhosttyTable(l)) = <<>>
           \/ \E j \in DOMAIN l : /\ GhosttyTable(l) = <<l[j]>> /\ Resolved(GhosttyTable(l)) = <<l[j]>>
                                  /\ l[j].does \notin {"clear", "unbind"}
                                  /\ l[j].prefix \notin {"physical", "leader"}
           \/ /\ Resolved(GhosttyTable(l)) = <<>>
              /\ \E i \in DOMAIN GhosttyTable(l) : GhosttyTable(l)[i].prefix = "physical"
<1> DEFINE g == GhosttyTable(l)
           r == Resolved(g)
<1>1. /\ g \in Seq(GhosttyLines)
      /\ \A i \in DOMAIN g : \E j \in DOMAIN l : l[j] = g[i]
      /\ (\A j \in DOMAIN l : l[j] \notin SetAside) =>
                 \/ g = <<>>
                 \/ \E j \in DOMAIN l : g = <<l[j]>> /\ l[j].does \notin {"clear", "unbind"}
  BY GhosttyHas
<1>2. \A j \in DOMAIN l : l[j] \in GhosttyLines /\ (l[j] \in SetAside <=> l[j].prefix = "physical")
  <2>1. \A j \in DOMAIN l : l[j] \in GhosttyLines
    OBVIOUS
  <2> QED BY <2>1 DEF SetAside
<1> HIDE DEF g
<1>3. /\ (\A i \in DOMAIN g : g[i] \in GhosttyLines \ SetAside) => r = g
      /\ (r = <<>>) <=> (\A i \in DOMAIN g : g[i] \notin GhosttyLines \ SetAside)
  BY <1>1, WithinIs DEF Resolved
<1> HIDE DEF r
<1>4. \A i \in DOMAIN g : g[i] \in GhosttyLines
  BY <1>1
<1>5. CASE \E j \in DOMAIN l : l[j] \in SetAside
  <2>1. r = <<>>
    BY <1>2, <1>5 DEF r, g
  <2>2. CASE g = <<>>
    BY <2>1, <2>2 DEF r, g
  <2>3. CASE g # <<>>
    <3>1. 1 \in DOMAIN g
      BY <1>1, <2>3
    <3>2. g[1] \in SetAside
      BY <1>3, <1>4, <2>1, <3>1
    <3>3. g[1].prefix = "physical"
      BY <1>1, <1>2, <3>1, <3>2
    <3> QED BY <2>1, <3>1, <3>3 DEF r, g
  <2> QED BY <2>2, <2>3
<1>6. CASE \A j \in DOMAIN l : l[j] \notin SetAside
  <2>1. CASE g = <<>>
    <3>1. r = <<>>
      BY <1>3, <2>1
    <3> QED BY <2>1, <3>1 DEF r, g
  <2>2. ASSUME NEW j \in DOMAIN l, g = <<l[j]>>, l[j].does \notin {"clear", "unbind"} 
        PROVE  r = <<l[j]>> /\ l[j].prefix \notin {"physical", "leader"}
    <3>1. DOMAIN g = {1} /\ g[1] = l[j]
      BY <2>2
    <3>2. r = g
      BY <1>2, <1>3, <1>6, <3>1
    <3> QED BY <1>2, <1>6, <2>2, <3>2
  <2> QED BY <1>1, <1>6, <2>1, <2>2 DEF r, g
<1> QED BY <1>5, <1>6

\* What a terminal can send for a key.
Bytes == {"none", "^C", "^S", "^[", "x", "c", "C", "1", "@", "[Z", "[1;", "A", ToString(5)}

\* Every key of the model is sent as some bytes, or as none.
LEMMA DefaultIsBytes ==
    ASSUME NEW k \in TerminalKeys PROVE DefaultBytes(k) \in Seq(Bytes) /\ DefaultBytes(k) # <<>>
<1>1. \A b \in Bytes : <<b>> \in Seq(Bytes) /\ <<b>> # <<>>
  OBVIOUS
<1>2. \A b, c \in Bytes : <<b, c>> \in Seq(Bytes) /\ <<b, c>> # <<>>
  OBVIOUS
<1> USE DEF Bytes, NoBytes
<1>3. CASE "altgr" \in k.mods
  <2>1. DefaultBytes(k) \in {<<"@">>, <<"none">>}
    BY <1>3 DEF DefaultBytes
  <2> QED BY <1>1, <2>1
<1>4. CASE "altgr" \notin k.mods
  <2> DEFINE name == IF k.name = "KP_1" THEN "1" ELSE k.name
  <2>1. \/ name = "C" /\ k.mods = {}
        \/ name = "C" /\ k.mods = {"shift"}
        \/ name = "C" /\ k.mods = {"ctrl"}
        \/ name = "C" /\ k.mods = {"ctrl", "alt"}
        \/ name = "S" /\ k.mods = {"ctrl"}
        \/ name = "ESCAPE" /\ k.mods = {"alt"}
        \/ name = "TAB" /\ k.mods = {"shift"}
        \/ name = "1" /\ k.mods = {}
        \/ name = "UP" /\ k.mods = {"ctrl"}
    BY <1>4 DEF TerminalKeys, Chord
  <2>2. DefaultBytes(k) = ModifierBytes(name, k.mods)
    BY <1>4 DEF DefaultBytes
  <2> HIDE DEF name
  <2> USE DEF ModifierBytes, NonArrowBytes, AltPrefix, ControlByte, Letters, Digits, Lower
  <2>3. CASE name = "C" /\ k.mods = {}
    <3>1. DefaultBytes(k) = <<>> \o <<"c">>
      BY <2>2, <2>3
    <3> QED BY <1>1, <3>1
  <2>4. CASE name = "C" /\ k.mods = {"shift"}
    <3>1. DefaultBytes(k) = <<>> \o <<"C">>
      BY <2>2, <2>4
    <3> QED BY <1>1, <3>1
  <2>5. CASE name = "C" /\ k.mods = {"ctrl"}
    <3>1. DefaultBytes(k) = <<>> \o <<"^C">>
      BY <2>2, <2>5
    <3> QED BY <1>1, <3>1
  <2>6. CASE name = "C" /\ k.mods = {"ctrl", "alt"}
    <3>1. DefaultBytes(k) = <<"^[">> \o <<"^C">>
      BY <2>2, <2>6
    <3> QED BY <1>2, <3>1
  <2>7. CASE name = "S" /\ k.mods = {"ctrl"}
    <3>1. DefaultBytes(k) = <<>> \o <<"^S">>
      BY <2>2, <2>7
    <3> QED BY <1>1, <3>1
  <2>8. CASE name = "ESCAPE" /\ k.mods = {"alt"}
    <3>1. DefaultBytes(k) = <<"^[", "^[">>
      BY <2>2, <2>8
    <3> QED BY <1>2, <3>1
  <2>9. CASE name = "TAB" /\ k.mods = {"shift"}
    <3>1. DefaultBytes(k) = <<"^[", "[Z">>
      BY <2>2, <2>9 DEF NavigationBytes
    <3> QED BY <1>2, <3>1
  <2>10. CASE name = "1" /\ k.mods = {}
    <3>1. DefaultBytes(k) = <<>> \o <<"1">>
      BY <2>2, <2>10
    <3> QED BY <1>1, <3>1
  <2>11. CASE name = "UP" /\ k.mods = {"ctrl"}
    <3>1. DefaultBytes(k) = <<"^[", "[1;", ToString(ModifierParameter({"ctrl"})), "A">>
      BY <2>2, <2>11
    <3>2. ModifierParameter({"ctrl"}) = 5
      BY DEF ModifierParameter
    <3>3. \A b, c, d, e \in Bytes : <<b, c, d, e>> \in Seq(Bytes) /\ <<b, c, d, e>> # <<>>
      <4> HIDE DEF Bytes
      <4> QED OBVIOUS
    <3>4. "^[" \in Bytes /\ "[1;" \in Bytes /\ ToString(5) \in Bytes /\ "A" \in Bytes
      OBVIOUS
    <3>5. DefaultBytes(k) = <<"^[", "[1;", ToString(5), "A">>
      BY <3>1, <3>2
    <3> HIDE DEF Bytes
    <3> QED BY <3>3, <3>4, <3>5
  <2> QED BY <2>1, <2>3, <2>4, <2>5, <2>6, <2>7, <2>8, <2>9, <2>10, <2>11
<1> QED BY <1>3, <1>4

\* The bytes that leave a terminal for a key whose lines are given, and the fate of the key.
BoundBytes(t, k, lines) ==
    LET theirs == IF t = "ghostty" THEN GhosttyTable(lines) ELSE Within(lines, FileLines)
        default == DefaultBytes(k)
        line == Last(theirs) IN
    IF theirs = <<>> THEN IF DeadKey(k) THEN <<>> ELSE default
    ELSE IF line.does = "send"
    THEN line.bytes \o (IF line.prefix = "unconsumed" /\ default # NoBytes THEN default ELSE <<>>)
    ELSE IF line.does = "forward" \/ line.prefix = "unconsumed" THEN default ELSE <<>>

FateOf(t, k, lines, settings) ==
    IF BoundBytes(t, k, lines) = <<>> THEN <<"terminal">>
    ELSE IF KernelTakes(BoundBytes(t, k, lines), settings) THEN <<"tty">>
    ELSE <<"program", BoundBytes(t, k, lines)>>

LEMMA FateIs ==
    Fate = FateOf(terminal, pressed, binds, cooked) /\ Fate' = FateOf(terminal', pressed', binds', cooked')
<1>1. BytesOut = BoundBytes(terminal, pressed, binds)
  BY DEF BytesOut, BoundBytes, TheirBinds
<1>2. BytesOut' = BoundBytes(terminal', pressed', binds')
  BY DEF BytesOut, BoundBytes, TheirBinds
<1> QED BY <1>1, <1>2 DEF Fate, FateOf

\* What whykey says of the bytes that it expects is what becomes of them, unless a control
\* byte is in the middle of a sequence.
LEMMA PassedIsFate ==
    ASSUME NEW b \in Seq(Bytes), b # <<>>, b # NoBytes, ttyRead.known,
           Len(b) > 1 => \A c \in {"^C", "^S"} : c \notin ToSet(b)
    PROVE  /\ TtyVerdict(b) = "consumed" => KernelTakes(b, ttyRead)
           /\ TtyVerdict(b) # "consumed" => TtyVerdict(b) = "passes" /\ ~KernelTakes(b, ttyRead)
<1>1. Len(b) \in Nat /\ Len(b) >= 1 /\ DOMAIN b = 1 .. Len(b)
  OBVIOUS
<1>2. CASE Len(b) = 1
  <2>1. DOMAIN b = {1}
    BY <1>1, <1>2
  <2>2. KernelTakes(b, ttyRead) <=> (b[1] = "^C" /\ ttyRead.isig) \/ (b[1] = "^S" /\ ttyRead.ixon)
    BY <2>1 DEF KernelTakes
  <2>3. TtyVerdict(b) = CASE b[1] = "^C" -> IF ttyRead.isig THEN "consumed" ELSE "passes"
                          [] b[1] = "^S" -> IF ttyRead.ixon THEN "consumed" ELSE "passes"
                          [] OTHER -> "passes"
    BY <1>2 DEF TtyVerdict
  <2>4. CASE b[1] = "^C"
    BY <2>2, <2>3, <2>4
  <2>5. CASE b[1] = "^S"
    BY <2>2, <2>3, <2>5
  <2>6. CASE b[1] \notin {"^C", "^S"}
    BY <2>2, <2>3, <2>6
  <2> QED BY <2>4, <2>5, <2>6
<1>3. CASE Len(b) > 1
  <2>0. Len(b) # 1
    BY <1>1, <1>3
  <2>1. TtyVerdict(b) = "passes"
    <3> HIDE DEF Bytes, NoBytes
    <3> QED BY <2>0 DEF TtyVerdict
  <2>2. \A i \in DOMAIN b : b[i] # "^C" /\ b[i] # "^S"
    BY <1>3 DEF ToSet
  <2>3. ~KernelTakes(b, ttyRead)
    BY <2>2 DEF KernelTakes
  <2> QED BY <2>1, <2>3
<1> QED BY <1>1, <1>2, <1>3

\* A definite answer to lines that were read is what becomes of a key under them.
LEMMA RouteIsFate ==
    ASSUME NEW b, NEW outcome, TerminalAnswer = Answer(outcome, b),
           NEW s, ttyRead.known => s.isig = ttyRead.isig /\ s.ixon = ttyRead.ixon,
           outcome = "consumed" => BoundBytes(terminal, pressed, bindsRead.lines) = <<>>,
           outcome = "passes" /\ b # NoBytes => /\ b = BoundBytes(terminal, pressed, bindsRead.lines)
                                               /\ b \in Seq(Bytes) /\ b # <<>>,
           outcome \in {"consumed", "passes", "unsure"},
           ~BeyondTheRoute, RouteFate # <<"unsure">>
    PROVE  RouteFate = FateOf(terminal, pressed, bindsRead.lines, s)
<1> DEFINE bytes == BoundBytes(terminal, pressed, bindsRead.lines)
<1>1. TerminalAnswer.outcome = outcome /\ TerminalAnswer.bytes = b
  BY DEF Answer
<1> HIDE DEF bytes
<1>2. FateOf(terminal, pressed, bindsRead.lines, s) =
          IF bytes = <<>> THEN <<"terminal">>
          ELSE IF KernelTakes(bytes, s) THEN <<"tty">> ELSE <<"program", bytes>>
  BY DEF FateOf, bytes
<1>3. RouteFate = IF outcome = "consumed" THEN <<"terminal">>
                  ELSE IF outcome = "unsure" \/ TtyVerdict(b) = "unsure" THEN <<"unsure">>
                  ELSE IF TtyVerdict(b) = "consumed" THEN <<"tty">>
                  ELSE <<"program", b>>
  BY <1>1 DEF RouteFate
<1>4. CASE outcome = "consumed"
  BY <1>2, <1>3, <1>4 DEF bytes
<1>5. CASE outcome = "passes"
  <2>1. TtyVerdict(b) # "unsure"
    BY <1>3, <1>5
  <2>0. ttyRead.known
    BY <2>1 DEF TtyVerdict
  <2>2. b # NoBytes
    BY <2>1 DEF TtyVerdict
  <2>3. b = bytes /\ b \in Seq(Bytes) /\ b # <<>>
    BY <1>5, <2>2 DEF bytes
  <2>4. Len(b) > 1 => \A c \in {"^C", "^S"} : c \notin ToSet(b)
    BY <1>1 DEF BeyondTheRoute
  <2>5. /\ TtyVerdict(b) = "consumed" => KernelTakes(b, ttyRead)
        /\ TtyVerdict(b) # "consumed" => ~KernelTakes(b, ttyRead)
    BY <2>0, <2>2, <2>3, <2>4, PassedIsFate
  <2>6. RouteFate = IF TtyVerdict(b) = "consumed" THEN <<"tty">> ELSE <<"program", b>>
    BY <1>3, <1>5, <2>1
  <2>7. FateOf(terminal, pressed, bindsRead.lines, s) =
            IF KernelTakes(b, s) THEN <<"tty">> ELSE <<"program", b>>
    BY <1>2, <2>3
  <2>8. KernelTakes(b, s) <=> KernelTakes(b, ttyRead)
    BY <2>0 DEF KernelTakes
  <2> QED BY <2>5, <2>6, <2>7, <2>8
<1>6. CASE outcome = "unsure"
  BY <1>3, <1>6
<1> QED BY <1>4, <1>5, <1>6

\* The answer without a line for the key is what becomes of it.
LEMMA PassesIs ==
    ASSUME pressed \in TerminalKeys
    PROVE  \E outcome, b :
               /\ outcome \in {"consumed", "passes"}
               /\ Passes = Answer(outcome, b)
               /\ outcome = "consumed" <=> DeadKey(pressed)
               /\ outcome = "passes" => b = DefaultBytes(pressed) /\ b \in Seq(Bytes) /\ b # <<>>
<1>1. CASE DeadKey(pressed)
  BY <1>1 DEF Passes
<1>2. CASE ~DeadKey(pressed)
  <2>1. Passes = Answer("passes", DefaultBytes(pressed))
    BY <1>2 DEF Passes
  <2> QED BY <1>2, <2>1, DefaultIsBytes
<1> QED BY <1>1, <1>2

\* What an answer is, for the lines that were read.
Answers(outcome, b) ==
    /\ outcome \in {"consumed", "passes", "unsure"}
    /\ TerminalAnswer = Answer(outcome, b)
    /\ outcome = "consumed" => BoundBytes(terminal, pressed, bindsRead.lines) = <<>>
    /\ outcome = "passes" /\ b # NoBytes => /\ b = BoundBytes(terminal, pressed, bindsRead.lines)
                                            /\ b \in Seq(Bytes) /\ b # <<>>

\* No line for the key.
LEMMA NothingBound ==
    ASSUME pressed \in TerminalKeys, TerminalAnswer = Passes,
           IF terminal = "ghostty" THEN GhosttyTable(bindsRead.lines) = <<>>
           ELSE Within(bindsRead.lines, FileLines) = <<>>
    PROVE  \E outcome, b : Answers(outcome, b)
<1>1. BoundBytes(terminal, pressed, bindsRead.lines) =
          IF DeadKey(pressed) THEN <<>> ELSE DefaultBytes(pressed)
  BY DEF BoundBytes
<1>2. PICK outcome, b :
               /\ outcome \in {"consumed", "passes"}
               /\ Passes = Answer(outcome, b)
               /\ outcome = "consumed" <=> DeadKey(pressed)
               /\ outcome = "passes" => b = DefaultBytes(pressed) /\ b \in Seq(Bytes) /\ b # <<>>
  BY PassesIs
<1>3. Answers(outcome, b)
  BY <1>1, <1>2 DEF Answers
<1> QED BY <1>3

\* The bytes of a line.
LEMMA PayloadIsBytes == \A b \in Payloads : b \in Seq(Bytes) /\ b # <<>> /\ b \o <<>> = b
<1>1. "^C" \in Bytes /\ "x" \in Bytes
  BY DEF Bytes
<1>2. \A c \in Bytes : <<c>> \in Seq(Bytes) /\ <<c>> # <<>> /\ <<c>> \o <<>> = <<c>>
  OBVIOUS
<1> QED BY <1>1, <1>2 DEF Payloads

\* The terminals that whykey's adapters read.
LEMMA AdapterIs ==
    ASSUME pressed \in TerminalKeys, terminal # "ghostty",
           bindsRead.lines \in Seq(WezTermLines), TerminalAnswer = AdapterAnswer
    PROVE  \E outcome, b : Answers(outcome, b)
<1> DEFINE lines == bindsRead.lines
           theirs == Within(lines, FileLines)
<1>1. CASE lines = <<>>
  <2>1. theirs = <<>>
    <3>1. DOMAIN lines = {}
      BY <1>1
    <3> QED BY <3>1, WithinIs
  <2>2. TerminalAnswer = Passes
    BY <1>1 DEF AdapterAnswer
  <2> QED BY <2>1, <2>2, NothingBound
<1>2. CASE lines # <<>>
  <2> DEFINE line == Last(lines)
  <2>1. line \in WezTermLines
    <3>1. Len(lines) \in 1 .. Len(lines)
      BY <1>2
    <3> QED BY <3>1 DEF Last
  <2>2. AdapterAnswer =
         IF line.table # "default" THEN Answer("unsure", NoBytes)
         ELSE CASE line.does = "send" -> Answer("passes", line.bytes)
                [] line.does = "forward" -> Answer("passes", NoBytes)
                [] line.does = "act" -> Answer("consumed", NoBytes)
                [] OTHER -> Answer("unsure", NoBytes)
    BY <1>2 DEF AdapterAnswer
  <2> HIDE DEF line
  <2>3. CASE line.table # "default"
    <3>1. Answers("unsure", NoBytes)
      BY <2>2, <2>3 DEF Answers
    <3> QED BY <3>1
  <2>4. CASE line.table = "default"
    <3>1. line \in FileLines
      BY <2>1, <2>4, FileLineIs
    <3>2. line.prefix = "none"
          /\ ((line.does = "send" /\ line.bytes \in Payloads) \/ line.does \in {"act", "forward", "unclear"})
      BY <3>1, FileLineIs
    <3>3. theirs # <<>> /\ Last(theirs) = line
      BY <1>2, <3>1, WithinIs DEF line
    <3>4. BoundBytes(terminal, pressed, lines) =
              IF line.does = "send" THEN line.bytes \o <<>>
              ELSE IF line.does = "forward" THEN DefaultBytes(pressed) ELSE <<>>
      BY <3>2, <3>3 DEF BoundBytes
    <3> HIDE DEF lines, theirs
    <3>5. CASE line.does = "send"
      <4>1. Answers("passes", line.bytes)
        BY <2>2, <2>4, <3>2, <3>4, <3>5, PayloadIsBytes DEF Answers, lines
      <4> QED BY <4>1
    <3>6. CASE line.does = "forward"
      <4>1. Answers("passes", NoBytes)
        BY <2>2, <2>4, <3>6 DEF Answers
      <4> QED BY <4>1
    <3>7. CASE line.does = "act"
      <4>1. Answers("consumed", NoBytes)
        BY <2>2, <2>4, <3>4, <3>7 DEF Answers, lines
      <4> QED BY <4>1
    <3>8. CASE line.does = "unclear"
      <4>1. Answers("unsure", NoBytes)
        BY <2>2, <2>4, <3>8 DEF Answers
      <4> QED BY <4>1
    <3> QED BY <3>2, <3>5, <3>6, <3>7, <3>8
  <2> QED BY <2>3, <2>4
<1> QED BY <1>1, <1>2

\* Ghostty, where whykey is not too sure.
LEMMA GhosttyAnswerIs ==
    ASSUME pressed \in TerminalKeys, terminal = "ghostty", ~BeyondTheRoute,
           bindsRead.lines \in Seq(GhosttyLines), TerminalAnswer = GhosttyAnswer
    PROVE  \E outcome, b : Answers(outcome, b)
<1> DEFINE lines == bindsRead.lines
           table == GhosttyTable(lines)
           default == DefaultBytes(pressed)
<1>1. \A j \in DOMAIN lines : /\ lines[j].prefix # "leader"
                              /\ lines[j].prefix = "physical" => Resolved(table) = <<>>
                              /\ lines[j].prefix = "performable" => lines[j].does # "send"
  BY DEF BeyondTheRoute
<1>2. \/ table = <<>> /\ Resolved(table) = <<>>
      \/ \E j \in DOMAIN lines : /\ table = <<lines[j]>> /\ Resolved(table) = <<lines[j]>>
                                 /\ lines[j].does \notin {"clear", "unbind"}
                                 /\ lines[j].prefix \notin {"physical", "leader"}
      \/ Resolved(table) = <<>> /\ \E i \in DOMAIN table : table[i].prefix = "physical"
  BY <1>1, GhosttyIs
<1>3. CASE table = <<>> /\ Resolved(table) = <<>>
  <2>1. TerminalAnswer = Passes
    <3>1. DOMAIN table = {}
      BY <1>3
    <3> QED BY <1>3, <3>1 DEF GhosttyAnswer
  <2> QED BY <1>3, <2>1, NothingBound
<1>4. CASE Resolved(table) = <<>> /\ \E i \in DOMAIN table : table[i].prefix = "physical"
  <2>1. Answers("unsure", NoBytes)
    BY <1>4 DEF GhosttyAnswer, Answers
  <2> QED BY <2>1
<1>5. ASSUME NEW j \in DOMAIN lines, table = <<lines[j]>>, Resolved(table) = <<lines[j]>>,
             lines[j].does \notin {"clear", "unbind"}, lines[j].prefix \notin {"physical", "leader"}
      PROVE  \E outcome, b : Answers(outcome, b)
  <2> DEFINE line == lines[j]
  <2>1. line \in GhosttyLines
    OBVIOUS
  <2>2. \/ line.does = "send" /\ line.bytes \in Payloads /\ line.prefix \in {"none", "unconsumed"}
        \/ line.does = "act" /\ line.prefix \in {"none", "unconsumed", "performable"}
        \/ line.does = "ignore" /\ line.prefix = "none"
    BY <1>1, <1>5, <2>1, GhosttyLineIs
  <2>3. Resolved(table) # <<>> /\ Resolved(table)[1] = line /\ table # <<>> /\ Last(table) = line
    BY <1>5 DEF Last
  <2> DEFINE says ==
         IF line.does = "send"
         THEN CASE line.prefix = "unconsumed" ->
                     Answer("passes", line.bytes \o (IF default = NoBytes THEN <<>> ELSE default))
                [] line.prefix = "performable" -> Answer("passes", default)
                [] OTHER -> Answer("passes", line.bytes)
         ELSE IF line.does = "ignore" THEN Answer("consumed", NoBytes)
         ELSE CASE line.prefix = "performable" -> Answer("unsure", default)
                [] line.prefix = "unconsumed" -> Answer("passes", default)
                [] OTHER -> Answer("consumed", NoBytes)
  <2>4. TerminalAnswer = says
    BY <2>3 DEF GhosttyAnswer
  <2>5. BoundBytes(terminal, pressed, lines) =
            IF line.does = "send"
            THEN line.bytes \o (IF line.prefix = "unconsumed" /\ default # NoBytes THEN default ELSE <<>>)
            ELSE IF line.does = "forward" \/ line.prefix = "unconsumed" THEN default ELSE <<>>
    BY <2>3 DEF BoundBytes
  <2>6. default \in Seq(Bytes) /\ default # <<>>
    BY DefaultIsBytes
  <2> HIDE DEF line, default, table
  <2>7. CASE line.does = "send"
    <3>1. line.bytes \in Seq(Bytes) /\ line.bytes # <<>> /\ line.bytes \o <<>> = line.bytes
      BY <2>2, <2>7, PayloadIsBytes
    <3>2. line.bytes \o default \in Seq(Bytes) /\ line.bytes \o default # <<>>
      BY <2>6, <3>1
    <3>3. CASE line.prefix = "unconsumed"
      <4> DEFINE b == line.bytes \o (IF default = NoBytes THEN <<>> ELSE default)
      <4>1. b = BoundBytes(terminal, pressed, lines) /\ TerminalAnswer = Answer("passes", b)
        BY <2>4, <2>5, <2>7, <3>3
      <4>2. b \in Seq(Bytes) /\ b # <<>>
        BY <3>1, <3>2
      <4> HIDE DEF b
      <4>3. Answers("passes", b)
        BY <4>1, <4>2 DEF Answers
      <4> QED BY <4>3
    <3>4. CASE line.prefix = "none"
      <4>1. TerminalAnswer = Answer("passes", line.bytes)
        BY <2>4, <2>7, <3>4
      <4>2. line.bytes = BoundBytes(terminal, pressed, lines)
        BY <2>5, <2>7, <3>1, <3>4
      <4>3. Answers("passes", line.bytes)
        BY <3>1, <4>1, <4>2 DEF Answers
      <4> QED BY <4>3
    <3> QED BY <2>2, <2>7, <3>3, <3>4
  <2>8. CASE line.does = "ignore"
    <3>1. Answers("consumed", NoBytes)
      BY <2>2, <2>4, <2>5, <2>8 DEF Answers
    <3> QED BY <3>1
  <2>9. CASE line.does = "act" /\ line.prefix = "unconsumed"
    <3>1. Answers("passes", default)
      BY <2>4, <2>5, <2>6, <2>9 DEF Answers
    <3> QED BY <3>1
  <2>10. CASE line.does = "act" /\ line.prefix = "performable"
    <3>1. Answers("unsure", default)
      BY <2>4, <2>10 DEF Answers
    <3> QED BY <3>1
  <2>11. CASE line.does = "act" /\ line.prefix = "none"
    <3>1. Answers("consumed", NoBytes)
      BY <2>4, <2>5, <2>11 DEF Answers
    <3> QED BY <3>1
  <2> QED BY <2>2, <2>7, <2>8, <2>9, <2>10, <2>11
<1> QED BY <1>2, <1>3, <1>4, <1>5

\* The terminals.
Terminals == {"kitty", "alacritty", "foot", "wezterm", "konsole", "ghostty", "another"}

LEMMA LinesAre ==
    ASSUME NEW t \in Terminals
    PROVE  /\ t = "ghostty" => LinesOfTerminal(t) = GhosttyLines
           /\ t \notin {"ghostty", "another"} => LinesOfTerminal(t) \subseteq WezTermLines
           /\ t = "another" => LinesOfTerminal(t) = {}
<1>1. FileLines \subseteq WezTermLines /\ KonsoleLines \subseteq WezTermLines
  BY DEF WezTermLines, KonsoleLines
<1>2. CASE t \in {"kitty", "alacritty", "foot"}
  <2>1. LinesOfTerminal(t) = FileLines
    BY <1>2 DEF LinesOfTerminal
  <2> QED BY <1>1, <1>2, <2>1
<1>3. CASE t = "wezterm"
  <2>1. LinesOfTerminal(t) = WezTermLines
    BY <1>3 DEF LinesOfTerminal
  <2> QED BY <1>3, <2>1
<1>4. CASE t = "konsole"
  <2>1. LinesOfTerminal(t) = KonsoleLines
    BY <1>4 DEF LinesOfTerminal
  <2> QED BY <1>1, <1>4, <2>1
<1>5. CASE t = "ghostty"
  <2>1. LinesOfTerminal(t) = GhosttyLines
    BY <1>5 DEF LinesOfTerminal
  <2> QED BY <1>5, <2>1
<1>6. CASE t = "another"
  <2>1. LinesOfTerminal(t) = {}
    BY <1>6 DEF LinesOfTerminal
  <2> QED BY <1>6, <2>1
<1> QED BY <1>2, <1>3, <1>4, <1>5, <1>6 DEF Terminals

\* A definite route is the fate of the key under what was read.
LEMMA AnswerIsFate ==
    ASSUME terminal \in Terminals, pressed \in TerminalKeys, bindsRead.known,
           NEW s, ttyRead.known => s.isig = ttyRead.isig /\ s.ixon = ttyRead.ixon,
           bindsRead.lines \in Seq(LinesOfTerminal(terminal)),
           ~BeyondTheRoute, RouteFate # <<"unsure">>
    PROVE  RouteFate = FateOf(terminal, pressed, bindsRead.lines, s)
<1>1. terminal # "another" => exported
  BY DEF BeyondTheRoute
<1>2. \E outcome, b : Answers(outcome, b)
  <2>1. CASE terminal = "another"
    <3>1. TerminalAnswer = Passes
      BY <2>1 DEF TerminalAnswer, Identified
    <3>2. bindsRead.lines = <<>>
      <4>1. bindsRead.lines \in Seq({})
        BY <2>1, LinesAre
      <4> QED BY <4>1
    <3>3. Within(bindsRead.lines, FileLines) = <<>>
      <4>1. DOMAIN bindsRead.lines = {}
        BY <3>2
      <4>2. bindsRead.lines \in Seq({})
        BY <3>2
      <4> QED BY <4>1, <4>2, WithinIs
    <3> QED BY <2>1, <3>1, <3>3, NothingBound
  <2>2. CASE terminal = "ghostty"
    <3>1. TerminalAnswer = GhosttyAnswer
      BY <1>1, <2>2 DEF TerminalAnswer, Identified
    <3>2. bindsRead.lines \in Seq(GhosttyLines)
      BY <2>2, LinesAre
    <3> QED BY <2>2, <3>1, <3>2, GhosttyAnswerIs
  <2>3. CASE terminal \notin {"another", "ghostty"}
    <3>1. TerminalAnswer = AdapterAnswer
      BY <1>1, <2>3 DEF TerminalAnswer, Identified, Terminals
    <3>2. bindsRead.lines \in Seq(WezTermLines)
      <4>1. LinesOfTerminal(terminal) \subseteq WezTermLines
        BY <2>3, LinesAre
      <4> QED BY <4>1
    <3> QED BY <2>3, <3>1, <3>2, AdapterIs
  <2> QED BY <2>1, <2>2, <2>3
<1>3. PICK outcome, b : Answers(outcome, b)
  BY <1>2
<1> QED BY <1>3, RouteIsFate DEF Answers

\* The fate of the key now is on record. After its binds were read, so is its fate under them
\* and the settings of now, as nothing or one thing only has changed; when the settings were
\* read too, its fate under both.
RouteIInv ==
    /\ terminal \in Terminals /\ exported \in BOOLEAN /\ pressed \in TerminalKeys
    /\ binds \in Seq(LinesOfTerminal(terminal))
    /\ listening \in BOOLEAN /\ terminalMoves \in Nat /\ terminalMoves <= MaxTerminalMoves
    /\ routePc \in {"binds", "tty", "done"}
    /\ FateOf(terminal, pressed, binds, cooked) \in fates
    /\ terminal = "another" /\ routePc # "binds" => bindsRead.known
    /\ routePc = "binds" => ~bindsRead.known
    /\ routePc # "done" => ~ttyRead.known
    /\ bindsRead.known /\ (exported \/ terminal = "another") =>
          /\ bindsRead.lines \in Seq(LinesOfTerminal(terminal))
          /\ terminalMoves = 0 => bindsRead.lines = binds
          /\ routePc = "tty" /\ terminalMoves <= 1 =>
                FateOf(terminal, pressed, bindsRead.lines, cooked) \in fates
          /\ routePc = "done" /\ terminalMoves <= 1 =>
                \E s : /\ FateOf(terminal, pressed, bindsRead.lines, s) \in fates
                       /\ ttyRead.known => s.isig = ttyRead.isig /\ s.ixon = ttyRead.ixon

LEMMA RouteBegins == RouteInit => RouteIInv
<1> SUFFICES ASSUME RouteInit PROVE RouteIInv
  OBVIOUS
<1>1. terminal \in Terminals
  BY DEF RouteInit, Terminals
<1>2. binds \in Seq(LinesOfTerminal(terminal))
  <2>1. binds \in UNION {[1 .. m -> LinesOfTerminal(terminal)] : m \in 0 .. MaxBindLines}
    BY DEF RouteInit, BoundedSeq, SeqOf
  <2>2. PICK m \in 0 .. MaxBindLines : binds \in [1 .. m -> LinesOfTerminal(terminal)]
    BY <2>1
  <2> QED BY <2>2
<1>3. FateOf(terminal, pressed, binds, cooked) \in fates
  BY FateIs DEF RouteInit
<1>4. 0 <= MaxTerminalMoves
  BY TerminalRouteAssumption
<1> QED BY <1>1, <1>2, <1>3, <1>4 DEF RouteInit, RouteIInv

\* The changes from outside.
LEMMA RouteMoves == RouteIInv /\ (EditBinds \/ ChangeTty) => RouteIInv'
<1> SUFFICES ASSUME RouteIInv, EditBinds \/ ChangeTty PROVE RouteIInv'
  OBVIOUS
<1>1. /\ UNCHANGED <<terminal, exported, pressed, listening, routePc, bindsRead, ttyRead>>
      /\ routePc # "done" /\ terminalMoves' = terminalMoves + 1
      /\ fates' = fates \cup {Fate'}
  BY DEF EditBinds, ChangeTty, TerminalMove, Unseen
<1>2. FateOf(terminal', pressed', binds', cooked') \in fates' /\ fates \subseteq fates'
  <2>1. Fate' = FateOf(terminal', pressed', binds', cooked')
    BY FateIs
  <2> QED BY <1>1, <2>1
<1>3. binds' \in Seq(LinesOfTerminal(terminal))
  BY DEF EditBinds, ChangeTty, RouteIInv
<1>4. terminalMoves \in Nat
  BY DEF RouteIInv
<1>5. ASSUME bindsRead.known, exported \/ terminal = "another", routePc = "tty", terminalMoves' <= 1
      PROVE  FateOf(terminal, pressed, bindsRead.lines, cooked') \in fates'
  <2>1. terminalMoves = 0
    BY <1>1, <1>4, <1>5
  <2>2. bindsRead.lines = binds /\ FateOf(terminal, pressed, binds, cooked) \in fates
    BY <1>5, <2>1 DEF RouteIInv
  <2>3. CASE EditBinds
    <3>1. cooked' = cooked
      BY <2>3 DEF EditBinds
    <3> QED BY <1>2, <2>2, <3>1
  <2>4. CASE ChangeTty
    <3>1. binds' = binds
      BY <2>4 DEF ChangeTty
    <3> QED BY <1>1, <1>2, <2>2, <3>1
  <2> QED BY <2>3, <2>4
<1>6. ~ttyRead.known
  BY <1>1 DEF RouteIInv
<1>7. terminalMoves' \in Nat /\ terminalMoves' # 0 /\ terminalMoves' <= MaxTerminalMoves
  BY <1>1, <1>4, TerminalRouteAssumption DEF EditBinds, ChangeTty, TerminalMove
<1> QED BY <1>1, <1>2, <1>3, <1>5, <1>6, <1>7 DEF RouteIInv

LEMMA ReadBindsKeeps == RouteIInv /\ ReadBinds => RouteIInv'
<1> SUFFICES ASSUME RouteIInv, ReadBinds PROVE RouteIInv'
  OBVIOUS
<1>1. /\ UNCHANGED <<terminal, exported, pressed, binds, cooked, listening, ttyRead, terminalMoves, fates>>
      /\ routePc = "binds" /\ routePc' = "tty" /\ ~bindsRead.known /\ ~ttyRead.known
  BY DEF ReadBinds, RouteIInv
<1>2. CASE bindsRead' = [known |-> TRUE, lines |-> IF Identified \in {"unknown", "another"} THEN <<>> ELSE binds]
  <2>1. exported \/ terminal = "another" => bindsRead'.lines = binds
    <3>1. CASE terminal = "another"
      <4>1. binds = <<>>
        <5>1. binds \in Seq({})
          BY <3>1, LinesAre DEF RouteIInv
        <5> QED BY <5>1
      <4>2. Identified \in {"unknown", "another"}
        BY <3>1 DEF Identified
      <4> QED BY <1>2, <4>1, <4>2
    <3>2. CASE terminal # "another" /\ exported
      <4>1. Identified \notin {"unknown", "another"}
        BY <3>2 DEF Identified, RouteIInv, Terminals
      <4> QED BY <1>2, <4>1
    <3> QED BY <3>1, <3>2
  <2>2. bindsRead'.known
    BY <1>2
  <2> QED BY <1>1, <2>1, <2>2 DEF RouteIInv
<1>3. CASE Identified \notin {"unknown", "another"} /\ UNCHANGED bindsRead
  <2>1. terminal # "another"
    BY <1>3 DEF Identified
  <2> QED BY <1>1, <1>3, <2>1 DEF RouteIInv
<1> QED BY <1>2, <1>3 DEF ReadBinds

LEMMA ReadTtyKeeps == RouteIInv /\ ReadTty => RouteIInv'
<1> SUFFICES ASSUME RouteIInv, ReadTty PROVE RouteIInv'
  OBVIOUS
<1>1. /\ UNCHANGED <<terminal, exported, pressed, binds, cooked, listening, bindsRead, terminalMoves, fates>>
      /\ routePc = "tty" /\ routePc' = "done" /\ ~ttyRead.known
  BY DEF ReadTty, RouteIInv
<1>2. ttyRead'.known => ttyRead'.isig = cooked.isig /\ ttyRead'.ixon = cooked.ixon
  <2>1. TermiosUsed = cooked
    BY DEF TermiosUsed, LiveSettings
  <2>2. CASE ttyRead' = [known |-> TRUE, isig |-> TermiosUsed.isig, ixon |-> TermiosUsed.ixon]
    BY <2>1, <2>2
  <2>3. CASE UNCHANGED ttyRead
    BY <1>1, <2>3
  <2> QED BY <2>2, <2>3 DEF ReadTty
<1> QED BY <1>1, <1>2 DEF RouteIInv

LEMMA RouteKeeps == RouteIInv /\ [RouteNext]_routeVars => RouteIInv'
<1>1. ASSUME RouteIInv, UNCHANGED routeVars PROVE RouteIInv'
  BY <1>1 DEF RouteIInv, routeVars
<1> QED BY <1>1, RouteMoves, ReadBindsKeeps, ReadTtyKeeps DEF RouteNext

LEMMA RouteSound == RouteIInv /\ terminalMoves <= 1 => RouteIsSound
<1> SUFFICES ASSUME RouteIInv, terminalMoves <= 1, routePc = "done", ~BeyondTheRoute, RouteFate # <<"unsure">>
             PROVE  RouteFate \in fates
  BY DEF RouteIsSound
<1>1. exported \/ terminal = "another"
  BY DEF BeyondTheRoute
<1>2. CASE bindsRead.known
  <2>1. /\ bindsRead.lines \in Seq(LinesOfTerminal(terminal)) /\ terminal \in Terminals
        /\ pressed \in TerminalKeys
    BY <1>1, <1>2 DEF RouteIInv
  <2>2. PICK s : /\ FateOf(terminal, pressed, bindsRead.lines, s) \in fates
                 /\ ttyRead.known => s.isig = ttyRead.isig /\ s.ixon = ttyRead.ixon
    BY <1>1, <1>2 DEF RouteIInv
  <2>3. RouteFate = FateOf(terminal, pressed, bindsRead.lines, s)
    BY <1>2, <2>1, <2>2, AnswerIsFate
  <2> QED BY <2>2, <2>3
<1>3. CASE ~bindsRead.known
  <2>1. terminal # "another" /\ terminal \in Terminals
    BY <1>3 DEF RouteIInv
  <2>2. TerminalAnswer = Answer("unsure", NoBytes)
    BY <1>1, <1>3, <2>1 DEF TerminalAnswer, Identified, Terminals
  <2>3. RouteFate = <<"unsure">>
    BY <2>2 DEF RouteFate, Answer
  <2> QED BY <2>3
<1> QED BY <1>2, <1>3

-----------------------------------------------------------------------------
(* The multiplexers. *)
\* A set of places has a latest one.
LEMMA LatestIs ==
    ASSUME NEW N \in Nat, NEW t \in SUBSET (1 .. N), t # {}
    PROVE  Latest(t) \in t /\ \A y \in t : y <= Latest(t)
<1> DEFINE Has(u) == \E x \in u : \A y \in u : y <= x
           S == {n \in Nat : \A u \in SUBSET (1 .. n) : u # {} => Has(u)}
<1>1. 0 \in S
  <2>1. 1 .. 0 = {}
    OBVIOUS
  <2> QED BY <2>1
<1>2. ASSUME NEW n \in Nat, n \in S PROVE n + 1 \in S
  <2>1. SUFFICES ASSUME NEW u \in SUBSET (1 .. n + 1), u # {} PROVE Has(u)
    OBVIOUS
  <2>2. CASE n + 1 \in u
    BY <2>2
  <2>3. CASE n + 1 \notin u
    <3>1. u \in SUBSET (1 .. n)
      BY <2>3
    <3> QED BY <1>2, <2>1, <3>1
  <2> QED BY <2>2, <2>3
<1>3. Nat \subseteq S
  <2> HIDE DEF S
  <2> QED BY <1>1, <1>2, AllNaturals
<1>4. Has(t)
  BY <1>3
<1> QED BY <1>4 DEF Latest

\* tmux: each key of a table has one binding.
TmuxLines ==
    /\ muxLines \in Seq(TmuxBindings)
    /\ \A i, j \in DOMAIN muxLines :
          <<muxLines[i].table, muxLines[i].key>> = <<muxLines[j].table, muxLines[j].key>> => i = j

\* The bindings of a key in a table, in the listing and in the server.
Bound(table, key) == {b \in ToSet(muxLines) : b.table = table /\ ParseTmuxKey(b.key) = TmuxQueryKey(key)}
ActOf(table, key) == (CHOOSE b \in Bound(table, key) : TRUE).act

LEMMA ListedIsBound ==
    ASSUME TmuxLines, NEW table, NEW key
    PROVE  /\ (Matching(muxLines, table, key) = {}) <=> (Bound(table, key) = {})
           /\ Matching(muxLines, table, key) # {} =>
                 /\ muxLines[First(Matching(muxLines, table, key))].act = ActOf(table, key)
                 /\ ActOf(table, key) \in TmuxActions
<1> DEFINE M == Matching(muxLines, table, key)
<1>1. Bound(table, key) = {muxLines[i] : i \in M}
  BY DEF Bound, Matching, ToSet
<1>2. ASSUME M # {} PROVE muxLines[First(M)].act = ActOf(table, key) /\ ActOf(table, key) \in TmuxActions
  <2>1. PICK i \in M : TRUE
    BY <1>2
  <2>2. i \in DOMAIN muxLines /\ DOMAIN muxLines \subseteq Nat /\ muxLines[i] \in TmuxBindings
    BY <2>1 DEF Matching, TmuxLines
  <2>3. ASSUME NEW j \in M PROVE j = i
    <3>1. muxLines[i].table = muxLines[j].table /\ ParseTmuxKey(muxLines[i].key) = ParseTmuxKey(muxLines[j].key)
          /\ j \in DOMAIN muxLines
      BY <2>1, <2>3 DEF Matching
    <3>0. muxLines[j] \in TmuxBindings
      BY <3>1 DEF TmuxLines
    <3>2. muxLines[i].key \in TmuxWritten /\ muxLines[j].key \in TmuxWritten
      BY <2>2, <3>0 DEF TmuxBindings
    <3>3. \A a, b \in TmuxWritten : ParseTmuxKey(a) = ParseTmuxKey(b) => a = b
      BY DEF TmuxWritten, ParseTmuxKey
    <3> QED BY <2>2, <3>1, <3>2, <3>3 DEF TmuxLines
  <2>4. M = {i}
    BY <2>1, <2>3
  <2> HIDE DEF M
  <2>5. First(M) = i
    BY <2>2, <2>4 DEF First
  <2>6. Bound(table, key) = {muxLines[i]}
    BY <1>1, <2>4
  <2>7. ActOf(table, key) = muxLines[i].act
    BY <2>6 DEF ActOf
  <2> QED BY <2>2, <2>5, <2>7 DEF TmuxBindings
<1>3. (M = {}) <=> (Bound(table, key) = {})
  BY <1>1
<1> QED BY <1>2, <1>3

\* The places of two commands.
LEMMA CommandPairs ==
    DOMAIN <<"run", "to t">> = 1 .. 2 /\ DOMAIN <<"send-keys", "to t">> = 1 .. 2
OBVIOUS

\* The commands of a binding.
LEMMA RunsIs ==
    ASSUME NEW act \in TmuxActions
    PROVE  /\ TmuxRuns(act).table = SwitchClientTable(act)
           /\ TmuxRuns(act).did = IF act[1] = "send-keys" THEN "passed" ELSE "consumed"
<1> DEFINE did == TmuxRuns(act).did
           table == TmuxRuns(act).table
<1>0. /\ table = IF \E i \in DOMAIN act : act[i] = "to t" THEN "t" ELSE "root"
      /\ did = IF \E i \in DOMAIN act : act[i] = "send-keys" THEN "passed" ELSE "consumed"
  BY DEF TmuxRuns
<1> HIDE DEF did, table
<1>1. CASE act = <<"run">>
  <2>1. DOMAIN act = {1} /\ act[1] = "run" /\ Len(act) = 1
    BY <1>1
  <2> QED BY <1>0, <2>1 DEF SwitchClientTable, did, table
<1>2. CASE act = <<"send-keys">>
  <2>1. DOMAIN act = {1} /\ act[1] = "send-keys" /\ Len(act) = 1
    BY <1>2
  <2> QED BY <1>0, <2>1 DEF SwitchClientTable, did, table
<1>3. CASE act = <<"run", "to t">>
  <2>1. Len(act) = 2 /\ act[1] = "run" /\ act[2] = "to t"
    BY <1>3
  <2>3. DOMAIN act = 1 .. 2
    BY <1>3, CommandPairs, Zenon
  <2>4. 1 \in DOMAIN act /\ 2 \in DOMAIN act /\ \A i \in DOMAIN act : i = 1 \/ i = 2
    BY <2>3
  <2>5. \E i \in DOMAIN act : act[i] = "to t"
    BY <2>1, <2>4, Zenon
  <2>6. (\E i \in DOMAIN act : act[i] = "send-keys") <=> (act[1] = "send-keys")
    <3>1. "to t" # "send-keys"
      OBVIOUS
    <3> QED BY <2>1, <2>4, <3>1, Zenon
  <2> QED BY <1>0, <2>1, <2>5, <2>6 DEF SwitchClientTable, did, table
<1>4. CASE act = <<"send-keys", "to t">>
  <2>1. Len(act) = 2 /\ act[1] = "send-keys" /\ act[2] = "to t"
    BY <1>4
  <2>3. DOMAIN act = 1 .. 2
    BY <1>4, CommandPairs, Zenon
  <2>4. 1 \in DOMAIN act /\ 2 \in DOMAIN act /\ \A i \in DOMAIN act : i = 1 \/ i = 2
    BY <2>3
  <2>5. \E i \in DOMAIN act : act[i] = "to t"
    BY <2>1, <2>4, Zenon
  <2>6. (\E i \in DOMAIN act : act[i] = "send-keys") <=> (act[1] = "send-keys")
    <3>1. "to t" # "send-keys"
      OBVIOUS
    <3> QED BY <2>1, <2>4, <3>1, Zenon
  <2> QED BY <1>0, <2>1, <2>5, <2>6 DEF SwitchClientTable, did, table
<1> QED BY <1>1, <1>2, <1>3, <1>4 DEF TmuxActions

\* What the server does with a key.
LEMMA ServerIs ==
    ASSUME NEW table, NEW key
    PROVE  LET in == IF Bound(table, key) = {} THEN "root" ELSE table IN
           TmuxDoes(muxLines, table, key) =
              IF TmuxQueryKey(key) = "ctrl+b" /\ in # "prefix" THEN [table |-> "prefix", did |-> "consumed"]
              ELSE IF Bound(in, key) # {} THEN TmuxRuns(ActOf(in, key))
              ELSE [table |-> "root", did |-> IF table = "root" THEN "pass" ELSE "consumed"]
BY DEF TmuxDoes, Bound, ActOf

\* The table after a key.
LEMMA TablesAre ==
    ASSUME NEW table, NEW key, NEW r
    PROVE  TmuxDoes(muxLines, table, key).table \in TmuxTables /\ NextTable(r) \in TmuxTables
<1>1. \A act : TmuxRuns(act).table \in TmuxTables
  BY DEF TmuxRuns, TmuxTables
<1>2. TmuxDoes(muxLines, table, key).table \in TmuxTables
  BY <1>1, ServerIs DEF TmuxTables
<1>3. NextTable(r) \in TmuxTables
  BY DEF NextTable, SwitchClientTable, TmuxTables
<1> QED BY <1>2, <1>3

\* A key that is resolved in the listings that could be read does that in the server.
LEMMA ResolvedIsDone ==
    ASSUME TmuxLines, NEW fails, NEW table \in TmuxTables, NEW key,
           NEW r, r = ResolveTmuxKey(muxLines, fails, {"ctrl+b"}, table, key)
    PROVE  /\ r.is # "unavailable" => NextTable(r) = TmuxDoes(muxLines, table, key).table
           /\ TmuxOutcome(r) \in {"consumed", "passed", "pass"} => TmuxOutcome(r) = TmuxDoes(muxLines, table, key).did
<1> DEFINE own == InTable(muxLines, fails, {"ctrl+b"}, table, key)
           again == InTable(muxLines, fails, {"ctrl+b"}, "root", key)
           prefix == TmuxQueryKey(key) = "ctrl+b"
           in == IF Bound(table, key) = {} THEN "root" ELSE table
           did == TmuxDoes(muxLines, table, key)
<1>1. r = IF own.is # "unbound" THEN own
          ELSE IF again.is = "forwarded" THEN Resolution("discarded", table, <<>>) ELSE again
  BY DEF ResolveTmuxKey
<1>2. did = IF prefix /\ in # "prefix" THEN [table |-> "prefix", did |-> "consumed"]
            ELSE IF Bound(in, key) # {} THEN TmuxRuns(ActOf(in, key))
            ELSE [table |-> "root", did |-> IF table = "root" THEN "pass" ELSE "consumed"]
  BY ServerIs
<1>3. ASSUME NEW t
      PROVE  InTable(muxLines, fails, {"ctrl+b"}, t, key) =
                IF t # "prefix" /\ prefix THEN Resolution("prefix", t, <<>>)
                ELSE IF t \in fails THEN Resolution("unavailable", t, <<>>)
                ELSE IF Bound(t, key) # {} THEN Resolution("bound", t, ActOf(t, key))
                ELSE Resolution(IF t = "root" THEN "forwarded" ELSE "unbound", t, <<>>)
  BY ListedIsBound DEF InTable
<1>4. own = IF table # "prefix" /\ prefix THEN Resolution("prefix", table, <<>>)
            ELSE IF table \in fails THEN Resolution("unavailable", table, <<>>)
            ELSE IF Bound(table, key) # {} THEN Resolution("bound", table, ActOf(table, key))
            ELSE Resolution(IF table = "root" THEN "forwarded" ELSE "unbound", table, <<>>)
  BY <1>3
<1>5. again = IF prefix THEN Resolution("prefix", "root", <<>>)
              ELSE IF "root" \in fails THEN Resolution("unavailable", "root", <<>>)
              ELSE IF Bound("root", key) # {} THEN Resolution("bound", "root", ActOf("root", key))
              ELSE Resolution("forwarded", "root", <<>>)
  BY <1>3
<1>6. \A t : Bound(t, key) # {} => ActOf(t, key) \in TmuxActions
  BY ListedIsBound
<1> HIDE DEF own, again, prefix, did
<1>7. ASSUME r = Resolution("prefix", r.table, <<>>), did = [table |-> "prefix", did |-> "consumed"]
      PROVE  NextTable(r) = did.table /\ TmuxOutcome(r) = did.did
  BY <1>7 DEF Resolution, NextTable, TmuxOutcome
<1>8. ASSUME NEW t, Bound(t, key) # {}, r = Resolution("bound", t, ActOf(t, key)),
             did = TmuxRuns(ActOf(t, key))
      PROVE  NextTable(r) = did.table /\ TmuxOutcome(r) = did.did
  <2>1. did.table = SwitchClientTable(ActOf(t, key))
        /\ did.did = IF ActOf(t, key)[1] = "send-keys" THEN "passed" ELSE "consumed"
    BY <1>6, <1>8, RunsIs
  <2>2. r.is = "bound" /\ r.act = ActOf(t, key)
    BY <1>8 DEF Resolution
  <2> QED BY <2>1, <2>2 DEF NextTable, TmuxOutcome
<1>9. ASSUME r.is = "unavailable"
      PROVE  TmuxOutcome(r) \notin {"consumed", "passed", "pass"}
  BY <1>9 DEF TmuxOutcome
<1>10. CASE table # "prefix" /\ prefix
  <2>1. r = Resolution("prefix", table, <<>>)
    BY <1>1, <1>4, <1>10 DEF Resolution
  <2>2. did = [table |-> "prefix", did |-> "consumed"]
    BY <1>2, <1>10
  <2>3. r.table = table
    BY <2>1 DEF Resolution
  <2> QED BY <1>7, <2>1, <2>2, <2>3 DEF did
<1>11. CASE ~(table # "prefix" /\ prefix) /\ table \in fails
  <2>1. r.is = "unavailable"
    BY <1>1, <1>4, <1>11 DEF Resolution
  <2> QED BY <1>9, <2>1
<1>12. CASE ~(table # "prefix" /\ prefix) /\ table \notin fails /\ Bound(table, key) # {}
  <2>1. r = Resolution("bound", table, ActOf(table, key))
    BY <1>1, <1>4, <1>12 DEF Resolution
  <2>2. did = TmuxRuns(ActOf(table, key))
    BY <1>2, <1>12
  <2> QED BY <1>8, <1>12, <2>1, <2>2 DEF did
<1>13. CASE table = "root" /\ ~prefix /\ table \notin fails /\ Bound(table, key) = {}
  <2>1. r = Resolution("forwarded", table, <<>>)
    BY <1>1, <1>4, <1>13 DEF Resolution
  <2>2. did = [table |-> "root", did |-> "pass"]
    BY <1>2, <1>13
  <2>3. NextTable(r) = did.table /\ TmuxOutcome(r) = did.did
    BY <2>1, <2>2 DEF Resolution, NextTable, TmuxOutcome
  <2> QED BY <2>3 DEF did
<1>14. CASE table # "root" /\ ~(table # "prefix" /\ prefix) /\ table \notin fails /\ Bound(table, key) = {}
  <2>1. r = IF again.is = "forwarded" THEN Resolution("discarded", table, <<>>) ELSE again
    BY <1>1, <1>4, <1>14 DEF Resolution
  <2>2. did = IF prefix THEN [table |-> "prefix", did |-> "consumed"]
              ELSE IF Bound("root", key) # {} THEN TmuxRuns(ActOf("root", key))
              ELSE [table |-> "root", did |-> "consumed"]
    BY <1>2, <1>14
  <2>3. CASE prefix
    <3>1. r = Resolution("prefix", "root", <<>>)
      BY <1>5, <2>1, <2>3 DEF Resolution
    <3>2. r.table = "root"
      BY <3>1 DEF Resolution
    <3> QED BY <1>7, <2>2, <2>3, <3>1, <3>2 DEF did
  <2>4. CASE ~prefix /\ "root" \in fails
    <3>1. r.is = "unavailable"
      BY <1>5, <2>1, <2>4 DEF Resolution
    <3> QED BY <1>9, <3>1
  <2>5. CASE ~prefix /\ "root" \notin fails /\ Bound("root", key) # {}
    <3>1. r = Resolution("bound", "root", ActOf("root", key))
      BY <1>5, <2>1, <2>5 DEF Resolution
    <3> QED BY <1>8, <2>2, <2>5, <3>1 DEF did
  <2>6. CASE ~prefix /\ "root" \notin fails /\ Bound("root", key) = {}
    <3>1. r = Resolution("discarded", table, <<>>)
      BY <1>5, <2>1, <2>6 DEF Resolution
    <3>2. did = [table |-> "root", did |-> "consumed"]
      BY <2>2, <2>6
    <3>3. NextTable(r) = did.table /\ TmuxOutcome(r) = did.did
      BY <3>1, <3>2 DEF Resolution, NextTable, TmuxOutcome
    <3> QED BY <3>3 DEF did
  <2> QED BY <2>3, <2>4, <2>5, <2>6
<1> QED BY <1>10, <1>11, <1>12, <1>13, <1>14

\* A step of whykey's walk over the keys.
WalkTables == TmuxTables \cup {"lost"}
WalkStep(table, key, fails) ==
    LET r == ResolveTmuxKey(muxLines, fails, {"ctrl+b"}, table, key) IN
    IF table = "lost" \/ r.is = "unavailable" THEN "lost" ELSE NextTable(r)

\* The walk of whykey over the keys, one after the other.
LEMMA WalkFold ==
    ASSUME NEW start \in TmuxTables,
           NEW fails,
           NEW l \in Seq(TmuxTyped)
    PROVE  /\ WalkTable(<<>>, start, {"ctrl+b"}, fails) = start
           /\ WalkTable(l, start, {"ctrl+b"}, fails) \in WalkTables
           /\ \A x \in TmuxTyped : WalkTable(Append(l, x), start, {"ctrl+b"}, fails) = WalkStep(WalkTable(l, start, {"ctrl+b"}, fails), x, fails)
<1> DEFINE op(s) == [p \in WalkTables \X (1 .. Len(s)) |-> WalkStep(p[1], s[p[2]], fails)]
           Solves(s, F) == F = [t \in SUBSET DOMAIN s |->
               IF t = {} THEN start ELSE WalkStep(F[t \ {Max(t)}], s[Max(t)], fails)]
           Sol(s) == CHOOSE F : Solves(s, F)
<1>1. \A a \in WalkTables, y \in TmuxTyped : WalkStep(a, y, fails) \in WalkTables
  BY TablesAre DEF WalkTables, WalkStep
<1>2. start \in WalkTables
  BY DEF WalkTables
<1>3. ASSUME NEW s \in Seq(TmuxTyped)
      PROVE  Folds(Sol(s), WalkTables, start, op(s), Len(s))
  <2>1. Len(s) \in Nat /\ DOMAIN s = 1 .. Len(s) /\ \A i \in 1 .. Len(s) : s[i] \in TmuxTyped
    OBVIOUS
  <2>2. op(s) \in [WalkTables \X (1 .. Len(s)) -> WalkTables]
    BY <1>1, <2>1
  <2>0. PICK f : Solved(f, WalkTables, start, op(s), Len(s))
    <3>1. Foldable(WalkTables, start, op(s), Len(s))
      <4> HIDE DEF op
      <4> QED BY <1>2, <2>1, <2>2 DEF Foldable
    <3> HIDE DEF op
    <3> QED BY <3>1, FoldExists
  <2>3. /\ f \in [SUBSET (1 .. Len(s)) -> WalkTables]
        /\ f = [t \in SUBSET (1 .. Len(s)) |->
                     IF t = {} THEN start ELSE op(s)[<<f[t \ {Max(t)}], Max(t)>>]]
    <3> HIDE DEF op
    <3> QED BY <2>0 DEF Solved
  <2>4. \A t \in SUBSET (1 .. Len(s)) : t # {} => Max(t) \in t
    BY <2>1, MaxIn
  <2>5. Solves(s, f)
    <3>1. ASSUME NEW t \in SUBSET (1 .. Len(s)), t # {}
          PROVE  op(s)[<<f[t \ {Max(t)}], Max(t)>>] = WalkStep(f[t \ {Max(t)}], s[Max(t)], fails)
      <4>1. Max(t) \in 1 .. Len(s) /\ t \ {Max(t)} \in SUBSET (1 .. Len(s))
        BY <2>4, <3>1
      <4>2. f[t \ {Max(t)}] \in WalkTables
        BY <2>3, <4>1
      <4> QED BY <4>1, <4>2
    <3> HIDE DEF op
    <3> QED BY <2>1, <2>3, <3>1
  <2>6. Solves(s, Sol(s))
    <3> HIDE DEF Solves
    <3> QED BY <2>5
  <2> DEFINE F == Sol(s)
  <2> HIDE DEF F
  <2>7. Solves(s, F)
    BY <2>6 DEF F
  <2>8. Folds(F, WalkTables, start, op(s), Len(s))
    <3>1. ASSUME NEW t \in SUBSET (1 .. Len(s)), t # {}, F[t \ {Max(t)}] \in WalkTables
          PROVE  F[t] = op(s)[<<F[t \ {Max(t)}], Max(t)>>]
      <4>1. Max(t) \in 1 .. Len(s)
        BY <2>4, <3>1
      <4>2. F[t] = WalkStep(F[t \ {Max(t)}], s[Max(t)], fails)
        BY <2>1, <2>7, <3>1
      <4> QED BY <3>1, <4>1, <4>2
    <3>2. F[{}] = start
      BY <2>1, <2>7
    <3> HIDE DEF op, Solves
    <3> QED BY <1>2, <2>1, <2>2, <3>1, <3>2 DEF Folds, Foldable
  <2> QED BY <2>8 DEF F
<1>4. \A s \in Seq(TmuxTyped) : WalkTable(s, start, {"ctrl+b"}, fails) = Sol(s)[DOMAIN s]
  BY DEF WalkTable, WalkStep, FoldLeft, MapThenFoldSet
<1>5. WalkTable(<<>>, start, {"ctrl+b"}, fails) = start
  <2>1. <<>> \in Seq(TmuxTyped) /\ DOMAIN <<>> = {}
    OBVIOUS
  <2>2. Sol(<<>>)[{}] = start
    <3>1. Folds(Sol(<<>>), WalkTables, start, op(<<>>), Len(<<>>))
      <4> HIDE DEF Sol, op
      <4> QED BY <1>3, <2>1
    <3> HIDE DEF Sol, op
    <3> QED BY <3>1 DEF Folds
  <2> HIDE DEF Sol
  <2> QED BY <1>4, <2>1, <2>2
<1>6. WalkTable(l, start, {"ctrl+b"}, fails) \in WalkTables
  <2>1. Len(l) \in Nat /\ DOMAIN l = 1 .. Len(l) /\ Len(l) \in 0 .. Len(l)
    OBVIOUS
  <2> DEFINE F == Sol(l)
  <2> HIDE DEF Sol, op
  <2>2. Folds(F, WalkTables, start, op(l), Len(l))
    BY <1>3
  <2> HIDE DEF F
  <2>3. F[1 .. Len(l)] \in WalkTables
    BY <2>1, <2>2, FoldSteps
  <2> QED BY <1>4, <2>1, <2>3 DEF F
<1>7. ASSUME NEW x \in TmuxTyped
      PROVE  WalkTable(Append(l, x), start, {"ctrl+b"}, fails) = WalkStep(WalkTable(l, start, {"ctrl+b"}, fails), x, fails)
  <2>1. l \in Seq(TmuxTyped) /\ Append(l, x) \in Seq(TmuxTyped) /\ Len(l) \in Nat /\ Len(Append(l, x)) = Len(l) + 1
        /\ DOMAIN l = 1 .. Len(l) /\ DOMAIN Append(l, x) = 1 .. Len(l) + 1
        /\ Append(l, x)[Len(l) + 1] = x /\ Len(l) <= Len(l) + 1
        /\ \A i \in 1 .. Len(l) : Append(l, x)[i] = l[i]
    OBVIOUS
  <2>2. \A a \in WalkTables, n \in 1 .. Len(l) : op(Append(l, x))[<<a, n>>] = op(l)[<<a, n>>]
    BY <2>1
  <2>3. op(Append(l, x))[<<WalkTable(l, start, {"ctrl+b"}, fails), Len(l) + 1>>] = WalkStep(WalkTable(l, start, {"ctrl+b"}, fails), x, fails)
    BY <1>6, <2>1
  <2> DEFINE F == Sol(l)
             G == Sol(Append(l, x))
  <2> HIDE DEF Sol, op
  <2>4. Folds(F, WalkTables, start, op(l), Len(l)) /\ Folds(G, WalkTables, start, op(Append(l, x)), Len(l) + 1)
    BY <1>3, <2>1
  <2> HIDE DEF F, G
  <2>5. G[1 .. Len(l) + 1] = op(Append(l, x))[<<F[1 .. Len(l)], Len(l) + 1>>]
    BY <2>1, <2>2, <2>4, FoldMore
  <2>6. WalkTable(l, start, {"ctrl+b"}, fails) = F[1 .. Len(l)] /\ WalkTable(Append(l, x), start, {"ctrl+b"}, fails) = G[1 .. Len(l) + 1]
    BY <1>4, <2>1 DEF F, G
  <2> QED BY <2>3, <2>5, <2>6
<1> QED BY <1>5, <1>6, <1>7

\* The tables of the client, one key after the other.
LEMMA ServerFold ==
    ASSUME NEW start \in TmuxTables,
           NEW l \in Seq(TmuxTyped)
    PROVE  /\ TmuxTableAfter(muxLines, <<>>, start) = start
           /\ TmuxTableAfter(muxLines, l, start) \in TmuxTables
           /\ \A x \in TmuxTyped : TmuxTableAfter(muxLines, Append(l, x), start) = TmuxDoes(muxLines, TmuxTableAfter(muxLines, l, start), x).table
<1> DEFINE op(s) == [p \in TmuxTables \X (1 .. Len(s)) |-> TmuxDoes(muxLines, p[1], s[p[2]]).table]
           Solves(s, F) == F = [t \in SUBSET DOMAIN s |->
               IF t = {} THEN start ELSE TmuxDoes(muxLines, F[t \ {Max(t)}], s[Max(t)]).table]
           Sol(s) == CHOOSE F : Solves(s, F)
<1>1. \A a \in TmuxTables, y \in TmuxTyped : TmuxDoes(muxLines, a, y).table \in TmuxTables
  BY TablesAre
<1>2. start \in TmuxTables
  OBVIOUS
<1>3. ASSUME NEW s \in Seq(TmuxTyped)
      PROVE  Folds(Sol(s), TmuxTables, start, op(s), Len(s))
  <2>1. Len(s) \in Nat /\ DOMAIN s = 1 .. Len(s) /\ \A i \in 1 .. Len(s) : s[i] \in TmuxTyped
    OBVIOUS
  <2>2. op(s) \in [TmuxTables \X (1 .. Len(s)) -> TmuxTables]
    BY <1>1, <2>1
  <2>0. PICK f : Solved(f, TmuxTables, start, op(s), Len(s))
    <3>1. Foldable(TmuxTables, start, op(s), Len(s))
      <4> HIDE DEF op
      <4> QED BY <1>2, <2>1, <2>2 DEF Foldable
    <3> HIDE DEF op
    <3> QED BY <3>1, FoldExists
  <2>3. /\ f \in [SUBSET (1 .. Len(s)) -> TmuxTables]
        /\ f = [t \in SUBSET (1 .. Len(s)) |->
                     IF t = {} THEN start ELSE op(s)[<<f[t \ {Max(t)}], Max(t)>>]]
    <3> HIDE DEF op
    <3> QED BY <2>0 DEF Solved
  <2>4. \A t \in SUBSET (1 .. Len(s)) : t # {} => Max(t) \in t
    BY <2>1, MaxIn
  <2>5. Solves(s, f)
    <3>1. ASSUME NEW t \in SUBSET (1 .. Len(s)), t # {}
          PROVE  op(s)[<<f[t \ {Max(t)}], Max(t)>>] = TmuxDoes(muxLines, f[t \ {Max(t)}], s[Max(t)]).table
      <4>1. Max(t) \in 1 .. Len(s) /\ t \ {Max(t)} \in SUBSET (1 .. Len(s))
        BY <2>4, <3>1
      <4>2. f[t \ {Max(t)}] \in TmuxTables
        BY <2>3, <4>1
      <4> QED BY <4>1, <4>2
    <3> HIDE DEF op
    <3> QED BY <2>1, <2>3, <3>1
  <2>6. Solves(s, Sol(s))
    <3> HIDE DEF Solves
    <3> QED BY <2>5
  <2> DEFINE F == Sol(s)
  <2> HIDE DEF F
  <2>7. Solves(s, F)
    BY <2>6 DEF F
  <2>8. Folds(F, TmuxTables, start, op(s), Len(s))
    <3>1. ASSUME NEW t \in SUBSET (1 .. Len(s)), t # {}, F[t \ {Max(t)}] \in TmuxTables
          PROVE  F[t] = op(s)[<<F[t \ {Max(t)}], Max(t)>>]
      <4>1. Max(t) \in 1 .. Len(s)
        BY <2>4, <3>1
      <4>2. F[t] = TmuxDoes(muxLines, F[t \ {Max(t)}], s[Max(t)]).table
        BY <2>1, <2>7, <3>1
      <4> QED BY <3>1, <4>1, <4>2
    <3>2. F[{}] = start
      BY <2>1, <2>7
    <3> HIDE DEF op, Solves
    <3> QED BY <1>2, <2>1, <2>2, <3>1, <3>2 DEF Folds, Foldable
  <2> QED BY <2>8 DEF F
<1>4. \A s \in Seq(TmuxTyped) : TmuxTableAfter(muxLines, s, start) = Sol(s)[DOMAIN s]
  BY DEF TmuxTableAfter, FoldLeft, MapThenFoldSet
<1>5. TmuxTableAfter(muxLines, <<>>, start) = start
  <2>1. <<>> \in Seq(TmuxTyped) /\ DOMAIN <<>> = {}
    OBVIOUS
  <2>2. Sol(<<>>)[{}] = start
    <3>1. Folds(Sol(<<>>), TmuxTables, start, op(<<>>), Len(<<>>))
      <4> HIDE DEF Sol, op
      <4> QED BY <1>3, <2>1
    <3> HIDE DEF Sol, op
    <3> QED BY <3>1 DEF Folds
  <2> HIDE DEF Sol
  <2> QED BY <1>4, <2>1, <2>2
<1>6. TmuxTableAfter(muxLines, l, start) \in TmuxTables
  <2>1. Len(l) \in Nat /\ DOMAIN l = 1 .. Len(l) /\ Len(l) \in 0 .. Len(l)
    OBVIOUS
  <2> DEFINE F == Sol(l)
  <2> HIDE DEF Sol, op
  <2>2. Folds(F, TmuxTables, start, op(l), Len(l))
    BY <1>3
  <2> HIDE DEF F
  <2>3. F[1 .. Len(l)] \in TmuxTables
    BY <2>1, <2>2, FoldSteps
  <2> QED BY <1>4, <2>1, <2>3 DEF F
<1>7. ASSUME NEW x \in TmuxTyped
      PROVE  TmuxTableAfter(muxLines, Append(l, x), start) = TmuxDoes(muxLines, TmuxTableAfter(muxLines, l, start), x).table
  <2>1. l \in Seq(TmuxTyped) /\ Append(l, x) \in Seq(TmuxTyped) /\ Len(l) \in Nat /\ Len(Append(l, x)) = Len(l) + 1
        /\ DOMAIN l = 1 .. Len(l) /\ DOMAIN Append(l, x) = 1 .. Len(l) + 1
        /\ Append(l, x)[Len(l) + 1] = x /\ Len(l) <= Len(l) + 1
        /\ \A i \in 1 .. Len(l) : Append(l, x)[i] = l[i]
    OBVIOUS
  <2>2. \A a \in TmuxTables, n \in 1 .. Len(l) : op(Append(l, x))[<<a, n>>] = op(l)[<<a, n>>]
    BY <2>1
  <2>3. op(Append(l, x))[<<TmuxTableAfter(muxLines, l, start), Len(l) + 1>>] = TmuxDoes(muxLines, TmuxTableAfter(muxLines, l, start), x).table
    BY <1>6, <2>1
  <2> DEFINE F == Sol(l)
             G == Sol(Append(l, x))
  <2> HIDE DEF Sol, op
  <2>4. Folds(F, TmuxTables, start, op(l), Len(l)) /\ Folds(G, TmuxTables, start, op(Append(l, x)), Len(l) + 1)
    BY <1>3, <2>1
  <2> HIDE DEF F, G
  <2>5. G[1 .. Len(l) + 1] = op(Append(l, x))[<<F[1 .. Len(l)], Len(l) + 1>>]
    BY <2>1, <2>2, <2>4, FoldMore
  <2>6. TmuxTableAfter(muxLines, l, start) = F[1 .. Len(l)] /\ TmuxTableAfter(muxLines, Append(l, x), start) = G[1 .. Len(l) + 1]
    BY <1>4, <2>1 DEF F, G
  <2> QED BY <2>3, <2>5, <2>6
<1> QED BY <1>5, <1>6, <1>7

\* A walk that is not lost ends in the table of the client.
LEMMA WalkIsServer ==
    ASSUME TmuxLines, NEW start \in TmuxTables, NEW fails, NEW l \in Seq(TmuxTyped),
           WalkTable(l, start, {"ctrl+b"}, fails) # "lost"
    PROVE  /\ WalkTable(l, start, {"ctrl+b"}, fails) = TmuxTableAfter(muxLines, l, start)
           /\ TmuxTableAfter(muxLines, l, start) \in TmuxTables
<1> DEFINE Alike(s) == WalkTable(s, start, {"ctrl+b"}, fails) # "lost" =>
                           WalkTable(s, start, {"ctrl+b"}, fails) = TmuxTableAfter(muxLines, s, start)
           S == {s \in Seq(TmuxTyped) : Alike(s)}
<1>1. <<>> \in S
  <2>1. <<>> \in Seq(TmuxTyped)
    OBVIOUS
  <2>2. WalkTable(<<>>, start, {"ctrl+b"}, fails) = start
    BY <2>1, WalkFold
  <2>3. TmuxTableAfter(muxLines, <<>>, start) = start
    BY <2>1, ServerFold
  <2> QED BY <2>1, <2>2, <2>3
<1>2. ASSUME NEW s \in Seq(TmuxTyped), NEW x \in TmuxTyped, s \in S PROVE Append(s, x) \in S
  <2> DEFINE w == WalkTable(s, start, {"ctrl+b"}, fails)
             v == WalkTable(Append(s, x), start, {"ctrl+b"}, fails)
             r == ResolveTmuxKey(muxLines, fails, {"ctrl+b"}, w, x)
  <2>1. w \in WalkTables /\ v = IF w = "lost" \/ r.is = "unavailable" THEN "lost" ELSE NextTable(r)
    BY WalkFold DEF WalkStep
  <2>2. TmuxTableAfter(muxLines, Append(s, x), start) = TmuxDoes(muxLines, TmuxTableAfter(muxLines, s, start), x).table
    BY ServerFold
  <2>3. w # "lost" => w = TmuxTableAfter(muxLines, s, start)
    BY <1>2
  <2>4. SUFFICES ASSUME v # "lost" PROVE v = TmuxTableAfter(muxLines, Append(s, x), start)
    <3>1. Append(s, x) \in Seq(TmuxTyped)
      OBVIOUS
    <3> QED BY <2>4, <3>1
  <2> HIDE DEF w, v
  <2>5. w # "lost" /\ w \in TmuxTables /\ r.is # "unavailable" /\ v = NextTable(r)
    BY <2>1, <2>4 DEF WalkTables
  <2>6. NextTable(r) = TmuxDoes(muxLines, w, x).table
    BY <2>5, ResolvedIsDone
  <2> QED BY <2>2, <2>3, <2>5, <2>6
<1>3. Seq(TmuxTyped) \subseteq S
  <2> HIDE DEF S
  <2> QED BY <1>1, <1>2, AllSequences
<1>4. Alike(l)
  BY <1>3
<1>5. TmuxTableAfter(muxLines, l, start) \in TmuxTables
  BY ServerFold
<1> QED BY <1>4, <1>5

\* A sequence without its last element, and the last element.
LEMMA FrontLast ==
    ASSUME NEW S, NEW s \in Seq(S), s # <<>>
    PROVE  Front(s) \in Seq(S) /\ Last(s) \in S
<1>1. Len(s) \in Nat /\ Len(s) # 0 /\ \A i \in 1 .. Len(s) : s[i] \in S
  OBVIOUS
<1>2. Last(s) \in S
  BY <1>1 DEF Last
<1>3. Front(s) \in Seq(S)
  BY <1>1 DEF Front
<1> QED BY <1>2, <1>3

\* The latest of a set of places is the one after all others.
LEMMA LatestOf ==
    ASSUME NEW N \in Nat, NEW t \in SUBSET (1 .. N), NEW m \in t, \A y \in t : y <= m
    PROVE  Latest(t) = m
<1>1. Latest(t) \in t /\ \A y \in t : y <= Latest(t)
  BY LatestIs
<1>2. Latest(t) <= m /\ m <= Latest(t) /\ Latest(t) \in 1 .. N /\ m \in 1 .. N
  BY <1>1
<1> QED BY <1>2

\* Screen: its lines.
ScreenActs == {"none", "select", "stuff"}
ScreenTables == [ScreenTyped -> ScreenActs]

LEMMA ScreenLineIs ==
    ASSUME NEW l \in ScreenLines
    PROVE  /\ l.key \in ScreenTyped /\ l.act \in ScreenActs
           /\ l.do = "escape" => l.key \in {"ctrl+a", "ctrl+b"}
<1>1. CASE l \in {[do |-> "escape", key |-> k, act |-> "none"] : k \in {"ctrl+a", "ctrl+b"}}
  BY <1>1 DEF ScreenTyped, ScreenActs
<1>2. CASE l \in {[do |-> "bind", key |-> k, act |-> a] : k \in {"a", "ctrl+b"}, a \in {"select", "none"}}
  BY <1>2 DEF ScreenTyped, ScreenActs
<1>3. CASE l \in {[do |-> "bindkey", key |-> k, act |-> a] :
                     k \in {"left", "ctrl+left", "a"}, a \in {"select", "stuff", "none"}}
  BY <1>3 DEF ScreenTyped, ScreenActs
<1> QED BY <1>1, <1>2, <1>3 DEF ScreenLines

\* A line of whykey's reading of the screenrc.
ScreenStep(bound, l, do) == IF l.do = do THEN [bound EXCEPT ![l.key] = l.act] ELSE bound

LEMMA ScreenSteps ==
    ASSUME NEW bound \in ScreenTables, NEW l \in ScreenLines, NEW do
    PROVE  ScreenStep(bound, l, do) \in ScreenTables
BY ScreenLineIs DEF ScreenStep, ScreenTables

\* The screenrc, one line after the other.
LEMMA ScreenFold ==
    ASSUME NEW do,
           NEW l \in Seq(ScreenLines)
    PROVE  /\ ParseScreen(<<>>, do) = [k \in ScreenTyped |-> "none"]
           /\ ParseScreen(l, do) \in ScreenTables
           /\ \A x \in ScreenLines : ParseScreen(Append(l, x), do) = ScreenStep(ParseScreen(l, do), x, do)
<1> DEFINE op(s) == [p \in ScreenTables \X (1 .. Len(s)) |-> ScreenStep(p[1], s[p[2]], do)]
           Solves(s, F) == F = [t \in SUBSET DOMAIN s |->
               IF t = {} THEN [k \in ScreenTyped |-> "none"] ELSE ScreenStep(F[t \ {Max(t)}], s[Max(t)], do)]
           Sol(s) == CHOOSE F : Solves(s, F)
<1>1. \A a \in ScreenTables, y \in ScreenLines : ScreenStep(a, y, do) \in ScreenTables
  BY ScreenSteps
<1>2. [k \in ScreenTyped |-> "none"] \in ScreenTables
  BY DEF ScreenTables, ScreenActs
<1>3. ASSUME NEW s \in Seq(ScreenLines)
      PROVE  Folds(Sol(s), ScreenTables, [k \in ScreenTyped |-> "none"], op(s), Len(s))
  <2>1. Len(s) \in Nat /\ DOMAIN s = 1 .. Len(s) /\ \A i \in 1 .. Len(s) : s[i] \in ScreenLines
    OBVIOUS
  <2>2. op(s) \in [ScreenTables \X (1 .. Len(s)) -> ScreenTables]
    BY <1>1, <2>1
  <2>0. PICK f : Solved(f, ScreenTables, [k \in ScreenTyped |-> "none"], op(s), Len(s))
    <3>1. Foldable(ScreenTables, [k \in ScreenTyped |-> "none"], op(s), Len(s))
      <4> HIDE DEF op
      <4> QED BY <1>2, <2>1, <2>2 DEF Foldable
    <3> HIDE DEF op
    <3> QED BY <3>1, FoldExists
  <2>3. /\ f \in [SUBSET (1 .. Len(s)) -> ScreenTables]
        /\ f = [t \in SUBSET (1 .. Len(s)) |->
                     IF t = {} THEN [k \in ScreenTyped |-> "none"] ELSE op(s)[<<f[t \ {Max(t)}], Max(t)>>]]
    <3> HIDE DEF op
    <3> QED BY <2>0 DEF Solved
  <2>4. \A t \in SUBSET (1 .. Len(s)) : t # {} => Max(t) \in t
    BY <2>1, MaxIn
  <2>5. Solves(s, f)
    <3>1. ASSUME NEW t \in SUBSET (1 .. Len(s)), t # {}
          PROVE  op(s)[<<f[t \ {Max(t)}], Max(t)>>] = ScreenStep(f[t \ {Max(t)}], s[Max(t)], do)
      <4>1. Max(t) \in 1 .. Len(s) /\ t \ {Max(t)} \in SUBSET (1 .. Len(s))
        BY <2>4, <3>1
      <4>2. f[t \ {Max(t)}] \in ScreenTables
        BY <2>3, <4>1
      <4> QED BY <4>1, <4>2
    <3> HIDE DEF op
    <3> QED BY <2>1, <2>3, <3>1
  <2>6. Solves(s, Sol(s))
    <3> HIDE DEF Solves
    <3> QED BY <2>5
  <2> DEFINE F == Sol(s)
  <2> HIDE DEF F
  <2>7. Solves(s, F)
    BY <2>6 DEF F
  <2>8. Folds(F, ScreenTables, [k \in ScreenTyped |-> "none"], op(s), Len(s))
    <3>1. ASSUME NEW t \in SUBSET (1 .. Len(s)), t # {}, F[t \ {Max(t)}] \in ScreenTables
          PROVE  F[t] = op(s)[<<F[t \ {Max(t)}], Max(t)>>]
      <4>1. Max(t) \in 1 .. Len(s)
        BY <2>4, <3>1
      <4>2. F[t] = ScreenStep(F[t \ {Max(t)}], s[Max(t)], do)
        BY <2>1, <2>7, <3>1
      <4> QED BY <3>1, <4>1, <4>2
    <3>2. F[{}] = [k \in ScreenTyped |-> "none"]
      BY <2>1, <2>7
    <3> HIDE DEF op, Solves
    <3> QED BY <1>2, <2>1, <2>2, <3>1, <3>2 DEF Folds, Foldable
  <2> QED BY <2>8 DEF F
<1>4. \A s \in Seq(ScreenLines) : ParseScreen(s, do) = Sol(s)[DOMAIN s]
  BY DEF ParseScreen, ScreenStep, FoldLeft, MapThenFoldSet
<1>5. ParseScreen(<<>>, do) = [k \in ScreenTyped |-> "none"]
  <2>1. <<>> \in Seq(ScreenLines) /\ DOMAIN <<>> = {}
    OBVIOUS
  <2>2. Sol(<<>>)[{}] = [k \in ScreenTyped |-> "none"]
    <3>1. Folds(Sol(<<>>), ScreenTables, [k \in ScreenTyped |-> "none"], op(<<>>), Len(<<>>))
      <4> HIDE DEF Sol, op
      <4> QED BY <1>3, <2>1
    <3> HIDE DEF Sol, op
    <3> QED BY <3>1 DEF Folds
  <2> HIDE DEF Sol
  <2> QED BY <1>4, <2>1, <2>2
<1>6. ParseScreen(l, do) \in ScreenTables
  <2>1. Len(l) \in Nat /\ DOMAIN l = 1 .. Len(l) /\ Len(l) \in 0 .. Len(l)
    OBVIOUS
  <2> DEFINE F == Sol(l)
  <2> HIDE DEF Sol, op
  <2>2. Folds(F, ScreenTables, [k \in ScreenTyped |-> "none"], op(l), Len(l))
    BY <1>3
  <2> HIDE DEF F
  <2>3. F[1 .. Len(l)] \in ScreenTables
    BY <2>1, <2>2, FoldSteps
  <2> QED BY <1>4, <2>1, <2>3 DEF F
<1>7. ASSUME NEW x \in ScreenLines
      PROVE  ParseScreen(Append(l, x), do) = ScreenStep(ParseScreen(l, do), x, do)
  <2>1. l \in Seq(ScreenLines) /\ Append(l, x) \in Seq(ScreenLines) /\ Len(l) \in Nat /\ Len(Append(l, x)) = Len(l) + 1
        /\ DOMAIN l = 1 .. Len(l) /\ DOMAIN Append(l, x) = 1 .. Len(l) + 1
        /\ Append(l, x)[Len(l) + 1] = x /\ Len(l) <= Len(l) + 1
        /\ \A i \in 1 .. Len(l) : Append(l, x)[i] = l[i]
    OBVIOUS
  <2>2. \A a \in ScreenTables, n \in 1 .. Len(l) : op(Append(l, x))[<<a, n>>] = op(l)[<<a, n>>]
    BY <2>1
  <2>3. op(Append(l, x))[<<ParseScreen(l, do), Len(l) + 1>>] = ScreenStep(ParseScreen(l, do), x, do)
    BY <1>6, <2>1
  <2> DEFINE F == Sol(l)
             G == Sol(Append(l, x))
  <2> HIDE DEF Sol, op
  <2>4. Folds(F, ScreenTables, [k \in ScreenTyped |-> "none"], op(l), Len(l)) /\ Folds(G, ScreenTables, [k \in ScreenTyped |-> "none"], op(Append(l, x)), Len(l) + 1)
    BY <1>3, <2>1
  <2> HIDE DEF F, G
  <2>5. G[1 .. Len(l) + 1] = op(Append(l, x))[<<F[1 .. Len(l)], Len(l) + 1>>]
    BY <2>1, <2>2, <2>4, FoldMore
  <2>6. ParseScreen(l, do) = F[1 .. Len(l)] /\ ParseScreen(Append(l, x), do) = G[1 .. Len(l) + 1]
    BY <1>4, <2>1 DEF F, G
  <2> QED BY <2>3, <2>5, <2>6
<1> QED BY <1>5, <1>6, <1>7

\* The lines of a sequence, and what the last one of them does.
LinesFor(lines, do, key) == {i \in DOMAIN lines : lines[i].do = do /\ lines[i].key = key}
DoneBy(lines, do, key) ==
    IF LinesFor(lines, do, key) = {} THEN "none" ELSE lines[Latest(LinesFor(lines, do, key))].act

\* The reading binds what the latest line of a key says.
LEMMA ParsedIs ==
    ASSUME NEW lines \in Seq(ScreenLines), NEW do, NEW key \in ScreenTyped
    PROVE  ParseScreen(lines, do)[key] = DoneBy(lines, do, key)
<1> DEFINE S == {s \in Seq(ScreenLines) : ParseScreen(s, do)[key] = DoneBy(s, do, key)}
<1>1. <<>> \in S
  <2>1. <<>> \in Seq(ScreenLines) /\ DOMAIN <<>> = {}
    OBVIOUS
  <2>2. ParseScreen(<<>>, do) = [k \in ScreenTyped |-> "none"]
    BY <2>1, ScreenFold
  <2>3. LinesFor(<<>>, do, key) = {}
    BY <2>1 DEF LinesFor
  <2> QED BY <2>1, <2>2, <2>3 DEF DoneBy
<1>2. ASSUME NEW s \in Seq(ScreenLines), NEW x \in ScreenLines, s \in S PROVE Append(s, x) \in S
  <2> DEFINE u == Append(s, x)
             mine == LinesFor(s, do, key)
             more == LinesFor(u, do, key)
  <2>1. /\ u \in Seq(ScreenLines) /\ Len(s) \in Nat
        /\ DOMAIN s = 1 .. Len(s) /\ DOMAIN u = 1 .. Len(s) + 1
        /\ u[Len(s) + 1] = x /\ \A i \in 1 .. Len(s) : u[i] = s[i]
    OBVIOUS
  <2>2. ParseScreen(u, do) = ScreenStep(ParseScreen(s, do), x, do) /\ ParseScreen(s, do) \in ScreenTables
    BY ScreenFold
  <2>3. ParseScreen(s, do)[key] = DoneBy(s, do, key)
    BY <1>2
  <2> HIDE DEF u
  <2>4. mine \in SUBSET (1 .. Len(s)) /\ more \in SUBSET (1 .. Len(s) + 1)
    BY <2>1 DEF LinesFor
  <2>5. more = mine \cup (IF x.do = do /\ x.key = key THEN {Len(s) + 1} ELSE {})
    BY <2>1 DEF LinesFor
  <2>6. CASE x.do = do /\ x.key = key
    <3>1. ParseScreen(u, do)[key] = x.act
      BY <2>2, <2>6 DEF ScreenStep, ScreenTables
    <3>2. Len(s) + 1 \in more /\ \A y \in more : y <= Len(s) + 1
      BY <2>1, <2>4, <2>5, <2>6
    <3>3. Latest(more) = Len(s) + 1
      <4> HIDE DEF more
      <4> QED BY <2>1, <2>4, <3>2, LatestOf
    <3>4. DoneBy(u, do, key) = x.act
      BY <2>1, <3>2, <3>3 DEF DoneBy
    <3> QED BY <2>1, <3>1, <3>4 DEF u
  <2>7. CASE ~(x.do = do /\ x.key = key)
    <3>1. ParseScreen(u, do)[key] = ParseScreen(s, do)[key]
      BY <2>2, <2>7 DEF ScreenStep, ScreenTables
    <3>2. more = mine
      BY <2>5, <2>7
    <3>3. DoneBy(u, do, key) = DoneBy(s, do, key)
      <4>1. CASE mine = {}
        BY <3>2, <4>1 DEF DoneBy
      <4>2. CASE mine # {}
        <5>1. Latest(mine) \in mine
          <6> HIDE DEF mine
          <6> QED BY <2>1, <2>4, <4>2, LatestIs
        <5>2. u[Latest(mine)] = s[Latest(mine)]
          BY <2>1, <2>4, <5>1
        <5> QED BY <3>2, <4>2, <5>2 DEF DoneBy
      <4> QED BY <4>1, <4>2
    <3> QED BY <2>1, <2>3, <3>1, <3>3 DEF u
  <2> QED BY <2>6, <2>7
<1>3. Seq(ScreenLines) \subseteq S
  <2> HIDE DEF S
  <2> QED BY <1>1, <1>2, AllSequences
<1> QED BY <1>3

\* The command key of Screen is one that escape lines can name.
LEMMA PrefixIs ==
    ASSUME muxLines \in Seq(ScreenLines)
    PROVE  CommandPrefix(muxLines) \in {"ctrl+a", "ctrl+b"}
<1> DEFINE escapes == {i \in DOMAIN muxLines : muxLines[i].do = "escape"}
<1>1. CommandPrefix(muxLines) = IF escapes = {} THEN "ctrl+a" ELSE muxLines[Latest(escapes)].key
  BY DEF CommandPrefix
<1>2. escapes \in SUBSET (1 .. Len(muxLines)) /\ Len(muxLines) \in Nat
  OBVIOUS
<1>3. CASE escapes # {}
  <2>1. Latest(escapes) \in escapes
    <3> HIDE DEF escapes
    <3> QED BY <1>2, <1>3, LatestIs
  <2>2. muxLines[Latest(escapes)] \in ScreenLines /\ muxLines[Latest(escapes)].do = "escape"
    BY <2>1
  <2> QED BY <1>1, <1>3, <2>2, ScreenLineIs
<1> QED BY <1>1, <1>3

\* A key of the walk over the keys before the last one, in whykey and in Screen.
NotPending == FALSE
PendingStep(pending, key) == ~pending /\ ScreenKeyBytes(key) = CommandPrefix(muxLines)
WaitStep(pending, key) == ~pending /\ key = CommandPrefix(muxLines)

\* The prefix in whykey's walk.
LEMMA PendingFold ==
    ASSUME NEW l \in Seq(ScreenTyped)
    PROVE  /\ PrefixPending(<<>>) = NotPending
           /\ PrefixPending(l) \in BOOLEAN
           /\ \A x \in ScreenTyped : PrefixPending(Append(l, x)) = PendingStep(PrefixPending(l), x)
<1> DEFINE op(s) == [p \in BOOLEAN \X (1 .. Len(s)) |-> PendingStep(p[1], s[p[2]])]
           Solves(s, F) == F = [t \in SUBSET DOMAIN s |->
               IF t = {} THEN NotPending ELSE PendingStep(F[t \ {Max(t)}], s[Max(t)])]
           Sol(s) == CHOOSE F : Solves(s, F)
<1>1. \A a \in BOOLEAN, y \in ScreenTyped : PendingStep(a, y) \in BOOLEAN
  BY DEF PendingStep
<1>2. NotPending \in BOOLEAN
  BY DEF NotPending
<1>3. ASSUME NEW s \in Seq(ScreenTyped)
      PROVE  Folds(Sol(s), BOOLEAN, NotPending, op(s), Len(s))
  <2>1. Len(s) \in Nat /\ DOMAIN s = 1 .. Len(s) /\ \A i \in 1 .. Len(s) : s[i] \in ScreenTyped
    OBVIOUS
  <2>2. op(s) \in [BOOLEAN \X (1 .. Len(s)) -> BOOLEAN]
    BY <1>1, <2>1
  <2>0. PICK f : Solved(f, BOOLEAN, NotPending, op(s), Len(s))
    <3>1. Foldable(BOOLEAN, NotPending, op(s), Len(s))
      <4> HIDE DEF op
      <4> QED BY <1>2, <2>1, <2>2 DEF Foldable
    <3> HIDE DEF op
    <3> QED BY <3>1, FoldExists
  <2>3. /\ f \in [SUBSET (1 .. Len(s)) -> BOOLEAN]
        /\ f = [t \in SUBSET (1 .. Len(s)) |->
                     IF t = {} THEN NotPending ELSE op(s)[<<f[t \ {Max(t)}], Max(t)>>]]
    <3> HIDE DEF op
    <3> QED BY <2>0 DEF Solved
  <2>4. \A t \in SUBSET (1 .. Len(s)) : t # {} => Max(t) \in t
    BY <2>1, MaxIn
  <2>5. Solves(s, f)
    <3>1. ASSUME NEW t \in SUBSET (1 .. Len(s)), t # {}
          PROVE  op(s)[<<f[t \ {Max(t)}], Max(t)>>] = PendingStep(f[t \ {Max(t)}], s[Max(t)])
      <4>1. Max(t) \in 1 .. Len(s) /\ t \ {Max(t)} \in SUBSET (1 .. Len(s))
        BY <2>4, <3>1
      <4>2. f[t \ {Max(t)}] \in BOOLEAN
        BY <2>3, <4>1
      <4> QED BY <4>1, <4>2
    <3> HIDE DEF op
    <3> QED BY <2>1, <2>3, <3>1
  <2>6. Solves(s, Sol(s))
    <3> HIDE DEF Solves
    <3> QED BY <2>5
  <2> DEFINE F == Sol(s)
  <2> HIDE DEF F
  <2>7. Solves(s, F)
    BY <2>6 DEF F
  <2>8. Folds(F, BOOLEAN, NotPending, op(s), Len(s))
    <3>1. ASSUME NEW t \in SUBSET (1 .. Len(s)), t # {}, F[t \ {Max(t)}] \in BOOLEAN
          PROVE  F[t] = op(s)[<<F[t \ {Max(t)}], Max(t)>>]
      <4>1. Max(t) \in 1 .. Len(s)
        BY <2>4, <3>1
      <4>2. F[t] = PendingStep(F[t \ {Max(t)}], s[Max(t)])
        BY <2>1, <2>7, <3>1
      <4> QED BY <3>1, <4>1, <4>2
    <3>2. F[{}] = NotPending
      BY <2>1, <2>7
    <3> HIDE DEF op, Solves
    <3> QED BY <1>2, <2>1, <2>2, <3>1, <3>2 DEF Folds, Foldable
  <2> QED BY <2>8 DEF F
<1>4. \A s \in Seq(ScreenTyped) : PrefixPending(s) = Sol(s)[DOMAIN s]
  BY DEF PrefixPending, PendingStep, NotPending, FoldLeft, MapThenFoldSet
<1>5. PrefixPending(<<>>) = NotPending
  <2>1. <<>> \in Seq(ScreenTyped) /\ DOMAIN <<>> = {}
    OBVIOUS
  <2>2. Sol(<<>>)[{}] = NotPending
    <3>1. Folds(Sol(<<>>), BOOLEAN, NotPending, op(<<>>), Len(<<>>))
      <4> HIDE DEF Sol, op
      <4> QED BY <1>3, <2>1
    <3> HIDE DEF Sol, op
    <3> QED BY <3>1 DEF Folds
  <2> HIDE DEF Sol
  <2> QED BY <1>4, <2>1, <2>2
<1>6. PrefixPending(l) \in BOOLEAN
  <2>1. Len(l) \in Nat /\ DOMAIN l = 1 .. Len(l) /\ Len(l) \in 0 .. Len(l)
    OBVIOUS
  <2> DEFINE F == Sol(l)
  <2> HIDE DEF Sol, op
  <2>2. Folds(F, BOOLEAN, NotPending, op(l), Len(l))
    BY <1>3
  <2> HIDE DEF F
  <2>3. F[1 .. Len(l)] \in BOOLEAN
    BY <2>1, <2>2, FoldSteps
  <2> QED BY <1>4, <2>1, <2>3 DEF F
<1>7. ASSUME NEW x \in ScreenTyped
      PROVE  PrefixPending(Append(l, x)) = PendingStep(PrefixPending(l), x)
  <2>1. l \in Seq(ScreenTyped) /\ Append(l, x) \in Seq(ScreenTyped) /\ Len(l) \in Nat /\ Len(Append(l, x)) = Len(l) + 1
        /\ DOMAIN l = 1 .. Len(l) /\ DOMAIN Append(l, x) = 1 .. Len(l) + 1
        /\ Append(l, x)[Len(l) + 1] = x /\ Len(l) <= Len(l) + 1
        /\ \A i \in 1 .. Len(l) : Append(l, x)[i] = l[i]
    OBVIOUS
  <2>2. \A a \in BOOLEAN, n \in 1 .. Len(l) : op(Append(l, x))[<<a, n>>] = op(l)[<<a, n>>]
    BY <2>1
  <2>3. op(Append(l, x))[<<PrefixPending(l), Len(l) + 1>>] = PendingStep(PrefixPending(l), x)
    BY <1>6, <2>1
  <2> DEFINE F == Sol(l)
             G == Sol(Append(l, x))
  <2> HIDE DEF Sol, op
  <2>4. Folds(F, BOOLEAN, NotPending, op(l), Len(l)) /\ Folds(G, BOOLEAN, NotPending, op(Append(l, x)), Len(l) + 1)
    BY <1>3, <2>1
  <2> HIDE DEF F, G
  <2>5. G[1 .. Len(l) + 1] = op(Append(l, x))[<<F[1 .. Len(l)], Len(l) + 1>>]
    BY <2>1, <2>2, <2>4, FoldMore
  <2>6. PrefixPending(l) = F[1 .. Len(l)] /\ PrefixPending(Append(l, x)) = G[1 .. Len(l) + 1]
    BY <1>4, <2>1 DEF F, G
  <2> QED BY <2>3, <2>5, <2>6
<1> QED BY <1>5, <1>6, <1>7

\* The prefix in Screen.
LEMMA WaitFold ==
    ASSUME NEW l \in Seq(ScreenTyped)
    PROVE  /\ ScreenWaits(muxLines, <<>>) = NotPending
           /\ ScreenWaits(muxLines, l) \in BOOLEAN
           /\ \A x \in ScreenTyped : ScreenWaits(muxLines, Append(l, x)) = WaitStep(ScreenWaits(muxLines, l), x)
<1> DEFINE op(s) == [p \in BOOLEAN \X (1 .. Len(s)) |-> WaitStep(p[1], s[p[2]])]
           Solves(s, F) == F = [t \in SUBSET DOMAIN s |->
               IF t = {} THEN NotPending ELSE WaitStep(F[t \ {Max(t)}], s[Max(t)])]
           Sol(s) == CHOOSE F : Solves(s, F)
<1>1. \A a \in BOOLEAN, y \in ScreenTyped : WaitStep(a, y) \in BOOLEAN
  BY DEF WaitStep
<1>2. NotPending \in BOOLEAN
  BY DEF NotPending
<1>3. ASSUME NEW s \in Seq(ScreenTyped)
      PROVE  Folds(Sol(s), BOOLEAN, NotPending, op(s), Len(s))
  <2>1. Len(s) \in Nat /\ DOMAIN s = 1 .. Len(s) /\ \A i \in 1 .. Len(s) : s[i] \in ScreenTyped
    OBVIOUS
  <2>2. op(s) \in [BOOLEAN \X (1 .. Len(s)) -> BOOLEAN]
    BY <1>1, <2>1
  <2>0. PICK f : Solved(f, BOOLEAN, NotPending, op(s), Len(s))
    <3>1. Foldable(BOOLEAN, NotPending, op(s), Len(s))
      <4> HIDE DEF op
      <4> QED BY <1>2, <2>1, <2>2 DEF Foldable
    <3> HIDE DEF op
    <3> QED BY <3>1, FoldExists
  <2>3. /\ f \in [SUBSET (1 .. Len(s)) -> BOOLEAN]
        /\ f = [t \in SUBSET (1 .. Len(s)) |->
                     IF t = {} THEN NotPending ELSE op(s)[<<f[t \ {Max(t)}], Max(t)>>]]
    <3> HIDE DEF op
    <3> QED BY <2>0 DEF Solved
  <2>4. \A t \in SUBSET (1 .. Len(s)) : t # {} => Max(t) \in t
    BY <2>1, MaxIn
  <2>5. Solves(s, f)
    <3>1. ASSUME NEW t \in SUBSET (1 .. Len(s)), t # {}
          PROVE  op(s)[<<f[t \ {Max(t)}], Max(t)>>] = WaitStep(f[t \ {Max(t)}], s[Max(t)])
      <4>1. Max(t) \in 1 .. Len(s) /\ t \ {Max(t)} \in SUBSET (1 .. Len(s))
        BY <2>4, <3>1
      <4>2. f[t \ {Max(t)}] \in BOOLEAN
        BY <2>3, <4>1
      <4> QED BY <4>1, <4>2
    <3> HIDE DEF op
    <3> QED BY <2>1, <2>3, <3>1
  <2>6. Solves(s, Sol(s))
    <3> HIDE DEF Solves
    <3> QED BY <2>5
  <2> DEFINE F == Sol(s)
  <2> HIDE DEF F
  <2>7. Solves(s, F)
    BY <2>6 DEF F
  <2>8. Folds(F, BOOLEAN, NotPending, op(s), Len(s))
    <3>1. ASSUME NEW t \in SUBSET (1 .. Len(s)), t # {}, F[t \ {Max(t)}] \in BOOLEAN
          PROVE  F[t] = op(s)[<<F[t \ {Max(t)}], Max(t)>>]
      <4>1. Max(t) \in 1 .. Len(s)
        BY <2>4, <3>1
      <4>2. F[t] = WaitStep(F[t \ {Max(t)}], s[Max(t)])
        BY <2>1, <2>7, <3>1
      <4> QED BY <3>1, <4>1, <4>2
    <3>2. F[{}] = NotPending
      BY <2>1, <2>7
    <3> HIDE DEF op, Solves
    <3> QED BY <1>2, <2>1, <2>2, <3>1, <3>2 DEF Folds, Foldable
  <2> QED BY <2>8 DEF F
<1>4. \A s \in Seq(ScreenTyped) : ScreenWaits(muxLines, s) = Sol(s)[DOMAIN s]
  BY DEF ScreenWaits, WaitStep, NotPending, FoldLeft, MapThenFoldSet
<1>5. ScreenWaits(muxLines, <<>>) = NotPending
  <2>1. <<>> \in Seq(ScreenTyped) /\ DOMAIN <<>> = {}
    OBVIOUS
  <2>2. Sol(<<>>)[{}] = NotPending
    <3>1. Folds(Sol(<<>>), BOOLEAN, NotPending, op(<<>>), Len(<<>>))
      <4> HIDE DEF Sol, op
      <4> QED BY <1>3, <2>1
    <3> HIDE DEF Sol, op
    <3> QED BY <3>1 DEF Folds
  <2> HIDE DEF Sol
  <2> QED BY <1>4, <2>1, <2>2
<1>6. ScreenWaits(muxLines, l) \in BOOLEAN
  <2>1. Len(l) \in Nat /\ DOMAIN l = 1 .. Len(l) /\ Len(l) \in 0 .. Len(l)
    OBVIOUS
  <2> DEFINE F == Sol(l)
  <2> HIDE DEF Sol, op
  <2>2. Folds(F, BOOLEAN, NotPending, op(l), Len(l))
    BY <1>3
  <2> HIDE DEF F
  <2>3. F[1 .. Len(l)] \in BOOLEAN
    BY <2>1, <2>2, FoldSteps
  <2> QED BY <1>4, <2>1, <2>3 DEF F
<1>7. ASSUME NEW x \in ScreenTyped
      PROVE  ScreenWaits(muxLines, Append(l, x)) = WaitStep(ScreenWaits(muxLines, l), x)
  <2>1. l \in Seq(ScreenTyped) /\ Append(l, x) \in Seq(ScreenTyped) /\ Len(l) \in Nat /\ Len(Append(l, x)) = Len(l) + 1
        /\ DOMAIN l = 1 .. Len(l) /\ DOMAIN Append(l, x) = 1 .. Len(l) + 1
        /\ Append(l, x)[Len(l) + 1] = x /\ Len(l) <= Len(l) + 1
        /\ \A i \in 1 .. Len(l) : Append(l, x)[i] = l[i]
    OBVIOUS
  <2>2. \A a \in BOOLEAN, n \in 1 .. Len(l) : op(Append(l, x))[<<a, n>>] = op(l)[<<a, n>>]
    BY <2>1
  <2>3. op(Append(l, x))[<<ScreenWaits(muxLines, l), Len(l) + 1>>] = WaitStep(ScreenWaits(muxLines, l), x)
    BY <1>6, <2>1
  <2> DEFINE F == Sol(l)
             G == Sol(Append(l, x))
  <2> HIDE DEF Sol, op
  <2>4. Folds(F, BOOLEAN, NotPending, op(l), Len(l)) /\ Folds(G, BOOLEAN, NotPending, op(Append(l, x)), Len(l) + 1)
    BY <1>3, <2>1
  <2> HIDE DEF F, G
  <2>5. G[1 .. Len(l) + 1] = op(Append(l, x))[<<F[1 .. Len(l)], Len(l) + 1>>]
    BY <2>1, <2>2, <2>4, FoldMore
  <2>6. ScreenWaits(muxLines, l) = F[1 .. Len(l)] /\ ScreenWaits(muxLines, Append(l, x)) = G[1 .. Len(l) + 1]
    BY <1>4, <2>1 DEF F, G
  <2> QED BY <2>3, <2>5, <2>6
<1> QED BY <1>5, <1>6, <1>7

\* Both wait alike for the key after the prefix.
LEMMA PendingIs ==
    ASSUME muxLines \in Seq(ScreenLines), NEW keys \in Seq(ScreenTyped)
    PROVE  PrefixPending(keys) = ScreenWaits(muxLines, keys)
<1> DEFINE S == {s \in Seq(ScreenTyped) : PrefixPending(s) = ScreenWaits(muxLines, s)}
<1>1. <<>> \in S
  <2>1. <<>> \in Seq(ScreenTyped)
    OBVIOUS
  <2>2. PrefixPending(<<>>) = NotPending
    BY <2>1, PendingFold
  <2>3. ScreenWaits(muxLines, <<>>) = NotPending
    BY <2>1, WaitFold
  <2> QED BY <2>1, <2>2, <2>3
<1>2. ASSUME NEW s \in Seq(ScreenTyped), NEW x \in ScreenTyped, s \in S PROVE Append(s, x) \in S
  <2>1. PrefixPending(Append(s, x)) = PendingStep(PrefixPending(s), x)
    BY PendingFold
  <2>2. ScreenWaits(muxLines, Append(s, x)) = WaitStep(ScreenWaits(muxLines, s), x)
    BY WaitFold
  <2>3. (ScreenKeyBytes(x) = CommandPrefix(muxLines)) <=> (x = CommandPrefix(muxLines))
    BY PrefixIs DEF ScreenKeyBytes
  <2>4. PrefixPending(s) = ScreenWaits(muxLines, s)
    BY <1>2
  <2>5. PendingStep(PrefixPending(s), x) = WaitStep(ScreenWaits(muxLines, s), x)
    BY <2>3, <2>4 DEF PendingStep, WaitStep
  <2>6. Append(s, x) \in Seq(ScreenTyped)
    OBVIOUS
  <2> QED BY <2>1, <2>2, <2>5, <2>6
<1>3. Seq(ScreenTyped) \subseteq S
  <2> HIDE DEF S
  <2> QED BY <1>1, <1>2, AllSequences
<1> QED BY <1>3

\* A definite verdict on a key of Screen is what Screen does with it.
LEMMA ScreenIsDone ==
    ASSUME muxLines \in Seq(ScreenLines), NEW keys \in Seq(ScreenTyped), keys # <<>>,
           Last(keys) # "left", ScreenOutcome(keys) \in {"consumed", "passed", "pass"}
    PROVE  ScreenOutcome(keys) = ScreenDoes(muxLines, ScreenWaits(muxLines, Front(keys)), Last(keys))
<1> DEFINE key == Last(keys)
           bindkeys == ParseScreen(muxLines, "bindkey")
           found == {k \in ScreenInputCandidates(key) : bindkeys[k] # "none"}
           bound == ScreenBound(muxLines, "bindkey", key)
<1>1. key \in ScreenTyped /\ Front(keys) \in Seq(ScreenTyped)
  BY FrontLast
<1>2. PrefixPending(Front(keys)) = ScreenWaits(muxLines, Front(keys))
  BY <1>1, PendingIs
<1>3. (ScreenKeyBytes(key) = CommandPrefix(muxLines)) <=> (key = CommandPrefix(muxLines))
  BY PrefixIs DEF ScreenKeyBytes
<1>4. bindkeys[key] = bound
  <2>1. bound = DoneBy(muxLines, "bindkey", key)
    BY DEF ScreenBound, DoneBy, LinesFor
  <2> QED BY <1>1, <2>1, ParsedIs
<1>5. bindkeys \in ScreenTables
  BY ScreenFold
<1>6. ScreenInputCandidates(key) = {key}
  <2>1. key \in {"a", "ctrl+a", "ctrl+b", "ctrl+left"}
    BY <1>1 DEF ScreenTyped
  <2> QED BY <2>1 DEF ScreenInputCandidates, ScreenKeyBytes
<1>7. found = IF bound # "none" THEN {key} ELSE {}
  BY <1>4, <1>6
<1>8. bound \in ScreenActs
  BY <1>1, <1>4, <1>5 DEF ScreenTables
<1>9. ScreenOutcome(keys) =
        IF ScreenWaits(muxLines, Front(keys)) \/ key = CommandPrefix(muxLines) THEN "consumed"
        ELSE IF found # {} THEN IF \E k \in found : bindkeys[k] = "stuff" THEN "passed" ELSE "consumed"
        ELSE IF key # "left" /\ ParseScreen(muxLines, "bind")[key] # "none" THEN "maybe" ELSE "pass"
  BY <1>2, <1>3 DEF ScreenOutcome
<1>10. ScreenDoes(muxLines, ScreenWaits(muxLines, Front(keys)), key) =
         IF ScreenWaits(muxLines, Front(keys)) \/ key = CommandPrefix(muxLines) THEN "consumed"
         ELSE IF bound = "stuff" THEN "passed" ELSE IF bound = "select" THEN "consumed" ELSE "pass"
  <2>1. "stuff" # "select"
    OBVIOUS
  <2> HIDE DEF bound
  <2> QED BY <1>8, <2>1 DEF ScreenDoes, bound
<1> HIDE DEF key, bindkeys, found, bound
<1>11. CASE ScreenWaits(muxLines, Front(keys)) \/ key = CommandPrefix(muxLines)
  BY <1>9, <1>10, <1>11 DEF key
<1>12. CASE ~(ScreenWaits(muxLines, Front(keys)) \/ key = CommandPrefix(muxLines)) /\ bound = "none"
  <2>1. found = {}
    BY <1>7, <1>12
  <2>2. ScreenOutcome(keys) \in {"maybe", "pass"}
    BY <1>9, <1>12, <2>1
  <2>3. ScreenDoes(muxLines, ScreenWaits(muxLines, Front(keys)), key) = "pass"
    BY <1>10, <1>12
  <2> QED BY <2>2, <2>3 DEF key
<1>13. CASE ~(ScreenWaits(muxLines, Front(keys)) \/ key = CommandPrefix(muxLines)) /\ bound # "none"
  <2>1. found = {key} /\ bound \in {"select", "stuff"}
    BY <1>7, <1>8, <1>13 DEF ScreenActs
  <2>2. ScreenOutcome(keys) = IF bound = "stuff" THEN "passed" ELSE "consumed"
    BY <1>4, <1>9, <1>13, <2>1
  <2>3. ScreenDoes(muxLines, ScreenWaits(muxLines, Front(keys)), key) = IF bound = "stuff" THEN "passed" ELSE "consumed"
    BY <1>10, <1>13, <2>1
  <2> QED BY <2>2, <2>3 DEF key
<1> QED BY <1>11, <1>12, <1>13

\* Zellij: the reader over the lines of a block, inside one or beside.
ScannedLines == [is : {"open", "bind", "close"}, block : ZellijBlocks, binds : BOOLEAN, depth : Int]
Scan(inside, depth, ignored, found) ==
    [inside |-> inside, depth |-> depth, ignored |-> ignored, found |-> found]
Yes == TRUE
No == FALSE
Inside(depth, ignored, found) == Scan(Yes, depth, ignored, found)
Beside(depth, ignored, found) == Scan(No, depth, ignored, found)
ZellijFound == {"none", "quit", "write"}
Scans == {Inside(d, g, f) : d \in Int, g \in Int, f \in ZellijFound}
         \cup {Beside(d, g, f) : d \in Int, g \in Int, f \in ZellijFound}

Shared(line) == line.block.who \in {"except", "among"}
FoundIn(line, key, found) == IF line.binds /\ key = "x" THEN line.block.act ELSE found

\* Its fields, and each change the reader makes of them.
LEMMA ScanFields ==
    ASSUME NEW i, NEW d, NEW g, NEW f
    PROVE  /\ Scan(i, d, g, f).inside = i /\ Scan(i, d, g, f).depth = d
           /\ Scan(i, d, g, f).ignored = g /\ Scan(i, d, g, f).found = f
BY DEF Scan

LEMMA ScanIgnores ==
    ASSUME NEW i, NEW d, NEW g, NEW f, NEW y
    PROVE  [Scan(i, d, g, f) EXCEPT !.ignored = y] = Scan(i, d, y, f)
BY DEF Scan

LEMMA ScanTurns ==
    ASSUME NEW i, NEW d, NEW g, NEW f, NEW x
    PROVE  [Scan(i, d, g, f) EXCEPT !.inside = x] = Scan(x, d, g, f)
BY DEF Scan

LEMMA ScanDeepens ==
    ASSUME NEW i, NEW d, NEW g, NEW f, NEW y
    PROVE  [Scan(i, d, g, f) EXCEPT !.depth = y] = Scan(i, y, g, f)
BY DEF Scan

LEMMA ScanFinds ==
    ASSUME NEW i, NEW d, NEW g, NEW f, NEW z
    PROVE  [Scan(i, d, g, f) EXCEPT !.found = z] = Scan(i, d, g, z)
BY DEF Scan

LEMMA AreScans ==
    ASSUME NEW d \in Int, NEW g \in Int, NEW f \in ZellijFound
    PROVE  Inside(d, g, f) \in Scans /\ Beside(d, g, f) \in Scans
BY DEF Scans

\* What a line makes of the reader beside a block.
LEMMA BesideLine ==
    ASSUME NEW d, NEW g, NEW f, NEW line, NEW mode, NEW key
    PROVE  ScanLine(Beside(d, g, f), line, mode, key) =
              IF g > 0 THEN Beside(d, g + line.depth, f)
              ELSE IF line.is = "open" /\ Shared(line) /\ ~BlockApplies(line.block, mode) THEN Beside(d, 1, f)
              ELSE IF line.is = "open" /\ (Shared(line) \/ line.block.who = mode)
              THEN Inside(1, g, FoundIn(line, key, f))
              ELSE Beside(d, g, f)
<1> DEFINE scan == Beside(d, g, f)
           depth == d + line.depth
           found == FoundIn(line, key, f)
           after == ScanLine(scan, line, mode, key)
           none == line.is = "open" /\ Shared(line) /\ ~BlockApplies(line.block, mode)
           opens == line.is = "open" /\ (Shared(line) \/ line.block.who = mode)
<1>1. ~scan.inside /\ scan.depth = d /\ scan.ignored = g /\ scan.found = f
  <2>1. scan.inside = No
    BY ScanFields DEF Beside
  <2>2. ~scan.inside
    BY <2>1 DEF No
  <2> QED BY <2>2, ScanFields DEF Beside
<1>2. found = IF line.binds /\ key = "x" THEN line.block.act ELSE scan.found
  BY <1>1 DEF FoundIn
<1>3. ASSUME NEW y PROVE [scan EXCEPT !.ignored = y] = Beside(d, y, f)
  BY ScanIgnores DEF Beside
<1>4. ASSUME NEW z PROVE [scan EXCEPT !.inside = TRUE, !.depth = 1, !.found = z] = Inside(1, g, z)
  <2>1. scan = Scan(No, d, g, f)
    BY DEF Beside
  <2> HIDE DEF scan
  <2>2. [scan EXCEPT !.inside = Yes, !.depth = 1, !.found = z]
           = [[[scan EXCEPT !.inside = Yes] EXCEPT !.depth = 1] EXCEPT !.found = z]
    OBVIOUS
  <2>3. [scan EXCEPT !.inside = Yes] = Scan(Yes, d, g, f)
    BY <2>1, ScanTurns
  <2>4. [Scan(Yes, d, g, f) EXCEPT !.depth = 1] = Scan(Yes, 1, g, f)
    BY ScanDeepens
  <2>5. [Scan(Yes, 1, g, f) EXCEPT !.found = z] = Scan(Yes, 1, g, z)
    BY ScanFinds
  <2>6. [scan EXCEPT !.inside = Yes, !.depth = 1, !.found = z] = Inside(1, g, z)
    BY <2>2, <2>3, <2>4, <2>5 DEF Inside
  <2> QED BY <2>6 DEF Yes
<1> HIDE DEF scan
<1>7. /\ scan.ignored > 0 => after = [scan EXCEPT !.ignored = scan.ignored + line.depth]
      /\ ~ (scan.ignored > 0) /\ none => after = [scan EXCEPT !.ignored = 1]
      /\ ~ (scan.ignored > 0) /\ ~none /\ opens =>
            after = [scan EXCEPT !.inside = TRUE, !.depth = 1,
                                 !.found = IF line.binds /\ key = "x" THEN line.block.act ELSE scan.found]
  BY DEF ScanLine, Shared
<1>8. ASSUME ~ (scan.ignored > 0), ~none, ~opens
      PROVE  after = scan
  BY <1>1, <1>8 DEF ScanLine, Shared
<1> HIDE DEF after, found, none, opens, depth
<1>9. CASE g > 0
  <2>1. after = Beside(d, g + line.depth, f)
    BY <1>1, <1>3, <1>7, <1>9
  <2> QED BY <1>9, <2>1 DEF after, scan
<1>10. CASE ~ (g > 0) /\ none
  <2>1. after = Beside(d, 1, f)
    BY <1>1, <1>3, <1>7, <1>10
  <2> QED BY <1>10, <2>1 DEF after, scan, none
<1>11. CASE ~ (g > 0) /\ ~none /\ opens
  <2>1. after = Inside(1, g, found)
    BY <1>1, <1>2, <1>4, <1>7, <1>11
  <2> QED BY <1>11, <2>1 DEF after, scan, none, opens, found
<1>12. CASE ~ (g > 0) /\ ~none /\ ~opens
  <2>1. after = scan
    BY <1>1, <1>8, <1>12
  <2> QED BY <1>12, <2>1 DEF after, scan, none, opens
<1> QED BY <1>9, <1>10, <1>11, <1>12

\* What a line makes of the reader inside a block.
LEMMA InsideLine ==
    ASSUME NEW d, NEW g, NEW f, NEW line, NEW mode, NEW key
    PROVE  ScanLine(Inside(d, g, f), line, mode, key) =
              IF g > 0 THEN Inside(d, g + line.depth, f)
              ELSE IF line.is = "open" /\ Shared(line) /\ ~BlockApplies(line.block, mode) THEN Inside(d, 1, f)
              ELSE IF line.is = "open" /\ (Shared(line) \/ line.block.who = mode)
              THEN Inside(1, g, FoundIn(line, key, f))
              ELSE IF d + line.depth <= 0 THEN Beside(d + line.depth, g, f)
              ELSE Inside(d + line.depth, g, IF line.is = "bind" THEN FoundIn(line, key, f) ELSE f)
<1> DEFINE scan == Inside(d, g, f)
           depth == d + line.depth
           found == FoundIn(line, key, f)
           after == ScanLine(scan, line, mode, key)
           none == line.is = "open" /\ Shared(line) /\ ~BlockApplies(line.block, mode)
           opens == line.is = "open" /\ (Shared(line) \/ line.block.who = mode)
<1>1. scan.inside /\ scan.depth = d /\ scan.ignored = g /\ scan.found = f
  <2>1. scan.inside = Yes
    BY ScanFields DEF Inside
  <2>2. scan.inside
    BY <2>1 DEF Yes
  <2> QED BY <2>2, ScanFields DEF Inside
<1>2. found = IF line.binds /\ key = "x" THEN line.block.act ELSE scan.found
  BY <1>1 DEF FoundIn
<1>3. ASSUME NEW y PROVE [scan EXCEPT !.ignored = y] = Inside(d, y, f)
  BY ScanIgnores DEF Inside
<1>4. ASSUME NEW z PROVE [scan EXCEPT !.inside = TRUE, !.depth = 1, !.found = z] = Inside(1, g, z)
  <2>1. scan = Scan(Yes, d, g, f)
    BY DEF Inside
  <2> HIDE DEF scan
  <2>2. [scan EXCEPT !.inside = Yes, !.depth = 1, !.found = z]
           = [[[scan EXCEPT !.inside = Yes] EXCEPT !.depth = 1] EXCEPT !.found = z]
    OBVIOUS
  <2>3. [scan EXCEPT !.inside = Yes] = Scan(Yes, d, g, f)
    BY <2>1, ScanTurns
  <2>4. [Scan(Yes, d, g, f) EXCEPT !.depth = 1] = Scan(Yes, 1, g, f)
    BY ScanDeepens
  <2>5. [Scan(Yes, 1, g, f) EXCEPT !.found = z] = Scan(Yes, 1, g, z)
    BY ScanFinds
  <2>6. [scan EXCEPT !.inside = Yes, !.depth = 1, !.found = z] = Inside(1, g, z)
    BY <2>2, <2>3, <2>4, <2>5 DEF Inside
  <2> QED BY <2>6 DEF Yes
<1>5. ASSUME NEW y PROVE [scan EXCEPT !.inside = FALSE, !.depth = y] = Beside(y, g, f)
  <2>1. scan = Scan(Yes, d, g, f)
    BY DEF Inside
  <2> HIDE DEF scan
  <2>2. [scan EXCEPT !.inside = No, !.depth = y] = [[scan EXCEPT !.inside = No] EXCEPT !.depth = y]
    OBVIOUS
  <2>3. [scan EXCEPT !.inside = No] = Scan(No, d, g, f)
    BY <2>1, ScanTurns
  <2>4. [Scan(No, d, g, f) EXCEPT !.depth = y] = Scan(No, y, g, f)
    BY ScanDeepens
  <2>5. [scan EXCEPT !.inside = No, !.depth = y] = Beside(y, g, f)
    BY <2>2, <2>3, <2>4 DEF Beside
  <2> QED BY <2>5 DEF No
<1>6. ASSUME NEW y, NEW z PROVE [scan EXCEPT !.depth = y, !.found = z] = Inside(y, g, z)
  <2>1. scan = Scan(Yes, d, g, f)
    BY DEF Inside
  <2> HIDE DEF scan
  <2>2. [scan EXCEPT !.depth = y, !.found = z] = [[scan EXCEPT !.depth = y] EXCEPT !.found = z]
    OBVIOUS
  <2>3. [scan EXCEPT !.depth = y] = Scan(Yes, y, g, f)
    BY <2>1, ScanDeepens
  <2>4. [Scan(Yes, y, g, f) EXCEPT !.found = z] = Scan(Yes, y, g, z)
    BY ScanFinds
  <2> QED BY <2>2, <2>3, <2>4 DEF Inside
<1> HIDE DEF scan
<1>7. /\ scan.ignored > 0 => after = [scan EXCEPT !.ignored = scan.ignored + line.depth]
      /\ ~ (scan.ignored > 0) /\ none => after = [scan EXCEPT !.ignored = 1]
      /\ ~ (scan.ignored > 0) /\ ~none /\ opens =>
            after = [scan EXCEPT !.inside = TRUE, !.depth = 1,
                                 !.found = IF line.binds /\ key = "x" THEN line.block.act ELSE scan.found]
  BY DEF ScanLine, Shared
<1>8. ASSUME ~ (scan.ignored > 0), ~none, ~opens
      PROVE  /\ scan.depth + line.depth <= 0 =>
                    after = [scan EXCEPT !.inside = FALSE, !.depth = scan.depth + line.depth]
             /\ ~ (scan.depth + line.depth <= 0) =>
                    after = [scan EXCEPT !.depth = scan.depth + line.depth,
                                !.found = IF line.is = "bind"
                                          THEN IF line.binds /\ key = "x" THEN line.block.act ELSE scan.found
                                          ELSE scan.found]
  BY <1>1, <1>8 DEF ScanLine, Shared
<1> HIDE DEF after, found, none, opens, depth
<1>9. CASE g > 0
  <2>1. after = Inside(d, g + line.depth, f)
    BY <1>1, <1>3, <1>7, <1>9
  <2> QED BY <1>9, <2>1 DEF after, scan
<1>10. CASE ~ (g > 0) /\ none
  <2>1. after = Inside(d, 1, f)
    BY <1>1, <1>3, <1>7, <1>10
  <2> QED BY <1>10, <2>1 DEF after, scan, none
<1>11. CASE ~ (g > 0) /\ ~none /\ opens
  <2>1. after = Inside(1, g, found)
    BY <1>1, <1>2, <1>4, <1>7, <1>11
  <2> QED BY <1>11, <2>1 DEF after, scan, none, opens, found
<1>12. CASE ~ (g > 0) /\ ~none /\ ~opens
  <2>1. CASE depth <= 0
    <3>1. after = Beside(depth, g, f)
      BY <1>1, <1>5, <1>8, <1>12, <2>1 DEF depth
    <3> QED BY <1>12, <2>1, <3>1 DEF after, scan, none, opens, depth
  <2>2. CASE ~ (depth <= 0)
    <3>1. after = [scan EXCEPT !.depth = depth, !.found = IF line.is = "bind" THEN found ELSE f]
      BY <1>1, <1>2, <1>8, <1>12, <2>2 DEF depth
    <3>2. after = Inside(depth, g, IF line.is = "bind" THEN found ELSE f)
      BY <1>6, <3>1
    <3> QED BY <1>12, <2>2, <3>2 DEF after, scan, none, opens, depth, found
  <2> QED BY <2>1, <2>2
<1> QED BY <1>9, <1>10, <1>11, <1>12

LEMMA ScanSteps ==
    ASSUME NEW scan \in Scans, NEW line \in ScannedLines, NEW mode, NEW key
    PROVE  ScanLine(scan, line, mode, key) \in Scans
<1>2. line.depth \in Int /\ line.block.act \in {"quit", "write"}
  BY DEF ScannedLines, ZellijBlocks
<1>3. \A f \in ZellijFound : FoundIn(line, key, f) \in ZellijFound
  BY <1>2 DEF FoundIn, ZellijFound
<1>4. \A y \in Int, z \in Int, u \in ZellijFound : Inside(y, z, u) \in Scans /\ Beside(y, z, u) \in Scans
  BY AreScans
<1>5. ASSUME NEW d \in Int, NEW g \in Int, NEW f \in ZellijFound, scan = Inside(d, g, f)
      PROVE  ScanLine(scan, line, mode, key) \in Scans
  <2>1. d + line.depth \in Int /\ g + line.depth \in Int /\ 1 \in Int
    BY <1>2
  <2>2. /\ Inside(d, g + line.depth, f) \in Scans /\ Inside(d, 1, f) \in Scans
        /\ Inside(1, g, FoundIn(line, key, f)) \in Scans /\ Beside(d + line.depth, g, f) \in Scans
        /\ Inside(d + line.depth, g, FoundIn(line, key, f)) \in Scans
        /\ Inside(d + line.depth, g, f) \in Scans
    BY <1>3, <1>4, <1>5, <2>1
  <2> QED BY <1>5, <2>2, InsideLine
<1>6. ASSUME NEW d \in Int, NEW g \in Int, NEW f \in ZellijFound, scan = Beside(d, g, f)
      PROVE  ScanLine(scan, line, mode, key) \in Scans
  <2>1. g + line.depth \in Int /\ 1 \in Int
    BY <1>2
  <2>2. /\ Beside(d, g + line.depth, f) \in Scans /\ Beside(d, 1, f) \in Scans
        /\ Inside(1, g, FoundIn(line, key, f)) \in Scans /\ Beside(d, g, f) \in Scans
    BY <1>3, <1>4, <1>6, <2>1
  <2> QED BY <1>6, <2>2, BesideLine
<1> QED BY <1>5, <1>6 DEF Scans

\* The lines of a block, one after the other.
LEMMA BlockFold ==
    ASSUME NEW scan \in Scans,
           NEW mode,
           NEW key,
           NEW l \in Seq(ScannedLines)
    PROVE  /\ ScanBlock(scan, <<>>, mode, key) = scan
           /\ ScanBlock(scan, l, mode, key) \in Scans
           /\ \A x \in ScannedLines : ScanBlock(scan, Append(l, x), mode, key) = ScanLine(ScanBlock(scan, l, mode, key), x, mode, key)
<1> DEFINE op(s) == [p \in Scans \X (1 .. Len(s)) |-> ScanLine(p[1], s[p[2]], mode, key)]
           Solves(s, F) == F = [t \in SUBSET DOMAIN s |->
               IF t = {} THEN scan ELSE ScanLine(F[t \ {Max(t)}], s[Max(t)], mode, key)]
           Sol(s) == CHOOSE F : Solves(s, F)
<1>1. \A a \in Scans, y \in ScannedLines : ScanLine(a, y, mode, key) \in Scans
  BY ScanSteps
<1>2. scan \in Scans
  OBVIOUS
<1>3. ASSUME NEW s \in Seq(ScannedLines)
      PROVE  Folds(Sol(s), Scans, scan, op(s), Len(s))
  <2>1. Len(s) \in Nat /\ DOMAIN s = 1 .. Len(s) /\ \A i \in 1 .. Len(s) : s[i] \in ScannedLines
    OBVIOUS
  <2>2. op(s) \in [Scans \X (1 .. Len(s)) -> Scans]
    BY <1>1, <2>1
  <2>0. PICK f : Solved(f, Scans, scan, op(s), Len(s))
    <3>1. Foldable(Scans, scan, op(s), Len(s))
      <4> HIDE DEF op
      <4> QED BY <1>2, <2>1, <2>2 DEF Foldable
    <3> HIDE DEF op
    <3> QED BY <3>1, FoldExists
  <2>3. /\ f \in [SUBSET (1 .. Len(s)) -> Scans]
        /\ f = [t \in SUBSET (1 .. Len(s)) |->
                     IF t = {} THEN scan ELSE op(s)[<<f[t \ {Max(t)}], Max(t)>>]]
    <3> HIDE DEF op
    <3> QED BY <2>0 DEF Solved
  <2>4. \A t \in SUBSET (1 .. Len(s)) : t # {} => Max(t) \in t
    BY <2>1, MaxIn
  <2>5. Solves(s, f)
    <3>1. ASSUME NEW t \in SUBSET (1 .. Len(s)), t # {}
          PROVE  op(s)[<<f[t \ {Max(t)}], Max(t)>>] = ScanLine(f[t \ {Max(t)}], s[Max(t)], mode, key)
      <4>1. Max(t) \in 1 .. Len(s) /\ t \ {Max(t)} \in SUBSET (1 .. Len(s))
        BY <2>4, <3>1
      <4>2. f[t \ {Max(t)}] \in Scans
        BY <2>3, <4>1
      <4> QED BY <4>1, <4>2
    <3> HIDE DEF op
    <3> QED BY <2>1, <2>3, <3>1
  <2>6. Solves(s, Sol(s))
    <3> HIDE DEF Solves
    <3> QED BY <2>5
  <2> DEFINE F == Sol(s)
  <2> HIDE DEF F
  <2>7. Solves(s, F)
    BY <2>6 DEF F
  <2>8. Folds(F, Scans, scan, op(s), Len(s))
    <3>1. ASSUME NEW t \in SUBSET (1 .. Len(s)), t # {}, F[t \ {Max(t)}] \in Scans
          PROVE  F[t] = op(s)[<<F[t \ {Max(t)}], Max(t)>>]
      <4>1. Max(t) \in 1 .. Len(s)
        BY <2>4, <3>1
      <4>2. F[t] = ScanLine(F[t \ {Max(t)}], s[Max(t)], mode, key)
        BY <2>1, <2>7, <3>1
      <4> QED BY <3>1, <4>1, <4>2
    <3>2. F[{}] = scan
      BY <2>1, <2>7
    <3> HIDE DEF op, Solves
    <3> QED BY <1>2, <2>1, <2>2, <3>1, <3>2 DEF Folds, Foldable
  <2> QED BY <2>8 DEF F
<1>4. \A s \in Seq(ScannedLines) : ScanBlock(scan, s, mode, key) = Sol(s)[DOMAIN s]
  BY DEF ScanBlock, FoldLeft, MapThenFoldSet
<1>5. ScanBlock(scan, <<>>, mode, key) = scan
  <2>1. <<>> \in Seq(ScannedLines) /\ DOMAIN <<>> = {}
    OBVIOUS
  <2>2. Sol(<<>>)[{}] = scan
    <3>1. Folds(Sol(<<>>), Scans, scan, op(<<>>), Len(<<>>))
      <4> HIDE DEF Sol, op
      <4> QED BY <1>3, <2>1
    <3> HIDE DEF Sol, op
    <3> QED BY <3>1 DEF Folds
  <2> HIDE DEF Sol
  <2> QED BY <1>4, <2>1, <2>2
<1>6. ScanBlock(scan, l, mode, key) \in Scans
  <2>1. Len(l) \in Nat /\ DOMAIN l = 1 .. Len(l) /\ Len(l) \in 0 .. Len(l)
    OBVIOUS
  <2> DEFINE F == Sol(l)
  <2> HIDE DEF Sol, op
  <2>2. Folds(F, Scans, scan, op(l), Len(l))
    BY <1>3
  <2> HIDE DEF F
  <2>3. F[1 .. Len(l)] \in Scans
    BY <2>1, <2>2, FoldSteps
  <2> QED BY <1>4, <2>1, <2>3 DEF F
<1>7. ASSUME NEW x \in ScannedLines
      PROVE  ScanBlock(scan, Append(l, x), mode, key) = ScanLine(ScanBlock(scan, l, mode, key), x, mode, key)
  <2>1. l \in Seq(ScannedLines) /\ Append(l, x) \in Seq(ScannedLines) /\ Len(l) \in Nat /\ Len(Append(l, x)) = Len(l) + 1
        /\ DOMAIN l = 1 .. Len(l) /\ DOMAIN Append(l, x) = 1 .. Len(l) + 1
        /\ Append(l, x)[Len(l) + 1] = x /\ Len(l) <= Len(l) + 1
        /\ \A i \in 1 .. Len(l) : Append(l, x)[i] = l[i]
    OBVIOUS
  <2>2. \A a \in Scans, n \in 1 .. Len(l) : op(Append(l, x))[<<a, n>>] = op(l)[<<a, n>>]
    BY <2>1
  <2>3. op(Append(l, x))[<<ScanBlock(scan, l, mode, key), Len(l) + 1>>] = ScanLine(ScanBlock(scan, l, mode, key), x, mode, key)
    BY <1>6, <2>1
  <2> DEFINE F == Sol(l)
             G == Sol(Append(l, x))
  <2> HIDE DEF Sol, op
  <2>4. Folds(F, Scans, scan, op(l), Len(l)) /\ Folds(G, Scans, scan, op(Append(l, x)), Len(l) + 1)
    BY <1>3, <2>1
  <2> HIDE DEF F, G
  <2>5. G[1 .. Len(l) + 1] = op(Append(l, x))[<<F[1 .. Len(l)], Len(l) + 1>>]
    BY <2>1, <2>2, <2>4, FoldMore
  <2>6. ScanBlock(scan, l, mode, key) = F[1 .. Len(l)] /\ ScanBlock(scan, Append(l, x), mode, key) = G[1 .. Len(l) + 1]
    BY <1>4, <2>1 DEF F, G
  <2> QED BY <2>3, <2>5, <2>6
<1> QED BY <1>5, <1>6, <1>7

\* The reader between two blocks.
Read(found) == Beside(0, 0, found)

\* Blocks of several lines that write nothing.
QuitBlocks == {b \in ZellijBlocks : ~b.oneLine /\ b.act = "quit"}
Readings == {Read("none"), Read("quit")}

\* The reader takes what a block binds when the block applies.
LEMMA BlockIsRead ==
    ASSUME NEW b \in QuitBlocks, NEW found \in {"none", "quit"}, NEW mode \in ZellijModes, NEW key
    PROVE  ScanBlock(Read(found), LinesOf(b), mode, key) =
               Read(IF key = "x" /\ BlockApplies(b, mode) THEN "quit" ELSE found)
<1> DEFINE open == [is |-> "open", block |-> b, binds |-> FALSE, depth |-> 1]
           bind == [is |-> "bind", block |-> b, binds |-> TRUE, depth |-> 0]
           close == [is |-> "close", block |-> b, binds |-> FALSE, depth |-> -1]
           one == ScanLine(Read(found), open, mode, key)
           two == ScanLine(one, bind, mode, key)
           three == ScanLine(two, close, mode, key)
<1>1. b \in ZellijBlocks /\ ~b.oneLine /\ b.act = "quit"
  BY DEF QuitBlocks
<1>2. b.who \in {"normal", "locked", "except", "among"}
  BY <1>1 DEF ZellijBlocks, ZellijModes
<1>3. open \in ScannedLines /\ bind \in ScannedLines /\ close \in ScannedLines
  BY <1>1 DEF ScannedLines
<1>4. Read(found) \in Scans
  <2>1. found \in ZellijFound /\ 0 \in Int
    BY DEF ZellijFound
  <2> QED BY <2>1, AreScans DEF Read
<1>5. ScanBlock(Read(found), LinesOf(b), mode, key) = three
  <2>1. LinesOf(b) = <<open, bind, close>>
    BY <1>1 DEF LinesOf
  <2> HIDE DEF open, bind, close
  <2>2. LinesOf(b) = Append(Append(Append(<<>>, open), bind), close)
    <3>1. <<open, bind, close>> = Append(Append(Append(<<>>, open), bind), close)
      OBVIOUS
    <3> QED BY <2>1, <3>1, Zenon
  <2>3. /\ <<>> \in Seq(ScannedLines) /\ Append(<<>>, open) \in Seq(ScannedLines)
        /\ Append(Append(<<>>, open), bind) \in Seq(ScannedLines)
    BY <1>3
  <2>4. /\ ScanBlock(Read(found), <<>>, mode, key) = Read(found)
        /\ \A l \in Seq(ScannedLines), x \in ScannedLines :
              ScanBlock(Read(found), Append(l, x), mode, key) =
                  ScanLine(ScanBlock(Read(found), l, mode, key), x, mode, key)
    <3> DEFINE r == Read(found)
    <3> HIDE DEF r
    <3>1. <<>> \in Seq(ScannedLines) /\ r \in Scans
      BY <1>4 DEF r
    <3>2. ScanBlock(r, <<>>, mode, key) = r
      BY <3>1, BlockFold
    <3>3. ASSUME NEW l \in Seq(ScannedLines), NEW x \in ScannedLines
          PROVE  ScanBlock(r, Append(l, x), mode, key) = ScanLine(ScanBlock(r, l, mode, key), x, mode, key)
      BY <3>1, BlockFold
    <3> QED BY <3>2, <3>3 DEF r
  <2>5. ScanBlock(Read(found), Append(<<>>, open), mode, key) = ScanLine(Read(found), open, mode, key)
    BY <1>3, <2>3, <2>4
  <2>6. ScanBlock(Read(found), Append(Append(<<>>, open), bind), mode, key) = ScanLine(one, bind, mode, key)
    BY <1>3, <2>3, <2>4, <2>5
  <2>7. ScanBlock(Read(found), Append(Append(Append(<<>>, open), bind), close), mode, key) =
          ScanLine(two, close, mode, key)
    BY <1>3, <2>3, <2>4, <2>6
  <2> QED BY <2>2, <2>7
<1> DEFINE shared == b.who \in {"except", "among"}
           applies == BlockApplies(b, mode)
<1>6. ~shared => (applies <=> b.who = mode)
  BY <1>2 DEF BlockApplies
<1>10. /\ open.is = "open" /\ bind.is = "bind" /\ close.is = "close"
       /\ open.block = b /\ bind.block = b /\ close.block = b
       /\ open.depth = 1 /\ bind.depth = 0 /\ close.depth = -1
       /\ ~open.binds /\ bind.binds /\ ~close.binds
  OBVIOUS
<1> HIDE DEF open, bind, close
<1>11. /\ Shared(open) = shared /\ Shared(bind) = shared /\ Shared(close) = shared
       /\ FoundIn(open, key, found) = found /\ FoundIn(bind, key, found) = IF key = "x" THEN "quit" ELSE found
  BY <1>1, <1>10 DEF Shared, FoundIn
<1> HIDE DEF shared, applies, one, two, three
<1>12. one = IF shared /\ ~applies THEN Beside(0, 1, found)
             ELSE IF shared \/ b.who = mode THEN Inside(1, 0, found) ELSE Beside(0, 0, found)
  BY <1>10, <1>11, BesideLine DEF one, Read, applies
<1>13. ASSUME NEW s, s = ScanLine(Beside(0, 1, found), bind, mode, key)
       PROVE  s = Beside(0, 1, found)
  BY <1>10, <1>13, BesideLine
<1>14. ASSUME NEW s, s = ScanLine(Beside(0, 1, found), close, mode, key)
       PROVE  s = Beside(0, 0, found)
  BY <1>10, <1>14, BesideLine
<1>7. CASE shared /\ ~applies
  <2>1. one = Beside(0, 1, found)
    BY <1>7, <1>12
  <2>2. two = Beside(0, 1, found)
    BY <1>13, <2>1 DEF two
  <2>3. three = Beside(0, 0, found)
    BY <1>14, <2>2 DEF three
  <2> QED BY <1>5, <1>7, <2>3 DEF Read, applies
<1>8. CASE ~shared /\ ~applies
  <2>1. one = Beside(0, 0, found)
    BY <1>6, <1>8, <1>12
  <2>2. two = Beside(0, 0, found)
    BY <1>10, <2>1, BesideLine DEF two
  <2>3. three = Beside(0, 0, found)
    BY <1>10, <2>2, BesideLine DEF three
  <2> QED BY <1>5, <1>8, <2>3 DEF Read, applies
<1>9. CASE applies
  <2> DEFINE told == IF key = "x" THEN "quit" ELSE found
  <2>1. one = Inside(1, 0, found)
    BY <1>6, <1>9, <1>12
  <2>2. two = Inside(1, 0, told)
    BY <1>10, <1>11, <2>1, InsideLine DEF two
  <2> HIDE DEF told
  <2>3. three = Beside(0, 0, told)
    BY <1>10, <2>2, InsideLine DEF three
  <2> QED BY <1>5, <1>9, <2>3 DEF Read, applies, told
<1> QED BY <1>7, <1>8, <1>9

LEMMA BlockKeeps ==
    ASSUME NEW scan \in Readings, NEW b \in QuitBlocks, NEW mode \in ZellijModes, NEW key
    PROVE  ScanBlock(scan, LinesOf(b), mode, key) \in Readings
<1>1. PICK found \in {"none", "quit"} : scan = Read(found)
  BY DEF Readings
<1>2. ScanBlock(scan, LinesOf(b), mode, key) \in {Read("quit"), Read(found)}
  BY <1>1, BlockIsRead
<1> QED BY <1>2 DEF Readings

\* The blocks, one after the other.
LEMMA BlocksFold ==
    ASSUME NEW mode \in ZellijModes,
           NEW key,
           NEW l \in Seq(QuitBlocks)
    PROVE  /\ ScanBlocks(<<>>, mode, key) = Read("none")
           /\ ScanBlocks(l, mode, key) \in Readings
           /\ \A x \in QuitBlocks : ScanBlocks(Append(l, x), mode, key) = ScanBlock(ScanBlocks(l, mode, key), LinesOf(x), mode, key)
<1> DEFINE op(s) == [p \in Readings \X (1 .. Len(s)) |-> ScanBlock(p[1], LinesOf(s[p[2]]), mode, key)]
           Solves(s, F) == F = [t \in SUBSET DOMAIN s |->
               IF t = {} THEN Read("none") ELSE ScanBlock(F[t \ {Max(t)}], LinesOf(s[Max(t)]), mode, key)]
           Sol(s) == CHOOSE F : Solves(s, F)
<1>1. \A a \in Readings, y \in QuitBlocks : ScanBlock(a, LinesOf(y), mode, key) \in Readings
  BY BlockKeeps
<1>2. Read("none") \in Readings
  BY DEF Readings
<1>3. ASSUME NEW s \in Seq(QuitBlocks)
      PROVE  Folds(Sol(s), Readings, Read("none"), op(s), Len(s))
  <2>1. Len(s) \in Nat /\ DOMAIN s = 1 .. Len(s) /\ \A i \in 1 .. Len(s) : s[i] \in QuitBlocks
    OBVIOUS
  <2>2. op(s) \in [Readings \X (1 .. Len(s)) -> Readings]
    BY <1>1, <2>1
  <2>0. PICK f : Solved(f, Readings, Read("none"), op(s), Len(s))
    <3>1. Foldable(Readings, Read("none"), op(s), Len(s))
      <4> HIDE DEF op
      <4> QED BY <1>2, <2>1, <2>2 DEF Foldable
    <3> HIDE DEF op
    <3> QED BY <3>1, FoldExists
  <2>3. /\ f \in [SUBSET (1 .. Len(s)) -> Readings]
        /\ f = [t \in SUBSET (1 .. Len(s)) |->
                     IF t = {} THEN Read("none") ELSE op(s)[<<f[t \ {Max(t)}], Max(t)>>]]
    <3> HIDE DEF op
    <3> QED BY <2>0 DEF Solved
  <2>4. \A t \in SUBSET (1 .. Len(s)) : t # {} => Max(t) \in t
    BY <2>1, MaxIn
  <2>5. Solves(s, f)
    <3>1. ASSUME NEW t \in SUBSET (1 .. Len(s)), t # {}
          PROVE  op(s)[<<f[t \ {Max(t)}], Max(t)>>] = ScanBlock(f[t \ {Max(t)}], LinesOf(s[Max(t)]), mode, key)
      <4>1. Max(t) \in 1 .. Len(s) /\ t \ {Max(t)} \in SUBSET (1 .. Len(s))
        BY <2>4, <3>1
      <4>2. f[t \ {Max(t)}] \in Readings
        BY <2>3, <4>1
      <4> QED BY <4>1, <4>2
    <3> HIDE DEF op
    <3> QED BY <2>1, <2>3, <3>1
  <2>6. Solves(s, Sol(s))
    <3> HIDE DEF Solves
    <3> QED BY <2>5
  <2> DEFINE F == Sol(s)
  <2> HIDE DEF F
  <2>7. Solves(s, F)
    BY <2>6 DEF F
  <2>8. Folds(F, Readings, Read("none"), op(s), Len(s))
    <3>1. ASSUME NEW t \in SUBSET (1 .. Len(s)), t # {}, F[t \ {Max(t)}] \in Readings
          PROVE  F[t] = op(s)[<<F[t \ {Max(t)}], Max(t)>>]
      <4>1. Max(t) \in 1 .. Len(s)
        BY <2>4, <3>1
      <4>2. F[t] = ScanBlock(F[t \ {Max(t)}], LinesOf(s[Max(t)]), mode, key)
        BY <2>1, <2>7, <3>1
      <4> QED BY <3>1, <4>1, <4>2
    <3>2. F[{}] = Read("none")
      BY <2>1, <2>7
    <3> HIDE DEF op, Solves
    <3> QED BY <1>2, <2>1, <2>2, <3>1, <3>2 DEF Folds, Foldable
  <2> QED BY <2>8 DEF F
<1>4. \A s \in Seq(QuitBlocks) : ScanBlocks(s, mode, key) = Sol(s)[DOMAIN s]
  BY DEF ScanBlocks, Outside, Read, Beside, Scan, No, FoldLeft, MapThenFoldSet
<1>5. ScanBlocks(<<>>, mode, key) = Read("none")
  <2>1. <<>> \in Seq(QuitBlocks) /\ DOMAIN <<>> = {}
    OBVIOUS
  <2>2. Sol(<<>>)[{}] = Read("none")
    <3>1. Folds(Sol(<<>>), Readings, Read("none"), op(<<>>), Len(<<>>))
      <4> HIDE DEF Sol, op
      <4> QED BY <1>3, <2>1
    <3> HIDE DEF Sol, op
    <3> QED BY <3>1 DEF Folds
  <2> HIDE DEF Sol
  <2> QED BY <1>4, <2>1, <2>2
<1>6. ScanBlocks(l, mode, key) \in Readings
  <2>1. Len(l) \in Nat /\ DOMAIN l = 1 .. Len(l) /\ Len(l) \in 0 .. Len(l)
    OBVIOUS
  <2> DEFINE F == Sol(l)
  <2> HIDE DEF Sol, op
  <2>2. Folds(F, Readings, Read("none"), op(l), Len(l))
    BY <1>3
  <2> HIDE DEF F
  <2>3. F[1 .. Len(l)] \in Readings
    BY <2>1, <2>2, FoldSteps
  <2> QED BY <1>4, <2>1, <2>3 DEF F
<1>7. ASSUME NEW x \in QuitBlocks
      PROVE  ScanBlocks(Append(l, x), mode, key) = ScanBlock(ScanBlocks(l, mode, key), LinesOf(x), mode, key)
  <2>1. l \in Seq(QuitBlocks) /\ Append(l, x) \in Seq(QuitBlocks) /\ Len(l) \in Nat /\ Len(Append(l, x)) = Len(l) + 1
        /\ DOMAIN l = 1 .. Len(l) /\ DOMAIN Append(l, x) = 1 .. Len(l) + 1
        /\ Append(l, x)[Len(l) + 1] = x /\ Len(l) <= Len(l) + 1
        /\ \A i \in 1 .. Len(l) : Append(l, x)[i] = l[i]
    OBVIOUS
  <2>2. \A a \in Readings, n \in 1 .. Len(l) : op(Append(l, x))[<<a, n>>] = op(l)[<<a, n>>]
    BY <2>1
  <2>3. op(Append(l, x))[<<ScanBlocks(l, mode, key), Len(l) + 1>>] = ScanBlock(ScanBlocks(l, mode, key), LinesOf(x), mode, key)
    BY <1>6, <2>1
  <2> DEFINE F == Sol(l)
             G == Sol(Append(l, x))
  <2> HIDE DEF Sol, op
  <2>4. Folds(F, Readings, Read("none"), op(l), Len(l)) /\ Folds(G, Readings, Read("none"), op(Append(l, x)), Len(l) + 1)
    BY <1>3, <2>1
  <2> HIDE DEF F, G
  <2>5. G[1 .. Len(l) + 1] = op(Append(l, x))[<<F[1 .. Len(l)], Len(l) + 1>>]
    BY <2>1, <2>2, <2>4, FoldMore
  <2>6. ScanBlocks(l, mode, key) = F[1 .. Len(l)] /\ ScanBlocks(Append(l, x), mode, key) = G[1 .. Len(l) + 1]
    BY <1>4, <2>1 DEF F, G
  <2> QED BY <2>3, <2>5, <2>6
<1> QED BY <1>5, <1>6, <1>7

\* The reader finds the key exactly when some block that applies binds it.
Applying(blocks, mode) == {i \in DOMAIN blocks : BlockApplies(blocks[i], mode)}

LEMMA BlocksAreRead ==
    ASSUME NEW blocks \in Seq(QuitBlocks), NEW mode \in ZellijModes, NEW key
    PROVE  ScanBlocks(blocks, mode, key) =
               Read(IF key = "x" /\ Applying(blocks, mode) # {} THEN "quit" ELSE "none")
<1> DEFINE says(s) == IF key = "x" /\ Applying(s, mode) # {} THEN "quit" ELSE "none"
           S == {s \in Seq(QuitBlocks) : ScanBlocks(s, mode, key) = Read(says(s))}
<1>1. <<>> \in S
  <2>1. <<>> \in Seq(QuitBlocks) /\ DOMAIN <<>> = {}
    OBVIOUS
  <2>2. ScanBlocks(<<>>, mode, key) = Read("none")
    BY <2>1, BlocksFold
  <2>3. Applying(<<>>, mode) = {}
    BY <2>1 DEF Applying
  <2> QED BY <2>1, <2>2, <2>3
<1>2. ASSUME NEW s \in Seq(QuitBlocks), NEW x \in QuitBlocks, s \in S PROVE Append(s, x) \in S
  <2> DEFINE u == Append(s, x)
  <2>1. /\ u \in Seq(QuitBlocks) /\ Len(s) \in Nat
        /\ DOMAIN s = 1 .. Len(s) /\ DOMAIN u = 1 .. Len(s) + 1
        /\ u[Len(s) + 1] = x /\ \A i \in 1 .. Len(s) : u[i] = s[i]
    OBVIOUS
  <2>2. ScanBlocks(u, mode, key) = ScanBlock(ScanBlocks(s, mode, key), LinesOf(x), mode, key)
    BY BlocksFold
  <2>3. ScanBlocks(s, mode, key) = Read(says(s)) /\ says(s) \in {"none", "quit"}
    BY <1>2
  <2> HIDE DEF u
  <2>4. (Applying(u, mode) # {}) <=> (Applying(s, mode) # {} \/ BlockApplies(x, mode))
    <3>1. Len(s) + 1 \in DOMAIN u /\ \A i \in DOMAIN u : i \in DOMAIN s \/ i = Len(s) + 1
      BY <2>1
    <3>2. \A i \in DOMAIN s : i \in DOMAIN u /\ u[i] = s[i]
      BY <2>1
    <3>3. u[Len(s) + 1] = x
      BY <2>1
    <3> QED BY <3>1, <3>2, <3>3, Zenon DEF Applying
  <2> HIDE DEF says
  <2>5. ScanBlocks(u, mode, key) = Read(IF key = "x" /\ BlockApplies(x, mode) THEN "quit" ELSE says(s))
    BY <2>2, <2>3, BlockIsRead
  <2> USE DEF says
  <2>6. says(u) = IF key = "x" /\ BlockApplies(x, mode) THEN "quit" ELSE says(s)
    BY <2>4
  <2> HIDE DEF says
  <2>7. ScanBlocks(u, mode, key) = Read(says(u))
    BY <2>5, <2>6
  <2> QED BY <2>1, <2>7 DEF u
<1>3. Seq(QuitBlocks) \subseteq S
  <2> HIDE DEF S
  <2> QED BY <1>1, <1>2, AllSequences
<1> QED BY <1>3

\* A definite verdict on a key of Zellij is what Zellij does with it, in the mode it was
\* asked for.
LEMMA ZellijIsDone ==
    ASSUME muxLines \in Seq(QuitBlocks), NEW mode \in ZellijModes, NEW modeKnown, NEW complete, NEW key,
           ZellijOutcome(mode, modeKnown, complete, key) \in {"consumed", "passed", "pass"}
    PROVE  /\ ZellijOutcome(mode, modeKnown, complete, key) = ZellijDoes(muxLines, mode, key)
           /\ ZellijOutcome(mode, modeKnown, complete, key) # "pass" => modeKnown
<1> DEFINE mine == Applying(muxLines, mode)
           does == ZellijDoes(muxLines, mode, key)
           outcome == ZellijOutcome(mode, modeKnown, complete, key)
<1>1. FindZellijBinding(mode, key) = IF key = "x" /\ mine # {} THEN "quit" ELSE "none"
  <2>1. \A found : Read(found).found = found
    BY DEF Read, Beside, Scan
  <2> QED BY <2>1, BlocksAreRead DEF FindZellijBinding
<1>2. does = IF key = "x" /\ mine # {}
             THEN IF muxLines[Latest(mine)].act = "write" THEN "passed" ELSE "consumed"
             ELSE "pass"
  BY DEF ZellijDoes, Applying
<1>3. mine # {} => muxLines[Latest(mine)].act = "quit"
  <2>1. mine \in SUBSET (1 .. Len(muxLines)) /\ Len(muxLines) \in Nat
    BY DEF Applying
  <2>2. ASSUME mine # {} PROVE Latest(mine) \in 1 .. Len(muxLines)
    <3> HIDE DEF mine
    <3> QED BY <2>1, <2>2, LatestIs
  <2> QED BY <2>2 DEF QuitBlocks
<1>4. outcome = IF FindZellijBinding(mode, key) # "none" THEN IF modeKnown THEN "consumed" ELSE "handled?"
                ELSE IF complete THEN "pass" ELSE "maybe"
  BY DEF ZellijOutcome
<1> HIDE DEF mine, does, outcome
<1>5. outcome \in {"consumed", "passed", "pass"}
  BY DEF outcome
<1>6. outcome = does /\ (outcome # "pass" => modeKnown)
  <2>1. CASE key = "x" /\ mine # {}
    <3>1. outcome = "consumed" /\ modeKnown
      BY <1>1, <1>4, <1>5, <2>1
    <3> QED BY <1>2, <1>3, <2>1, <3>1
  <2>2. CASE ~(key = "x" /\ mine # {})
    <3>1. outcome = "pass"
      BY <1>1, <1>4, <1>5, <2>2
    <3> QED BY <1>2, <2>2, <3>1
  <2> QED BY <2>1, <2>2
<1> QED BY <1>6 DEF does, outcome

\* tmux: the same for the last key of a sequence.
LEMMA TmuxIsDone ==
    ASSUME TmuxLines, muxKeys \in Seq(TmuxTyped), muxKeys # <<>>, NEW start \in TmuxTables, NEW fails,
           ResolveWithTables(start, {"ctrl+b"}, fails) \in {"consumed", "passed", "pass"}
    PROVE  ResolveWithTables(start, {"ctrl+b"}, fails) =
               TmuxDoes(muxLines, TmuxTableAfter(muxLines, Front(muxKeys), start), Last(muxKeys)).did
<1> DEFINE walk == WalkTable(Front(muxKeys), start, {"ctrl+b"}, fails)
           r == ResolveTmuxKey(muxLines, fails, {"ctrl+b"}, walk, Last(muxKeys))
<1>1. ResolveWithTables(start, {"ctrl+b"}, fails) = IF walk = "lost" THEN "unknown" ELSE TmuxOutcome(r)
  BY DEF ResolveWithTables
<1>2. walk # "lost" /\ ResolveWithTables(start, {"ctrl+b"}, fails) = TmuxOutcome(r)
  BY <1>1
<1>3. Front(muxKeys) \in Seq(TmuxTyped)
  BY FrontLast
<1>4. walk = TmuxTableAfter(muxLines, Front(muxKeys), start) /\ walk \in TmuxTables
  BY <1>2, <1>3, WalkIsServer
<1> HIDE DEF walk
<1>5. TmuxOutcome(r) = TmuxDoes(muxLines, walk, Last(muxKeys)).did
  BY <1>2, <1>4, ResolvedIsDone
<1> QED BY <1>2, <1>4, <1>5

\* The keys and the lines a multiplexer has, its client and what tmux was asked. Once a verdict
\* is said, nothing changes that it rests on.
MuxTyped(which) ==
    IF which = "tmux" THEN TmuxTyped ELSE IF which = "screen" THEN ScreenTyped ELSE ZellijTyped

MuxIInv ==
    /\ mux \in {"tmux", "screen", "zellij"}
    /\ mux = "tmux" => TmuxLines /\ client \in TmuxTables
    /\ mux = "screen" => muxLines \in Seq(ScreenLines)
    /\ mux = "zellij" => muxLines \in Seq(ZellijBlocks) /\ client \in ZellijModes /\ Len(muxKeys) <= 1
    /\ muxKeys \in Seq(MuxTyped(mux))
    /\ asked.start \in TmuxTables /\ asked.then \in TmuxTables
    /\ asked \in [step : {"table", "prefix", "keys"}, start : TmuxTables, then : TmuxTables,
                  prefixes : {{}, {"ctrl+b"}}]
    /\ asked.step = "keys" => asked.prefixes = {"ctrl+b"}
    /\ asked.step # "table" => mux = "tmux" /\ muxKeys # <<>>
    /\ muxSays # "none" => muxKeys # <<>> /\ (mux = "tmux" => asked.step = "keys")
    /\ MuxVerdictIsSound

LEMMA MuxBegins == MuxInit => MuxIInv
<1> SUFFICES ASSUME MuxInit PROVE MuxIInv
  OBVIOUS
<1>1. /\ mux \in {"tmux", "screen", "zellij"} /\ muxLines = <<>> /\ muxKeys = <<>>
      /\ asked = NotAsked /\ muxSays = "none"
      /\ mux = "tmux" => client = "root"
      /\ mux = "zellij" => client = "normal"
  BY DEF MuxInit
<1>2. TmuxLines
  <2>1. muxLines \in Seq(TmuxBindings) /\ DOMAIN muxLines = {}
    BY <1>1
  <2> QED BY <2>1 DEF TmuxLines
<1>3. /\ asked \in [step : {"table", "prefix", "keys"}, start : TmuxTables, then : TmuxTables,
                    prefixes : {{}, {"ctrl+b"}}]
      /\ asked.step = "table" /\ asked.start \in TmuxTables /\ asked.then \in TmuxTables
  BY <1>1 DEF NotAsked, TmuxTables
<1>4. muxLines \in Seq(ScreenLines) /\ muxLines \in Seq(ZellijBlocks) /\ muxKeys \in Seq(MuxTyped(mux))
      /\ Len(muxKeys) <= 1
  BY <1>1
<1>5. MuxVerdictIsSound
  BY <1>1 DEF MuxVerdictIsSound
<1> QED BY <1>1, <1>2, <1>3, <1>4, <1>5 DEF MuxIInv, TmuxTables, ZellijModes

LEMMA WriteLineKeeps == MuxIInv /\ WriteLine => MuxIInv'
<1> SUFFICES ASSUME MuxIInv, WriteLine PROVE MuxIInv'
  OBVIOUS
<1>1. muxKeys = <<>> /\ UNCHANGED <<mux, client, muxKeys, asked, muxSays>> /\ muxSays = "none"
  BY DEF WriteLine, MuxIInv
<1>2. MuxVerdictIsSound'
  BY <1>1 DEF MuxVerdictIsSound
<1>3. ASSUME mux = "tmux" PROVE TmuxLines'
  <2>1. PICK l \in TmuxBindings :
           /\ \A i \in DOMAIN muxLines : <<muxLines[i].table, muxLines[i].key>> # <<l.table, l.key>>
           /\ muxLines' = Append(muxLines, l)
    BY <1>3 DEF WriteLine
  <2>2. muxLines \in Seq(TmuxBindings) /\ Len(muxLines) \in Nat
        /\ \A i, j \in DOMAIN muxLines :
              <<muxLines[i].table, muxLines[i].key>> = <<muxLines[j].table, muxLines[j].key>> => i = j
    BY <1>3 DEF MuxIInv, TmuxLines
  <2>3. /\ muxLines' \in Seq(TmuxBindings)
        /\ \A i \in DOMAIN muxLines' :
              \/ i \in DOMAIN muxLines /\ muxLines'[i] = muxLines[i]
              \/ i = Len(muxLines) + 1 /\ muxLines'[i] = l
    BY <2>1, <2>2
  <2>4. \A i, j \in DOMAIN muxLines' :
           <<muxLines'[i].table, muxLines'[i].key>> = <<muxLines'[j].table, muxLines'[j].key>> => i = j
    BY <2>1, <2>2, <2>3
  <2> QED BY <2>3, <2>4 DEF TmuxLines
<1>4. ASSUME mux = "screen" PROVE muxLines' \in Seq(ScreenLines)
  <2>1. PICK l \in ScreenLines : muxLines' = Append(muxLines, l)
    BY <1>4 DEF WriteLine
  <2> QED BY <1>4, <2>1 DEF MuxIInv
<1>5. ASSUME mux = "zellij" PROVE muxLines' \in Seq(ZellijBlocks)
  <2>1. PICK l \in ZellijBlocks : muxLines' = Append(muxLines, l)
    BY <1>5 DEF WriteLine
  <2> QED BY <1>5, <2>1 DEF MuxIInv
<1> QED BY <1>1, <1>2, <1>3, <1>4, <1>5 DEF MuxIInv

LEMMA NameKeyKeeps == MuxIInv /\ NameKey => MuxIInv'
<1> SUFFICES ASSUME MuxIInv, NameKey PROVE MuxIInv'
  OBVIOUS
<1>1. muxSays = "none" /\ asked.step = "table" /\ UNCHANGED <<mux, muxLines, client, asked, muxSays>>
  BY DEF NameKey
<1>2. MuxVerdictIsSound'
  BY <1>1 DEF MuxVerdictIsSound
<1>3. PICK k \in MuxTyped(mux) : muxKeys' = Append(muxKeys, k)
  <2>1. CASE mux = "tmux"
    BY <2>1 DEF NameKey, MuxTyped
  <2>2. CASE mux = "screen"
    BY <2>2 DEF NameKey, MuxTyped
  <2>3. CASE mux = "zellij"
    BY <2>3 DEF NameKey, MuxTyped
  <2> QED BY <2>1, <2>2, <2>3 DEF MuxIInv
<1>4. muxKeys' \in Seq(MuxTyped(mux)) /\ Len(muxKeys') = Len(muxKeys) + 1 /\ Len(muxKeys) \in Nat
  BY <1>3 DEF MuxIInv
<1>5. mux = "zellij" => Len(muxKeys') <= 1
  BY <1>4 DEF NameKey
<1>6. TmuxLines => TmuxLines'
  BY <1>1 DEF TmuxLines
<1> QED BY <1>1, <1>2, <1>4, <1>5, <1>6 DEF MuxIInv

\* What goes on in the multiplexer before a verdict.
LEMMA ClientKeeps == MuxIInv /\ (SwitchMode \/ ClientKey) => MuxIInv'
<1> SUFFICES ASSUME MuxIInv, SwitchMode \/ ClientKey PROVE MuxIInv'
  OBVIOUS
<1>1. muxSays = "none" /\ UNCHANGED <<mux, muxLines, muxKeys, asked, muxSays>>
  BY DEF SwitchMode, ClientKey
<1>2. MuxVerdictIsSound'
  BY <1>1 DEF MuxVerdictIsSound
<1>3. TmuxLines => TmuxLines'
  BY <1>1 DEF TmuxLines
<1>4. mux = "tmux" => client' \in TmuxTables
  <2>1. \A k : TmuxDoes(muxLines, client, k).table \in TmuxTables
    BY TablesAre
  <2> QED BY <2>1 DEF SwitchMode, ClientKey
<1>5. mux = "zellij" => client' \in ZellijModes
  BY DEF SwitchMode, ClientKey, ZellijModes
<1> QED BY <1>1, <1>2, <1>3, <1>4, <1>5 DEF MuxIInv

\* The first two questions to tmux.
LEMMA AskingKeeps == MuxIInv /\ (TmuxActiveTable \/ TmuxPrefixes) => MuxIInv'
<1> SUFFICES ASSUME MuxIInv, TmuxActiveTable \/ TmuxPrefixes PROVE MuxIInv'
  OBVIOUS
<1>1. mux = "tmux" /\ UNCHANGED <<mux, muxLines, client, muxKeys, muxSays>>
  BY DEF TmuxActiveTable, TmuxPrefixes
<1>2. muxKeys # <<>> /\ asked.step \in {"table", "prefix"} /\ muxSays = "none"
  BY DEF TmuxActiveTable, TmuxPrefixes, MuxIInv
<1>3. MuxVerdictIsSound'
  BY <1>1, <1>2 DEF MuxVerdictIsSound
<1>4. TmuxLines => TmuxLines'
  BY <1>1 DEF TmuxLines
<1>5. /\ asked' \in [step : {"table", "prefix", "keys"}, start : TmuxTables, then : TmuxTables,
                     prefixes : {{}, {"ctrl+b"}}]
      /\ asked'.start \in TmuxTables /\ asked'.then \in TmuxTables
      /\ asked'.step = "keys" => asked'.prefixes = {"ctrl+b"}
  <2>1. CASE TmuxActiveTable
    <3>1. PICK start \in {client, "root"} :
             asked' = [asked EXCEPT !.step = "prefix", !.then = client, !.start = start]
      BY <2>1 DEF TmuxActiveTable
    <3>2. client \in TmuxTables /\ start \in TmuxTables
      BY <1>1, <3>1 DEF MuxIInv, TmuxTables
    <3> QED BY <3>1, <3>2 DEF MuxIInv
  <2>2. CASE TmuxPrefixes
    BY <2>2 DEF TmuxPrefixes, MuxIInv
  <2> QED BY <2>1, <2>2
<1> QED BY <1>1, <1>2, <1>3, <1>4, <1>5 DEF MuxIInv

LEMMA ListKeysKeeps == MuxIInv /\ ListKeys => MuxIInv'
<1> SUFFICES ASSUME MuxIInv, ListKeys PROVE MuxIInv'
  OBVIOUS
<1>1. mux = "tmux" /\ asked.step = "keys" /\ UNCHANGED <<mux, muxLines, client, muxKeys, asked>>
  BY DEF ListKeys
<1>2. PICK fails \in SUBSET TmuxTables : muxSays' = ResolveWithTables(asked.start, {"ctrl+b"}, fails)
  BY <1>1 DEF ListKeys, MuxIInv
<1>3. /\ TmuxLines /\ muxKeys \in Seq(TmuxTyped) /\ muxKeys # <<>> /\ asked.start \in TmuxTables
  BY <1>1 DEF MuxIInv, MuxTyped
<1>4. MuxVerdictIsSound'
  <2>1. SUFFICES ASSUME muxSays' \in {"consumed", "passed", "pass"}, asked.start = asked.then
                 PROVE  muxSays' = MuxDoes'
    BY <1>1 DEF MuxVerdictIsSound, ReadsWhatItCan
  <2>2. muxSays' = TmuxDoes(muxLines, TmuxTableAfter(muxLines, Front(muxKeys), asked.then), Last(muxKeys)).did
    BY <1>2, <1>3, <2>1, TmuxIsDone
  <2>3. MuxDoes' = TmuxDoes(muxLines', TmuxTableAfter(muxLines', Front(muxKeys'), asked'.then), Last(muxKeys')).did
    BY <1>1 DEF MuxDoes
  <2> QED BY <1>1, <2>2, <2>3
<1>5. TmuxLines'
  BY <1>1, <1>3 DEF TmuxLines
<1> QED BY <1>1, <1>3, <1>4, <1>5 DEF MuxIInv

LEMMA InspectKeeps == MuxIInv /\ InspectFiles => MuxIInv'
<1> SUFFICES ASSUME MuxIInv, InspectFiles PROVE MuxIInv'
  OBVIOUS
<1>1. /\ mux \in {"screen", "zellij"} /\ muxKeys # <<>>
      /\ UNCHANGED <<mux, muxLines, client, muxKeys, asked>>
  BY DEF InspectFiles
<1>2. CASE mux = "screen"
  <2>1. muxLines \in Seq(ScreenLines) /\ muxKeys \in Seq(ScreenTyped) /\ muxSays' = ScreenOutcome(muxKeys)
    BY <1>2 DEF InspectFiles, MuxIInv, MuxTyped
  <2>2. MuxVerdictIsSound'
    <3>1. SUFFICES ASSUME muxSays' \in {"consumed", "passed", "pass"}, Last(muxKeys) # "left"
                   PROVE  muxSays' = MuxDoes'
      BY <1>1, <1>2 DEF MuxVerdictIsSound, ReadsWhatItCan
    <3>2. muxSays' = ScreenDoes(muxLines, ScreenWaits(muxLines, Front(muxKeys)), Last(muxKeys))
      BY <1>1, <2>1, <3>1, ScreenIsDone
    <3>3. MuxDoes' = ScreenDoes(muxLines', ScreenWaits(muxLines', Front(muxKeys')), Last(muxKeys'))
      BY <1>1, <1>2 DEF MuxDoes
    <3> QED BY <1>1, <3>2, <3>3
  <2> QED BY <1>1, <1>2, <2>1, <2>2 DEF MuxIInv
<1>3. CASE mux = "zellij"
  <2>1. PICK modeKnown \in BOOLEAN, complete \in BOOLEAN :
           muxSays' = ZellijOutcome(IF modeKnown THEN client ELSE "normal", modeKnown, complete, muxKeys[1])
    BY <1>3 DEF InspectFiles
  <2>2. Last(muxKeys) = muxKeys[1]
    <3>1. muxKeys \in Seq(MuxTyped(mux)) /\ Len(muxKeys) <= 1 /\ muxKeys # <<>>
      BY <1>1, <1>3 DEF MuxIInv
    <3>2. Len(muxKeys) = 1
      <4>1. \A T : \A s \in Seq(T) : s # <<>> => Len(s) \in Nat /\ Len(s) # 0
        BY EmptySeq, LenProperties
      <4>2. Len(muxKeys) \in Nat /\ Len(muxKeys) # 0
        BY <3>1, <4>1
      <4> DEFINE n == Len(muxKeys)
      <4>3. n \in Nat /\ n # 0 /\ n <= 1
        BY <3>1, <4>2
      <4> HIDE DEF n
      <4>4. n = 1
        BY <4>3
      <4> QED BY <4>4 DEF n
    <3> QED BY <3>2 DEF Last
  <2>3. MuxVerdictIsSound'
    <3>1. SUFFICES ASSUME muxSays' \in {"consumed", "passed", "pass"},
                          \A i \in DOMAIN muxLines : ~muxLines[i].oneLine /\ muxLines[i].act = "quit",
                          ~ (muxSays' = "pass" /\ client # "normal")
                   PROVE  muxSays' = MuxDoes'
      BY <1>1, <1>3 DEF MuxVerdictIsSound, ReadsWhatItCan
    <3> DEFINE mode == IF modeKnown THEN client ELSE "normal"
    <3>2. muxLines \in Seq(QuitBlocks)
      <4>1. muxLines \in Seq(ZellijBlocks)
        BY <1>3 DEF MuxIInv
      <4>2. \A i \in DOMAIN muxLines : muxLines[i] \in QuitBlocks
        BY <3>1, <4>1 DEF QuitBlocks
      <4> QED BY <4>1, <4>2
    <3>3. mode \in ZellijModes
      BY <1>3 DEF MuxIInv, ZellijModes
    <3>4. muxSays' = ZellijDoes(muxLines, mode, muxKeys[1]) /\ (muxSays' # "pass" => modeKnown)
      <4> HIDE DEF mode
      <4>1. muxSays' = ZellijOutcome(mode, modeKnown, complete, muxKeys[1])
        BY <2>1 DEF mode
      <4> QED BY <3>1, <3>2, <3>3, <4>1, ZellijIsDone
    <3>5. mode = client
      BY <3>1, <3>4
    <3>6. MuxDoes' = ZellijDoes(muxLines', client', Last(muxKeys'))
      BY <1>1, <1>3 DEF MuxDoes
    <3> HIDE DEF mode
    <3> QED BY <1>1, <2>2, <3>4, <3>5, <3>6
  <2> QED BY <1>1, <1>3, <2>3 DEF MuxIInv
<1> QED BY <1>1, <1>2, <1>3

LEMMA MuxKeeps == MuxIInv /\ [MuxNext]_muxVars => MuxIInv'
<1>1. ASSUME MuxIInv, UNCHANGED muxVars PROVE MuxIInv'
  <2>1. UNCHANGED <<mux, muxLines, client, muxKeys, asked, muxSays>>
    BY <1>1 DEF muxVars
  <2>2. MuxVerdictIsSound'
    <3>1. ReadsWhatItCan' = ReadsWhatItCan /\ MuxDoes' = MuxDoes
      BY <2>1 DEF ReadsWhatItCan, MuxDoes
    <3>2. MuxVerdictIsSound
      BY <1>1 DEF MuxIInv
    <3> QED BY <2>1, <3>1, <3>2 DEF MuxVerdictIsSound
  <2>3. TmuxLines => TmuxLines'
    BY <2>1 DEF TmuxLines
  <2> QED BY <1>1, <2>1, <2>2, <2>3 DEF MuxIInv
<1> QED BY <1>1, WriteLineKeeps, NameKeyKeeps, ClientKeeps, AskingKeeps, ListKeysKeeps, InspectKeeps
        DEF MuxNext
-----------------------------------------------------------------------------
(* The remappers. *)
\* A set of positions has a smallest one.
LEMMA MinIs ==
    ASSUME NEW t \in SUBSET Nat, t # {}
    PROVE  Min(t) \in t /\ \A y \in t : Min(t) <= y
<1> DEFINE R == {p \in Nat \X Nat : p[1] < p[2]}
<1>1. IsWellFoundedOn(R, Nat)
  <2>1. IsWellFoundedOn(OpToRel(<, Nat), Nat)
    BY NatLessThanWellFounded
  <2> QED BY <2>1 DEF OpToRel
<1>2. PICK x \in t : \A y \in t : ~ (<<y, x>> \in R)
  <2> HIDE DEF R
  <2> QED BY <1>1, WFMin
<1>3. ASSUME NEW y \in t PROVE x <= y
  <2>1. x \in Nat /\ y \in Nat
    OBVIOUS
  <2>2. ASSUME y < x PROVE FALSE
    <3>1. <<y, x>> \in Nat \X Nat /\ <<y, x>>[1] < <<y, x>>[2]
      BY <2>1, <2>2
    <3> QED BY <1>2, <3>1
  <2> QED BY <2>1, <2>2
<1>4. \E z \in t : \A y \in t : z <= y
  BY <1>3
<1> QED BY <1>4 DEF Min

\* It is the smallest one of the sets between it and the whole.
LEMMA MinOfPart ==
    ASSUME NEW t \in SUBSET Nat, NEW s \in SUBSET t, t # {}, Min(t) \in s
    PROVE  Min(s) = Min(t)
<1>1. Min(t) \in t /\ \A y \in t : Min(t) <= y
  BY MinIs
<1>2. Min(s) \in s /\ \A y \in s : Min(s) <= y
  <2>1. s \in SUBSET Nat /\ s # {}
    OBVIOUS
  <2> QED BY <2>1, MinIs
<1>3. Min(s) \in Nat /\ Min(t) \in Nat /\ Min(s) <= Min(t) /\ Min(t) <= Min(s)
  BY <1>1, <1>2
<1> QED BY <1>3

\* What the evaluations find, and what a definite finding says comes out.
Said(e) == e \in {Untouched, Consume, Conditional} \/ e = Effect("remap", e.press)
Outcome(e, press) == IF e = Untouched THEN press ELSE e.press
Comes(e, press) == {Outcome(e, press)}

LEMMA SaidKinds ==
    /\ Untouched.is = "untouched" /\ Consume.is = "consume" /\ Conditional.is = "conditional"
    /\ Untouched.press = NoPress /\ Consume.press = NoPress /\ Conditional.press = NoPress
    /\ \A p : Effect("remap", p).is = "remap" /\ Effect("remap", p).press = p
    /\ Untouched # Consume /\ Untouched # Conditional /\ Consume # Conditional
BY DEF Untouched, Consume, Conditional, Effect

LEMMA RemapsDiffer ==
    ASSUME NEW p
    PROVE  Effect("remap", p) \notin {Untouched, Consume, Conditional}
BY SaidKinds

LEMMA RemapIs ==
    ASSUME NEW mods, NEW key
    PROVE  Said(Remap(mods, key)) /\ Remap(mods, key).is = "remap" /\ Remap(mods, key).press = Press(mods, key)
BY SaidKinds DEF Remap, Said

\* An action that is not left open does what is said of it.
SureActs == {"y", "C-y", "off", "macro", "layer-mine"}
LEMMA ActionSaid ==
    ASSUME NEW act, NEW carried
    PROVE  Said(ActionEffect(act, carried)) /\ ActionEffect(act, carried) # Untouched
<1>1. CASE act = "y"
  BY <1>1, RemapIs, SaidKinds DEF ActionEffect
<1>2. CASE act = "C-y"
  BY <1>2, RemapIs, SaidKinds DEF ActionEffect
<1>3. CASE act \in {"off", "macro", "layer-mine"}
  BY <1>3, SaidKinds DEF ActionEffect, Said
<1>4. CASE act \notin SureActs
  BY <1>4, SaidKinds DEF ActionEffect, Said, SureActs
<1> QED BY <1>1, <1>2, <1>3, <1>4 DEF SureActs

LEMMA ActionDone ==
    ASSUME NEW act, NEW carried, NEW press, act \in SureActs \union {"timing"},
           ActionEffect(act, carried) # Conditional
    PROVE  Performs(act, carried, press) = Comes(ActionEffect(act, carried), press)
<1>0. ActionEffect(act, carried) # Untouched
  BY ActionSaid
<1>1. CASE act = "y"
  BY <1>0, <1>1, RemapIs DEF ActionEffect, Performs, Outcome, Comes
<1>2. CASE act = "C-y"
  BY <1>0, <1>2, RemapIs DEF ActionEffect, Performs, Outcome, Comes
<1>3. CASE act \in {"off", "macro", "layer-mine"}
  BY <1>0, <1>3, SaidKinds DEF ActionEffect, Performs, Outcome, Comes
<1>4. CASE act = "timing"
  BY <1>4 DEF ActionEffect
<1> QED BY <1>1, <1>2, <1>3, <1>4 DEF SureActs

-----------------------------------------------------------------------------
(* keyd. *)
KeydBindings == KeydRules \union AppBindings

LEMMA RuleIs ==
    ASSUME NEW at, NEW mods, NEW key, NEW act, NEW limited
    PROVE  /\ Rule(at, mods, key, act, limited).at = at
           /\ Rule(at, mods, key, act, limited).mods = mods
           /\ Rule(at, mods, key, act, limited).key = key
           /\ Rule(at, mods, key, act, limited).act = act
           /\ Rule(at, mods, key, act, limited).limited = limited
BY DEF Rule

LEMMA KeydRule ==
    ASSUME NEW r \in KeydBindings
    PROVE  r.act \in SureActs \union {"timing"} /\ (r.at = "app" => r.key = "x")
<1>1. CASE r \in AppBindings
  <2>1. r.act = "y" /\ r.key = "x"
    BY <1>1, RuleIs DEF AppBindings
  <2> QED BY <2>1 DEF SureActs
<1>2. CASE r \in KeydRules
  <2>1. ASSUME NEW s \in {"main", "control", "alt", "composite", "mine"},
               NEW a \in {"y", "C-y", "macro", "timing"}, r = Rule(s, {}, "x", a, Unlimited)
        PROVE  r.act \in SureActs \union {"timing"} /\ r.at # "app"
    <3>1. r.act = a /\ r.at = s
      BY <2>1, RuleIs
    <3> QED BY <3>1 DEF SureActs
  <2>2. CASE r = Rule("main", {}, "y", "layer-mine", Unlimited)
    <3>1. r.act = "layer-mine" /\ r.at = "main"
      BY <2>2, RuleIs
    <3> QED BY <3>1 DEF SureActs
  <2> QED BY <1>2, <2>1, <2>2 DEF KeydRules
<1> QED BY <1>1, <1>2 DEF KeydBindings

\* The places of the rules of a key in a section are places of the file.
LEMMA Places ==
    ASSUME NEW T, NEW rules \in Seq(T), NEW section, NEW key
    PROVE  /\ In(rules, section, key) \in SUBSET DOMAIN rules
           /\ DOMAIN rules = 1 .. Len(rules) /\ Len(rules) \in Nat
           /\ \A i \in DOMAIN rules : rules[i] \in T
BY DEF In

LEMMA LastPlace ==
    ASSUME NEW T, NEW rules \in Seq(T), NEW section, NEW key, In(rules, section, key) # {}
    PROVE  rules[Max(In(rules, section, key))] \in T
<1> DEFINE mine == In(rules, section, key)
<1>1. mine \in SUBSET (1 .. Len(rules)) /\ Len(rules) \in Nat /\ \A i \in 1 .. Len(rules) : rules[i] \in T
  BY Places
<1>2. Max(mine) \in mine
  <2> HIDE DEF mine
  <2>1. mine # {}
    BY DEF mine
  <2> QED BY <1>1, <2>1, MaxIn
<1> HIDE DEF mine
<1>3. rules[Max(mine)] \in T
  BY <1>1, <1>2
<1> QED BY <1>3 DEF mine

LEMMA FirstPlace ==
    ASSUME NEW T, NEW rules \in Seq(T), NEW section, NEW key, In(rules, section, key) # {}
    PROVE  /\ rules[Min(In(rules, section, key))] \in T
           /\ Min(In(rules, section, key)) \in In(rules, section, key)
<1> DEFINE mine == In(rules, section, key)
<1>1. mine \in SUBSET (1 .. Len(rules)) /\ Len(rules) \in Nat /\ \A i \in 1 .. Len(rules) : rules[i] \in T
  BY Places
<1>2. Min(mine) \in mine
  <2> HIDE DEF mine
  <2>1. mine # {}
    BY DEF mine
  <2>2. mine \in SUBSET Nat
    BY <1>1
  <2> QED BY <2>1, <2>2, MinIs
<1> HIDE DEF mine
<1>3. rules[Min(mine)] \in T
  BY <1>1, <1>2
<1> QED BY <1>2, <1>3 DEF mine

Binds(rules, section, press) == In(rules, section, press.key) # {}
BoundAct(rules, layer, press) == rules[Max(In(rules, layer, press.key))].act

\* The binding of a layer does what is said of it.
LEMMA BoundDone ==
    ASSUME NEW rules \in Seq(KeydBindings), NEW layer, NEW press, NEW carried,
           Binds(rules, layer, press), LastBound(rules, layer, press, carried) # Conditional
    PROVE  Performs(BoundAct(rules, layer, press), carried, press)
              = Comes(LastBound(rules, layer, press, carried), press)
<1> DEFINE act == BoundAct(rules, layer, press)
<1>1. act \in SureActs \union {"timing"}
  BY LastPlace, KeydRule DEF BoundAct, Binds
<1>2. LastBound(rules, layer, press, carried) = ActionEffect(act, carried)
  BY DEF LastBound, BoundAct
<1> HIDE DEF act
<1>3. Performs(act, carried, press) = Comes(ActionEffect(act, carried), press)
  BY <1>1, <1>2, ActionDone
<1> QED BY <1>2, <1>3 DEF act

LEMMA BoundSaid ==
    ASSUME NEW rules, NEW layer, NEW press, NEW carried
    PROVE  Said(LastBound(rules, layer, press, carried)) /\ LastBound(rules, layer, press, carried) # Untouched
BY ActionSaid DEF LastBound

\* What keyd has held: each modifier through its layer.
HeldModifiers == [mod : {"C", "A"}, layer : {"control", "alt", "mine"}]
HeldThrough(held, mods) ==
    /\ held \in Seq(HeldModifiers) /\ mods = {held[i].mod : i \in DOMAIN held}
    /\ \A i \in DOMAIN held : held[i].layer = LayerName(held[i].mod)

Layered(rules, press) ==
    {LastBound(rules, LayerName(m), press, press.mods \ {m}) :
        m \in {m \in press.mods : Binds(rules, LayerName(m), press)}}

Binding(rules, held, press) == {i \in DOMAIN held : Binds(rules, held[i].layer, press)}
LastLayer(rules, held, press) == held[Max(Binding(rules, held, press))].layer

\* The layer activated last is one of those the lookup compares.
LEMMA LayeredDone ==
    ASSUME NEW rules, NEW press, NEW held, HeldThrough(held, press.mods),
           Binding(rules, held, press) # {}
    PROVE  \E m \in {"C", "A"} :
              /\ m \in press.mods /\ LastLayer(rules, held, press) = LayerName(m)
              /\ Binds(rules, LayerName(m), press)
              /\ (IF LastLayer(rules, held, press) = "alt" THEN "A" ELSE "C") = m
<1> DEFINE binding == Binding(rules, held, press)
<1>1. binding \in SUBSET (1 .. Len(held)) /\ Len(held) \in Nat /\ binding # {}
  <2>1. DOMAIN held = 1 .. Len(held) /\ Len(held) \in Nat
    BY DEF HeldThrough
  <2> QED BY <2>1 DEF Binding
<1>2. Max(binding) \in binding
  <2> HIDE DEF binding
  <2> QED BY <1>1, MaxIn
<1> DEFINE i == Max(binding)
<1>3. i \in DOMAIN held /\ Binds(rules, held[i].layer, press)
  BY <1>2 DEF Binding
<1>4. LastLayer(rules, held, press) = held[i].layer
  BY DEF LastLayer
<1> HIDE DEF i, binding
<1>5. held[i].layer = LayerName(held[i].mod) /\ held[i].mod \in press.mods /\ held[i] \in HeldModifiers
  BY <1>3 DEF HeldThrough
<1>6. held[i].mod \in {"C", "A"}
  BY <1>5 DEF HeldModifiers
<1> QED BY <1>3, <1>4, <1>5, <1>6 DEF LayerName

LEMMA CompositeHeld ==
    ASSUME NEW mods, NEW held, HeldThrough(held, mods)
    PROVE  mods = {"C", "A"} <=> {"control", "alt"} \subseteq {held[i].layer : i \in DOMAIN held}
<1>1. \A i \in DOMAIN held : /\ held[i].mod \in {"C", "A"}
                             /\ held[i].layer = LayerName(held[i].mod)
  <2>1. \A i \in DOMAIN held : held[i] \in HeldModifiers /\ held[i].layer = LayerName(held[i].mod)
    BY DEF HeldThrough
  <2>2. \A h \in HeldModifiers : h.mod \in {"C", "A"}
    BY DEF HeldModifiers
  <2> QED BY <2>1, <2>2
<1>2. mods = {held[i].mod : i \in DOMAIN held}
  BY DEF HeldThrough
<1>3. \A i \in DOMAIN held : /\ held[i].mod = "C" <=> held[i].layer = "control"
                             /\ held[i].mod = "A" <=> held[i].layer = "alt"
  BY <1>1 DEF LayerName
<1> QED BY <1>1, <1>2, <1>3

LEMMA LayeredBinding ==
    ASSUME NEW rules, NEW press, NEW held, HeldThrough(held, press.mods)
    PROVE  Layered(rules, press) = {} <=> Binding(rules, held, press) = {}
<1>1. \A i \in DOMAIN held : held[i].layer = LayerName(held[i].mod)
  BY DEF HeldThrough
<1>2. press.mods = {held[i].mod : i \in DOMAIN held}
  BY DEF HeldThrough
<1>3. Layered(rules, press) = {} <=> \A m \in press.mods : ~Binds(rules, LayerName(m), press)
  BY DEF Layered
<1> QED BY <1>1, <1>2, <1>3 DEF Binding

LEMMA LookupIs ==
    ASSUME NEW rules, NEW press
    PROVE  LookupKeyd(rules, press) =
             IF press.mods = {"C", "A"} /\ Binds(rules, "composite", press)
             THEN LastBound(rules, "composite", press, {})
             ELSE IF Layered(rules, press) # {}
             THEN IF AllAgree(Layered(rules, press)) THEN CHOOSE e \in Layered(rules, press) : TRUE ELSE Conditional
             ELSE IF Binds(rules, "main", press) THEN LastBound(rules, "main", press, press.mods)
             ELSE Untouched
BY DEF LookupKeyd, Layered, Binds

LEMMA LookupSaid ==
    ASSUME NEW rules, NEW press
    PROVE  Said(LookupKeyd(rules, press))
<1>1. \A e \in Layered(rules, press) : Said(e)
  BY BoundSaid DEF Layered
<1>2. Layered(rules, press) # {} => Said(CHOOSE e \in Layered(rules, press) : TRUE)
  BY <1>1
<1>3. Said(Untouched) /\ Said(Conditional)
  BY DEF Said
<1>4. Said(LastBound(rules, "composite", press, {})) /\ Said(LastBound(rules, "main", press, press.mods))
  BY BoundSaid
<1> QED BY <1>2, <1>3, <1>4, LookupIs

LEMMA KeydDone ==
    ASSUME NEW rules \in Seq(KeydBindings), NEW press, NEW held, HeldThrough(held, press.mods),
           LookupKeyd(rules, press) # Conditional
    PROVE  KeydDoes(rules, held, press) = Comes(LookupKeyd(rules, press), press)
<1> DEFINE layers == {held[i].layer : i \in DOMAIN held}
           binding == Binding(rules, held, press)
           last == LastLayer(rules, held, press)
<1>1. KeydDoes(rules, held, press) =
        IF {"control", "alt"} \subseteq layers /\ Binds(rules, "composite", press)
        THEN Performs(BoundAct(rules, "composite", press), {}, press)
        ELSE IF binding # {}
        THEN Performs(BoundAct(rules, last, press), press.mods \ {IF last = "alt" THEN "A" ELSE "C"}, press)
        ELSE IF Binds(rules, "main", press) THEN Performs(BoundAct(rules, "main", press), press.mods, press)
        ELSE {press}
  BY DEF KeydDoes, Binding, Binds, LastLayer, BoundAct
<1>2. press.mods = {"C", "A"} <=> {"control", "alt"} \subseteq layers
  BY CompositeHeld
<1>3. Layered(rules, press) = {} <=> binding = {}
  BY LayeredBinding
<1>5. ASSUME binding # {}
      PROVE  /\ Binds(rules, last, press)
             /\ LastBound(rules, last, press, press.mods \ {IF last = "alt" THEN "A" ELSE "C"}) \in Layered(rules, press)
  <2>1. PICK m \in {"C", "A"} : /\ m \in press.mods /\ last = LayerName(m)
                                /\ Binds(rules, LayerName(m), press)
                                /\ (IF last = "alt" THEN "A" ELSE "C") = m
    BY <1>5, LayeredDone
  <2> HIDE DEF last
  <2> QED BY <2>1 DEF Layered
<1>6. Comes(Untouched, press) = {press}
  BY DEF Outcome, Comes
<1> HIDE DEF layers, binding, last
<1>7. CASE press.mods = {"C", "A"} /\ Binds(rules, "composite", press)
  <2>1. LookupKeyd(rules, press) = LastBound(rules, "composite", press, {})
    BY <1>7, LookupIs
  <2>2. KeydDoes(rules, held, press) = Performs(BoundAct(rules, "composite", press), {}, press)
    BY <1>1, <1>2, <1>7
  <2>3. Performs(BoundAct(rules, "composite", press), {}, press)
          = Comes(LastBound(rules, "composite", press, {}), press)
    BY BoundDone, <1>7, <2>1
  <2> QED BY <2>1, <2>2, <2>3
<1>8. CASE ~ (press.mods = {"C", "A"} /\ Binds(rules, "composite", press)) /\ binding # {}
  <2> DEFINE carried == press.mods \ {IF last = "alt" THEN "A" ELSE "C"}
             e == LastBound(rules, last, press, carried)
  <2>1. KeydDoes(rules, held, press) = Performs(BoundAct(rules, last, press), carried, press)
    BY <1>1, <1>2, <1>8
  <2>2. e \in Layered(rules, press) /\ Binds(rules, last, press)
    BY <1>5, <1>8
  <2>3. LookupKeyd(rules, press) = e
    <3> HIDE DEF e
    <3>1. AllAgree(Layered(rules, press)) /\ LookupKeyd(rules, press) = CHOOSE f \in Layered(rules, press) : TRUE
      BY <1>3, <1>8, LookupIs
    <3>2. LookupKeyd(rules, press) \in Layered(rules, press)
      BY <2>2, <3>1
    <3> QED BY <2>2, <3>1, <3>2 DEF AllAgree
  <2> HIDE DEF carried, last
  <2>4. Performs(BoundAct(rules, last, press), carried, press)
          = Comes(LastBound(rules, last, press, carried), press)
    BY BoundDone, <2>2, <2>3
  <2> QED BY <2>1, <2>3, <2>4
<1>9. CASE ~ (press.mods = {"C", "A"} /\ Binds(rules, "composite", press)) /\ binding = {}
           /\ Binds(rules, "main", press)
  <2>1. LookupKeyd(rules, press) = LastBound(rules, "main", press, press.mods)
    BY <1>3, <1>9, LookupIs
  <2>2. KeydDoes(rules, held, press) = Performs(BoundAct(rules, "main", press), press.mods, press)
    BY <1>1, <1>2, <1>9
  <2> QED BY BoundDone, <1>9, <2>1, <2>2
<1>10. CASE ~ (press.mods = {"C", "A"} /\ Binds(rules, "composite", press)) /\ binding = {}
            /\ ~Binds(rules, "main", press)
  <2>1. LookupKeyd(rules, press) = Untouched
    BY <1>3, <1>10, LookupIs
  <2>2. KeydDoes(rules, held, press) = {press}
    BY <1>1, <1>2, <1>10
  <2> QED BY <1>6, <2>1, <2>2
<1> QED BY <1>7, <1>8, <1>9, <1>10

-----------------------------------------------------------------------------
(* kanata and kmonad. *)
KanataRules == LayerRules \union KanataOverrides

LEMMA LayerRule ==
    ASSUME NEW r \in LayerRules
    PROVE  r.act \in SureActs \union {"timing", "transparent"} /\ r.at = "base"
<1>1. PICK k \in {"x", "lctl", "rctl"}, a \in {"y", "C-y", "transparent", "off", "timing"} :
         r = Rule("base", {}, k, a, Unlimited)
  BY DEF LayerRules
<1>2. r.act = a /\ r.at = "base"
  BY <1>1, RuleIs
<1> QED BY <1>2 DEF SureActs

LEMMA OverrideRule ==
    ASSUME NEW r \in KanataOverrides
    PROVE  r.at = "override" /\ r.key = "x"
<1>1. PICK m \in {{}, {"C"}} : r = Rule("override", m, "x", "y", Unlimited)
  BY DEF KanataOverrides
<1> QED BY <1>1, RuleIs

\* The action of the layer is one of a layer.
LEMMA BaseActIs ==
    ASSUME NEW rules \in Seq(KanataRules), NEW press, Binds(rules, "base", press)
    PROVE  BaseAct(rules, press.key) \in SureActs \union {"timing", "transparent"}
<1> DEFINE i == Min(In(rules, "base", press.key))
<1>1. rules[i] \in KanataRules /\ i \in In(rules, "base", press.key)
  BY FirstPlace DEF Binds
<1>2. BaseAct(rules, press.key) = rules[i].act
  BY DEF BaseAct
<1> HIDE DEF i
<1>3. rules[i].at = "base"
  BY <1>1 DEF In
<1> QED BY <1>1, <1>2, <1>3, LayerRule, OverrideRule DEF KanataRules

\* What the layer makes of the press, and what it emits.
LayerEffect(r, press) ==
    IF Binds(r.rules, "base", press) THEN ResolveButton(BaseAct(r.rules, press.key), press)
    ELSE Effect("remap", press)

LEMMA LayerDone ==
    ASSUME NEW r, NEW press, r.rules \in Seq(KanataRules), LayerEffect(r, press) # Conditional
    PROVE  \/ LayerEffect(r, press) = Consume /\ LayerDoes(r, press, {press}) = {NoPress}
           \/ \E p : LayerEffect(r, press) = Effect("remap", p) /\ LayerDoes(r, press, {press}) = {p}
<1> DEFINE rules == r.rules
           act == BaseAct(rules, press.key)
<1>1. CASE ~ Binds(rules, "base", press)
  BY <1>1 DEF LayerEffect, LayerDoes, Binds
<1>2. CASE Binds(rules, "base", press)
  <2>1. act \in SureActs \union {"timing", "transparent"}
    BY <1>2, BaseActIs
  <2>2. LayerEffect(r, press) = ResolveButton(act, press) /\ LayerDoes(r, press, {press}) = Performs(act, press.mods, press)
    BY <1>2 DEF LayerEffect, LayerDoes, Binds
  <2> HIDE DEF act
  <2>3. CASE act = "transparent"
    BY <2>2, <2>3 DEF ResolveButton, Performs
  <2>4. CASE act # "transparent"
    <3> DEFINE e == ActionEffect(act, press.mods)
    <3>1. LayerEffect(r, press) = e
      BY <2>2, <2>4 DEF ResolveButton
    <3>2. Said(e) /\ e # Untouched /\ e # Conditional
      BY <3>1, ActionSaid
    <3>3. Performs(act, press.mods, press) = Comes(e, press)
      BY <2>1, <2>4, <3>2, ActionDone
    <3> HIDE DEF e
    <3>4. Comes(e, press) = {e.press}
      BY <3>2 DEF Comes, Outcome
    <3>5. e = Consume \/ e = Effect("remap", e.press)
      BY <3>2 DEF Said
    <3>6. CASE e = Consume
      BY <2>2, <3>1, <3>3, <3>4, <3>6, SaidKinds
    <3>7. CASE e = Effect("remap", e.press)
      BY <2>2, <3>1, <3>3, <3>4, <3>7
    <3> QED BY <3>5, <3>6, <3>7
  <2> QED BY <2>3, <2>4
<1> QED BY <1>1, <1>2

Overridden(rules, out) ==
    IF \E i \in In(rules, "override", out.key) : rules[i].mods = out.mods THEN Press({}, "y") ELSE out

LEMMA KanataEmits ==
    ASSUME NEW r, NEW press, NEW p, LayerDoes(r, press, {press}) = {p}
    PROVE  KanataDoes(r, press) = {Overridden(r.rules, p)}
BY DEF KanataDoes, Overridden

LEMMA RemapComes ==
    ASSUME NEW p, NEW press
    PROVE  Comes(Effect("remap", p), press) = {p}
BY SaidKinds, RemapsDiffer DEF Comes, Outcome

LEMMA NoPressComes ==
    ASSUME NEW press
    PROVE  Comes(Consume, press) = {NoPress} /\ Comes(Untouched, press) = {press}
BY SaidKinds DEF Comes, Outcome

\* The overrides of what is emitted.
LEMMA OverridesDone ==
    ASSUME NEW rules \in Seq(KanataRules), NEW p, ApplyOverrides(rules, p) # Conditional, NEW press
    PROVE  {Overridden(rules, p)} = Comes(ApplyOverrides(rules, p), press)
<1> DEFINE key == p.key
           matched == In(rules, "override", key)
<1>1. ApplyOverrides(rules, p) =
        IF matched = {} THEN Effect("remap", p)
        ELSE IF rules[Min(matched)].mods # {} \/ p.mods # {} THEN Conditional
        ELSE Remap({}, "y")
  BY DEF ApplyOverrides
<1>2. CASE matched = {}
  <2>1. Overridden(rules, p) = p
    BY <1>2 DEF Overridden
  <2> QED BY <1>1, <1>2, <2>1, RemapComes
<1>3. CASE matched # {}
  <2>1. Min(matched) \in matched
    <3> HIDE DEF key
    <3> QED BY <1>3, FirstPlace
  <2>2. rules[Min(matched)].mods = {} /\ p.mods = {} /\ ApplyOverrides(rules, p) = Remap({}, "y")
    <3> HIDE DEF matched
    <3> QED BY <1>1, <1>3
  <2>3. Overridden(rules, p) = Press({}, "y")
    BY <2>1, <2>2 DEF Overridden
  <2>4. Comes(Remap({}, "y"), press) = {Press({}, "y")}
    BY RemapComes DEF Remap
  <2> QED BY <2>2, <2>3, <2>4
<1> QED BY <1>2, <1>3

LEMMA NoneOverridden ==
    ASSUME NEW rules \in Seq(KanataRules)
    PROVE  Overridden(rules, NoPress) = NoPress
<1>1. NoPress.key = "none"
  BY DEF NoPress, Press
<1>2. ASSUME NEW i \in In(rules, "override", "none") PROVE FALSE
  <2>1. rules[i] \in KanataRules /\ rules[i].at = "override" /\ rules[i].key = "none"
    BY <1>2, Places DEF In
  <2> QED BY <2>1, LayerRule, OverrideRule DEF KanataRules
<1> QED BY <1>1, <1>2 DEF Overridden

LEMMA KanataKeyIs ==
    ASSUME NEW r, NEW press
    PROVE  KanataKey(r, press) =
             IF ~ Binds(r.rules, "base", press) /\ ~r.through THEN Untouched
             ELSE IF LayerEffect(r, press).is = "remap" THEN ApplyOverrides(r.rules, LayerEffect(r, press).press)
             ELSE LayerEffect(r, press)
BY DEF KanataKey, Binds, LayerEffect

LEMMA KanataSaid ==
    ASSUME NEW r, NEW press, r.rules \in Seq(KanataRules)
    PROVE  Said(KanataKey(r, press))
<1>1. Said(Untouched) /\ Said(Conditional) /\ Said(Consume) /\ \A p : Said(Effect("remap", p))
  BY SaidKinds DEF Said
<1>2. \A p : Said(ApplyOverrides(r.rules, p))
  BY <1>1, RemapIs DEF ApplyOverrides
<1>3. Said(LayerEffect(r, press))
  <2>1. \A act : Said(ResolveButton(act, press))
    BY <1>1, ActionSaid DEF ResolveButton
  <2> QED BY <1>1, <2>1 DEF LayerEffect
<1> QED BY <1>1, <1>2, <1>3, KanataKeyIs

LEMMA KanataDone ==
    ASSUME NEW r, NEW press, r.rules \in Seq(KanataRules), KanataKey(r, press) # Conditional
    PROVE  (IF ~r.through /\ ~ Binds(r.rules, "base", press) THEN {press} ELSE KanataDoes(r, press))
              = Comes(KanataKey(r, press), press)
<1>1. CASE ~ Binds(r.rules, "base", press) /\ ~r.through
  BY <1>1, KanataKeyIs, NoPressComes
<1>2. CASE ~ (~ Binds(r.rules, "base", press) /\ ~r.through)
  <2>1. KanataKey(r, press) =
          IF LayerEffect(r, press).is = "remap" THEN ApplyOverrides(r.rules, LayerEffect(r, press).press)
          ELSE LayerEffect(r, press)
    BY <1>2, KanataKeyIs
  <2>2. LayerEffect(r, press) # Conditional
    BY <2>1, SaidKinds
  <2>3. ASSUME LayerEffect(r, press) = Consume, LayerDoes(r, press, {press}) = {NoPress}
        PROVE  KanataDoes(r, press) = Comes(KanataKey(r, press), press)
    <3>1. KanataKey(r, press) = Consume
      BY <2>1, <2>3, SaidKinds
    <3>2. KanataDoes(r, press) = {NoPress}
      BY <2>3, KanataEmits, NoneOverridden
    <3> QED BY <3>1, <3>2, NoPressComes
  <2>4. ASSUME NEW p, LayerEffect(r, press) = Effect("remap", p), LayerDoes(r, press, {press}) = {p}
        PROVE  KanataDoes(r, press) = Comes(KanataKey(r, press), press)
    <3>1. KanataKey(r, press) = ApplyOverrides(r.rules, p)
      BY <2>1, <2>4, SaidKinds
    <3>2. KanataDoes(r, press) = {Overridden(r.rules, p)}
      BY <2>4, KanataEmits
    <3> QED BY <3>1, <3>2, OverridesDone
  <2>5. KanataDoes(r, press) = Comes(KanataKey(r, press), press)
    <3>1. \/ LayerEffect(r, press) = Consume /\ LayerDoes(r, press, {press}) = {NoPress}
          \/ \E p : LayerEffect(r, press) = Effect("remap", p) /\ LayerDoes(r, press, {press}) = {p}
      BY <2>2, LayerDone
    <3> QED BY <2>3, <2>4, <3>1
  <2> QED BY <1>2, <2>5
<1> QED BY <1>1, <1>2

LEMMA UnhandledIs == \A e : Said(e) => e # Unhandled
BY SaidKinds DEF Said, Unhandled, Effect

LEMMA KmonadSaid ==
    ASSUME NEW r, NEW press
    PROVE  Said(KmonadKey(r, press))
<1>1. Said(Untouched) /\ Said(Consume)
  BY DEF Said
<1>2. ASSUME NEW act, ResolveName(act, press) # Unhandled PROVE Said(ResolveName(act, press))
  BY <1>2, ActionSaid DEF ResolveName
<1> QED BY <1>1, <1>2 DEF KmonadKey

LEMMA KmonadDone ==
    ASSUME NEW r, NEW press, r.rules \in Seq(LayerRules), KmonadKey(r, press) # Conditional
    PROVE  KmonadDoes(r, press) = Comes(KmonadKey(r, press), press)
<1> DEFINE bound == Binds(r.rules, "base", press)
           act == BaseAct(r.rules, press.key)
           below == IF r.through THEN {press} ELSE {NoPress}
           passed == IF r.through THEN Untouched ELSE Consume
<1>1. below = Comes(passed, press)
  BY NoPressComes
<1>2. CASE ~bound \/ act = "transparent"
  <2>1. KmonadKey(r, press) = passed
    BY <1>2 DEF KmonadKey, Binds, ResolveName
  <2>2. KmonadDoes(r, press) = below
    BY <1>2 DEF KmonadDoes, LayerDoes, Binds
  <2> QED BY <1>1, <2>1, <2>2
<1>3. CASE bound /\ act # "transparent"
  <2>1. ActionEffect(act, press.mods) # Unhandled
    BY ActionSaid, UnhandledIs
  <2>2. KmonadKey(r, press) = ActionEffect(act, press.mods)
    BY <1>3, <2>1 DEF KmonadKey, Binds, ResolveName
  <2>3. KmonadDoes(r, press) = Performs(act, press.mods, press)
    BY <1>3 DEF KmonadDoes, LayerDoes, Binds
  <2>4. act \in SureActs \union {"timing", "transparent"}
    <3>1. r.rules \in Seq(KanataRules)
      BY DEF KanataRules
    <3> QED BY <1>3, <3>1, BaseActIs
  <2> HIDE DEF act
  <2> QED BY <1>3, <2>2, <2>3, <2>4, ActionDone
<1> QED BY <1>2, <1>3

-----------------------------------------------------------------------------
(* input-remapper. *)
LEMMA PresetRule ==
    ASSUME NEW r \in PresetRules
    PROVE  r.act \in SureActs
<1>1. PICK k \in {"x", "lctl", "rctl"}, a \in {"y", "C-y", "off"}, l \in BOOLEAN :
         r = Rule("preset", {}, k, a, l)
  BY DEF PresetRules
<1>2. r.act = a
  BY <1>1, RuleIs
<1> QED BY <1>2 DEF SureActs

LEMMA PresetDone ==
    ASSUME NEW rules \in Seq(PresetRules), NEW press, NEW out, Binds(rules, "preset", press),
           \A i \in In(rules, "preset", press.key) :
              /\ PresetOutput(rules[i], press) # Conditional
              /\ Comes(PresetOutput(rules[i], press), press) = {out}
    PROVE  PresetDoes(rules, press) = {out}
<1> DEFINE mine == In(rules, "preset", press.key)
<1>1. ASSUME NEW i \in mine
      PROVE  ~rules[i].limited /\ Performs(rules[i].act, press.mods, press) = {out}
  <2>1. ~rules[i].limited /\ PresetOutput(rules[i], press) = ActionEffect(rules[i].act, press.mods)
    BY DEF PresetOutput
  <2>2. rules[i].act \in SureActs
    BY Places, PresetRule
  <2>3. ActionEffect(rules[i].act, press.mods) # Conditional
        /\ Comes(ActionEffect(rules[i].act, press.mods), press) = {out}
    BY <2>1
  <2> QED BY <2>1, <2>2, <2>3, ActionDone
<1>2. PICK i \in mine : TRUE
  BY DEF Binds
<1>3. PresetDoes(rules, press) =
        (UNION {Performs(rules[j].act, press.mods, press) : j \in mine})
        \union (IF \A j \in mine : rules[j].limited THEN {press} ELSE {})
  BY DEF PresetDoes
<1> HIDE DEF mine
<1>4. ~ \A j \in mine : rules[j].limited
  BY <1>1, <1>2
<1>5. {Performs(rules[j].act, press.mods, press) : j \in mine} = {{out}}
  BY <1>1, <1>2
<1> QED BY <1>3, <1>4, <1>5

LEMMA PresetIdle ==
    ASSUME NEW rules, NEW press, ~ Binds(rules, "preset", press)
    PROVE  PresetDoes(rules, press) = {press}
BY DEF PresetDoes, Binds

-----------------------------------------------------------------------------
(* xremap. *)
LEMMA XremapRule ==
    ASSUME NEW r \in XremapRules
    PROVE  r.act \in SureActs /\ (r.at = "modmap" => r.act \in {"y", "off"})
<1>1. ASSUME NEW k \in {"x", "lctl", "rctl"}, NEW a \in {"y", "off"}, NEW l \in BOOLEAN,
             r = Rule("modmap", {}, k, a, l)
      PROVE  r.act \in SureActs /\ (r.at = "modmap" => r.act \in {"y", "off"})
  <2>1. r.act = a
    BY <1>1, RuleIs
  <2> QED BY <2>1 DEF SureActs
<1>2. ASSUME NEW s \in {"keymap", "exact"}, NEW m \in {{}, {"C"}}, NEW k \in {"x", "y"},
             NEW a \in {"y", "C-y", "off"}, NEW l \in BOOLEAN, r = Rule(s, m, k, a, l)
      PROVE  r.act \in SureActs /\ (r.at = "modmap" => r.act \in {"y", "off"})
  <2>1. r.act = a /\ r.at = s
    BY <1>2, RuleIs
  <2> QED BY <2>1 DEF SureActs
<1> QED BY <1>1, <1>2 DEF XremapRules

\* The entries that count for a window are at least those without a limit: a
\* first entry that has none stays the first one.
CountedOf(rules, counted) ==
    counted \in SUBSET DOMAIN rules /\ \A i \in DOMAIN rules : ~rules[i].limited => i \in counted

LEMMA StillFirst ==
    ASSUME NEW rules \in Seq(XremapRules), NEW counted, CountedOf(rules, counted),
           NEW places \in SUBSET DOMAIN rules, places # {}, ~rules[Min(places)].limited
    PROVE  places \intersect counted # {} /\ Min(places \intersect counted) = Min(places)
<1> DEFINE kept == places \intersect counted
<1>1. places \in SUBSET Nat /\ kept \in SUBSET places
  OBVIOUS
<1>2. Min(places) \in places
  BY <1>1, MinIs
<1>3. Min(places) \in kept
  BY <1>2 DEF CountedOf
<1> HIDE DEF kept
<1>4. Min(kept) = Min(places) /\ kept # {}
  BY <1>1, <1>3, MinOfPart
<1> QED BY <1>4 DEF kept

\* What the modmap says of the key is what it does for the window.
LEMMA ModmapDone ==
    ASSUME NEW rules \in Seq(XremapRules), NEW press, NEW counted, CountedOf(rules, counted),
           NEW modmap, modmap = In(rules, "modmap", press.key) \intersect counted,
           ModmapFor(rules, press.key) # Conditional
    PROVE  \/ /\ ModmapFor(rules, press.key) = Consume
              /\ modmap # {} /\ rules[Min(modmap)].act = "off"
           \/ /\ ModmapFor(rules, press.key) = Remap({}, "y") /\ Binds(rules, "modmap", press)
              /\ modmap # {} /\ rules[Min(modmap)].act = "y"
           \/ /\ ModmapFor(rules, press.key) = Untouched /\ ~ Binds(rules, "modmap", press)
              /\ modmap = {}
<1> DEFINE key == press.key
           mine == In(rules, "modmap", key)
<1>0. mine \in SUBSET DOMAIN rules
  BY Places
<1>1. CASE mine = {}
  BY <1>1 DEF ModmapFor, Binds
<1>2. CASE mine # {}
  <2>1. /\ ~rules[Min(mine)].limited
        /\ ModmapFor(rules, key) = ActionEffect(rules[Min(mine)].act, {})
    BY <1>2 DEF ModmapFor
  <2>2. rules[Min(mine)] \in XremapRules /\ Min(mine) \in mine
    <3> HIDE DEF key
    <3> QED BY <1>2, FirstPlace
  <2>3. rules[Min(mine)].act \in {"y", "off"}
    <3>1. rules[Min(mine)].at = "modmap"
      BY <2>2 DEF In
    <3> QED BY <2>2, <3>1, XremapRule
  <2>4. Binds(rules, "modmap", press)
    BY <1>2 DEF Binds
  <2> HIDE DEF mine
  <2>5. modmap # {} /\ Min(modmap) = Min(mine)
    <3>1. modmap = mine \intersect counted
      BY DEF mine
    <3> QED BY <1>0, <1>2, <2>1, <3>1, StillFirst
  <2>6. ActionEffect("off", {}) = Consume /\ ActionEffect("y", {}) = Remap({}, "y")
    BY DEF ActionEffect
  <2> QED BY <2>1, <2>3, <2>4, <2>5, <2>6
<1> QED BY <1>1, <1>2

Entry(rules, out) ==
    rules[Min(IF ExactFits(rules, out) = {} THEN LooseFits(rules, out) ELSE ExactFits(rules, out))]
Fits(rules, out) == ExactFits(rules, out) # {} \/ LooseFits(rules, out) # {}

LEMMA KeymapIs ==
    ASSUME NEW rules, NEW out
    PROVE  KeymapFor(rules, out) =
             IF Fits(rules, out) THEN KeymapAction(Entry(rules, out), out) ELSE Untouched
<1>1. CASE ExactFits(rules, out) = {}
  <2>1. ExactFits(rules, out) \union LooseFits(rules, out) = LooseFits(rules, out)
    BY <1>1
  <2> QED BY <1>1, <2>1 DEF KeymapFor, Entry, Fits
<1>2. CASE ExactFits(rules, out) # {}
  <2>1. ExactFits(rules, out) \union LooseFits(rules, out) # {}
    BY <1>2
  <2> QED BY <1>2, <2>1 DEF KeymapFor, Entry, Fits
<1> QED BY <1>1, <1>2

\* The entry for the window is the entry of the file.
UsedEntries(rules, counted, out) ==
    IF ExactFits(rules, out) \intersect counted # {} THEN ExactFits(rules, out) \intersect counted
    ELSE LooseFits(rules, out) \intersect counted

LEMMA FitPlaces ==
    ASSUME NEW rules, NEW out
    PROVE  ExactFits(rules, out) \in SUBSET DOMAIN rules /\ LooseFits(rules, out) \in SUBSET DOMAIN rules
BY DEF ExactFits, LooseFits, In

LEMMA EntryUsed ==
    ASSUME NEW rules \in Seq(XremapRules), NEW out, NEW counted, CountedOf(rules, counted),
           Fits(rules, out), ~Entry(rules, out).limited
    PROVE  /\ UsedEntries(rules, counted, out) # {}
           /\ rules[Min(UsedEntries(rules, counted, out))] = Entry(rules, out)
           /\ Entry(rules, out) \in XremapRules
<1> DEFINE exact == ExactFits(rules, out)
           loose == LooseFits(rules, out)
<1>1. exact \in SUBSET DOMAIN rules /\ loose \in SUBSET DOMAIN rules
  BY FitPlaces
<1>2. ASSUME NEW places \in SUBSET DOMAIN rules, places # {}
      PROVE  rules[Min(places)] \in XremapRules
  <2>1. places \in SUBSET Nat
    OBVIOUS
  <2>2. Min(places) \in places
    BY <1>2, <2>1, MinIs
  <2> QED BY <2>2
<1>3. CASE exact = {}
  <2>1. Entry(rules, out) = rules[Min(loose)] /\ loose # {}
    BY <1>3 DEF Entry, Fits
  <2>2. UsedEntries(rules, counted, out) = loose \intersect counted
    BY <1>3 DEF UsedEntries
  <2> HIDE DEF loose, exact
  <2>3. loose \intersect counted # {} /\ Min(loose \intersect counted) = Min(loose)
    BY <1>1, <2>1, StillFirst
  <2> QED BY <1>1, <1>2, <2>1, <2>2, <2>3
<1>4. CASE exact # {}
  <2>1. Entry(rules, out) = rules[Min(exact)]
    BY <1>4 DEF Entry
  <2>2. UsedEntries(rules, counted, out) =
          IF exact \intersect counted # {} THEN exact \intersect counted ELSE loose \intersect counted
    BY DEF UsedEntries
  <2> HIDE DEF loose, exact
  <2>3. exact \intersect counted # {} /\ Min(exact \intersect counted) = Min(exact)
    BY <1>1, <1>4, <2>1, StillFirst
  <2> QED BY <1>1, <1>2, <1>4, <2>1, <2>2, <2>3
<1> QED BY <1>3, <1>4

LEMMA NoneUsed ==
    ASSUME NEW rules, NEW out, NEW counted, ~Fits(rules, out)
    PROVE  UsedEntries(rules, counted, out) = {}
BY DEF Fits, UsedEntries

LEMMA XremapKeyIs ==
    ASSUME NEW rules, NEW press, NEW modmapped, modmapped = ModmapFor(rules, press.key)
    PROVE  /\ modmapped \in {Consume, Conditional} => XremapKey(rules, press) = modmapped
           /\ \A key : /\ \/ modmapped = Untouched /\ key = press.key
                          \/ modmapped = Remap({}, "y") /\ key = "y"
                       => XremapKey(rules, press) =
                            IF KeymapFor(rules, Press(press.mods, key)) # Untouched
                            THEN KeymapFor(rules, Press(press.mods, key))
                            ELSE Remap(press.mods, key)
<1>1. /\ Consume.is = "consume" /\ Conditional.is = "conditional" /\ Untouched.is = "untouched"
      /\ Remap({}, "y").is = "remap" /\ Remap({}, "y").press.key = "y"
  <2>1. Remap({}, "y").press = Press({}, "y") /\ Remap({}, "y").is = "remap"
    BY RemapIs
  <2>2. Press({}, "y").key = "y"
    BY DEF Press
  <2> QED BY <2>1, <2>2, SaidKinds
<1>2. ASSUME modmapped \in {Consume, Conditional} PROVE XremapKey(rules, press) = modmapped
  BY <1>1, <1>2 DEF XremapKey
<1>3. ASSUME NEW key, \/ modmapped = Untouched /\ key = press.key
                      \/ modmapped = Remap({}, "y") /\ key = "y"
      PROVE  XremapKey(rules, press) =
               IF KeymapFor(rules, Press(press.mods, key)) # Untouched
               THEN KeymapFor(rules, Press(press.mods, key))
               ELSE Remap(press.mods, key)
  BY <1>1, <1>3 DEF XremapKey
<1> QED BY <1>2, <1>3

LEMMA WithDone ==
    ASSUME NEW rules \in Seq(XremapRules), NEW press, NEW counted, CountedOf(rules, counted),
           XremapKey(rules, press) # Conditional
    PROVE  XremapWith(rules, counted, press) = Comes(XremapKey(rules, press), press)
<1> DEFINE modmapped == ModmapFor(rules, press.key)
           modmap == In(rules, "modmap", press.key) \intersect counted
           key == IF modmap # {} /\ rules[Min(modmap)].act = "y" THEN "y" ELSE press.key
           out == Press(press.mods, key)
           used == UsedEntries(rules, counted, out)
<1>1. modmapped # Conditional
  BY XremapKeyIs
<1>2. \/ modmapped = Consume /\ modmap # {} /\ rules[Min(modmap)].act = "off"
      \/ modmapped = Remap({}, "y") /\ modmap # {} /\ rules[Min(modmap)].act = "y"
      \/ modmapped = Untouched /\ modmap = {}
  <2> DEFINE m == modmap
  <2>1. m = In(rules, "modmap", press.key) \intersect counted
    OBVIOUS
  <2> HIDE DEF m
  <2>2. \/ modmapped = Consume /\ m # {} /\ rules[Min(m)].act = "off"
        \/ modmapped = Remap({}, "y") /\ m # {} /\ rules[Min(m)].act = "y"
        \/ modmapped = Untouched /\ m = {}
    BY <1>1, <2>1, ModmapDone
  <2> QED BY <2>2 DEF m
<1>3. XremapWith(rules, counted, press) =
        IF modmap # {} /\ rules[Min(modmap)].act = "off" THEN {NoPress}
        ELSE IF used = {} THEN {out}
        ELSE Performs(rules[Min(used)].act, press.mods \ rules[Min(used)].mods, out)
  BY DEF XremapWith, UsedEntries
<1>4. modmapped = ModmapFor(rules, press.key)
  OBVIOUS
<1>5. key = IF modmap # {} /\ rules[Min(modmap)].act = "y" THEN "y" ELSE press.key
  OBVIOUS
<1>6. out = Press(press.mods, key) /\ out.mods = press.mods
  BY DEF Press
<1>7. used = UsedEntries(rules, counted, out)
  OBVIOUS
<1> HIDE DEF modmapped, modmap, key, out, used
<1>8. CASE modmapped = Consume
  <2>1. XremapKey(rules, press) = Consume
    BY <1>4, <1>8, XremapKeyIs
  <2>2. modmap # {} /\ rules[Min(modmap)].act = "off"
    BY <1>2, <1>8, RemapsDiffer, SaidKinds DEF Remap
  <2> QED BY <1>3, <2>1, <2>2, NoPressComes
<1>9. CASE modmapped # Consume
  <2>1. \/ modmapped = Untouched /\ key = press.key
        \/ modmapped = Remap({}, "y") /\ key = "y"
    BY <1>2, <1>5, <1>9
  <2>2. ~ (modmap # {} /\ rules[Min(modmap)].act = "off")
    BY <1>2, <1>9
  <2>3. XremapKey(rules, press) = IF KeymapFor(rules, out) # Untouched THEN KeymapFor(rules, out)
                                  ELSE Effect("remap", out)
    BY <1>4, <1>6, <2>1, XremapKeyIs DEF Remap
  <2>4. CASE ~Fits(rules, out)
    <3>1. KeymapFor(rules, out) = Untouched
      BY <2>4, KeymapIs
    <3>2. used = {}
      BY <1>7, <2>4, NoneUsed
    <3> QED BY <1>3, <2>2, <2>3, <3>1, <3>2, RemapComes
  <2>5. CASE Fits(rules, out)
    <3> DEFINE entry == Entry(rules, out)
    <3>1. KeymapFor(rules, out) = KeymapAction(entry, out)
      BY <2>5, KeymapIs
    <3>2. ~entry.limited /\ KeymapAction(entry, out) = ActionEffect(entry.act, press.mods \ entry.mods)
      <4>1. entry.limited => KeymapAction(entry, out) = Conditional
        BY DEF KeymapAction
      <4>2. ~entry.limited
        BY <2>3, <3>1, <4>1, SaidKinds
      <4> QED BY <1>6, <4>2 DEF KeymapAction
    <3> DEFINE e == ActionEffect(entry.act, press.mods \ entry.mods)
    <3>3. e # Untouched
      BY ActionSaid
    <3>4. XremapKey(rules, press) = e /\ e # Conditional
      BY <2>3, <3>1, <3>2, <3>3
    <3>5. used # {} /\ rules[Min(used)] = entry /\ entry \in XremapRules
      BY <1>7, <2>5, <3>2, EntryUsed
    <3>6. entry.act \in SureActs
      BY <3>5, XremapRule
    <3>7. Performs(entry.act, press.mods \ entry.mods, out) = Comes(e, out)
      BY <3>4, <3>6, ActionDone
    <3>8. Comes(e, out) = Comes(e, press)
      BY <3>3 DEF Comes, Outcome
    <3> HIDE DEF entry, e
    <3> QED BY <1>3, <2>2, <3>4, <3>5, <3>7, <3>8
  <2> QED BY <2>4, <2>5
<1> QED BY <1>8, <1>9

LEMMA XremapDone ==
    ASSUME NEW rules \in Seq(XremapRules), NEW press, XremapKey(rules, press) # Conditional
    PROVE  XremapDoes(rules, press) = Comes(XremapKey(rules, press), press)
<1> DEFINE unlimited == {i \in DOMAIN rules : ~rules[i].limited}
<1>1. CountedOf(rules, DOMAIN rules) /\ CountedOf(rules, unlimited)
  BY DEF CountedOf
<1>2. XremapDoes(rules, press) = XremapWith(rules, DOMAIN rules, press) \union XremapWith(rules, unlimited, press)
  BY DEF XremapDoes
<1> HIDE DEF unlimited
<1> QED BY <1>1, <1>2, WithDone

LEMMA XremapSaid ==
    ASSUME NEW rules, NEW press
    PROVE  Said(XremapKey(rules, press))
<1>1. \A code : Said(ModmapFor(rules, code))
  BY ActionSaid DEF ModmapFor, Said
<1>2. \A entry, p : Said(KeymapAction(entry, p))
  BY ActionSaid DEF KeymapAction, Said
<1>3. \A p : Said(KeymapFor(rules, p))
  BY <1>2 DEF KeymapFor, Said
<1>4. \A mods, key : Said(Remap(mods, key))
  BY RemapIs
<1> QED BY <1>1, <1>3, <1>4 DEF XremapKey

-----------------------------------------------------------------------------
(* Each remapper: a definite verdict is what the daemon does. *)
RemapperTyped(r) ==
    /\ r.engine \in RemapEngines /\ r.state \in {"read", "unreadable", "unevaluated"}
    /\ r.rules \in Seq(RulesOf(r.engine))

LEMMA EvaluateSaid ==
    ASSUME NEW r, NEW press, NEW captured, RemapperTyped(r)
    PROVE  Evaluate(r, press, captured) # {} /\ \A e \in Evaluate(r, press, captured) : Said(e)
<1>1. Said(Untouched) /\ Said(Conditional)
  BY DEF Said
<1>2. CASE r.engine = "keyd"
  <2>1. Said(LookupKeyd(r.rules, press))
    BY LookupSaid
  <2>2. EvaluateKeyd(r, press) # {} /\ \A e \in EvaluateKeyd(r, press) : Said(e)
    BY <1>1, <2>1 DEF EvaluateKeyd
  <2> QED BY <1>2, <2>2 DEF Evaluate
<1>3. CASE r.engine = "kanata"
  <2>1. r.rules \in Seq(KanataRules)
    BY <1>3 DEF RemapperTyped, RulesOf, KanataRules
  <2>2. Said(KanataKey(r, press))
    BY <2>1, KanataSaid
  <2>3. EvaluateKanata(r, press) # {} /\ \A e \in EvaluateKanata(r, press) : Said(e)
    BY <1>1, <2>2 DEF EvaluateKanata
  <2> QED BY <1>3, <2>3 DEF Evaluate
<1>4. CASE r.engine = "kmonad"
  <2>1. Said(KmonadKey(r, press))
    BY KmonadSaid
  <2>2. ASSUME NEW known
        PROVE  EvaluateKmonad(r, press, known) # {} /\ \A e \in EvaluateKmonad(r, press, known) : Said(e)
    BY <1>1, <2>1 DEF EvaluateKmonad
  <2> QED BY <1>4, <2>2 DEF Evaluate
<1>5. CASE r.engine = "input-remapper"
  <2>1. \A m : Said(PresetOutput(m, press))
    BY <1>1, ActionSaid DEF PresetOutput
  <2>2. ASSUME NEW known
        PROVE  EvaluatePreset(r, press, known) # {} /\ \A e \in EvaluatePreset(r, press, known) : Said(e)
    BY <1>1, <2>1 DEF EvaluatePreset
  <2> QED BY <1>5, <2>2 DEF Evaluate
<1>6. CASE r.engine = "xremap"
  <2>1. Said(XremapKey(r.rules, press))
    BY XremapSaid
  <2>2. EvaluateXremap(r, press) # {} /\ \A e \in EvaluateXremap(r, press) : Said(e)
    BY <1>1, <2>1 DEF EvaluateXremap
  <2> QED BY <1>6, <2>2 DEF Evaluate
<1> QED BY <1>2, <1>3, <1>4, <1>5, <1>6 DEF RemapperTyped, RemapEngines

\* Everything that an evaluation finds comes to the same.
OneOutcome(effects, press, out) == \A e \in effects : e # Conditional /\ Comes(e, press) = out

SaysOnly(r, press, captured, out) == OneOutcome(Evaluate(r, press, captured), press, out)
DoesOnly(r, held, press, out) == DaemonDoes(r, held, press) = out /\ (r.scoped => out = {press})
RunsAs(r, engine) == RemapperTyped(r) /\ r.engine = engine /\ r.running

LEMMA KeydSure ==
    ASSUME NEW r, NEW held, NEW press, NEW out, NEW captured, RunsAs(r, "keyd"),
           HeldThrough(held, press.mods), press.key = "x",
           SaysOnly(r, press, captured, out)
    PROVE  DoesOnly(r, held, press, out)
<1>1. r.rules \in Seq(KeydBindings)
  BY DEF RunsAs, RemapperTyped, RulesOf, KeydBindings
<1>2. OneOutcome(EvaluateKeyd(r, press), press, out)
  BY DEF Evaluate, SaysOnly, RunsAs
<1>3. LookupKeyd(r.rules, press) # Conditional /\ Comes(LookupKeyd(r.rules, press), press) = out
  BY <1>2 DEF EvaluateKeyd, OneOutcome
<1>4. KeydDoes(r.rules, held, press) = out
  BY <1>1, <1>3, KeydDone
<1>5. {i \in DOMAIN r.rules : r.rules[i].at = "app"} = {}
  <2>1. In(r.rules, "app", press.key) = {}
    BY <1>2 DEF EvaluateKeyd, OneOutcome
  <2>2. ASSUME NEW i \in DOMAIN r.rules, r.rules[i].at = "app" PROVE FALSE
    <3>1. r.rules[i] \in KeydBindings
      BY <1>1
    <3>2. r.rules[i].key = "x"
      BY <2>2, <3>1, KeydRule
    <3> QED BY <2>1, <2>2, <3>2 DEF In
  <2> QED BY <2>2
<1>6. DaemonDoes(r, held, press) = KeydDoes(r.rules, held, press)
  BY <1>5 DEF DaemonDoes, RunsAs
<1>7. r.scoped => out = {press}
  <2>1. r.scoped => Untouched \in EvaluateKeyd(r, press)
    BY DEF EvaluateKeyd
  <2> QED BY <1>2, <2>1, NoPressComes DEF OneOutcome
<1> QED BY <1>4, <1>6, <1>7 DEF DoesOnly

LEMMA KanataSure ==
    ASSUME NEW r, NEW held, NEW press, NEW out, NEW captured, RunsAs(r, "kanata"),
           SaysOnly(r, press, captured, out)
    PROVE  DoesOnly(r, held, press, out)
<1>1. r.rules \in Seq(KanataRules)
  BY DEF RunsAs, RemapperTyped, RulesOf, KanataRules
<1>2. OneOutcome(EvaluateKanata(r, press), press, out)
  BY DEF Evaluate, SaysOnly, RunsAs
<1>3. KanataKey(r, press) # Conditional /\ Comes(KanataKey(r, press), press) = out
  BY <1>2 DEF EvaluateKanata, OneOutcome
<1>4. DaemonDoes(r, held, press) =
        IF ~r.through /\ ~ Binds(r.rules, "base", press) THEN {press} ELSE KanataDoes(r, press)
  BY DEF DaemonDoes, RunsAs, Binds
<1>5. r.scoped => out = {press}
  <2>1. r.scoped => Untouched \in EvaluateKanata(r, press)
    BY DEF EvaluateKanata
  <2> QED BY <1>2, <2>1, NoPressComes DEF OneOutcome
<1> QED BY <1>1, <1>3, <1>4, <1>5, KanataDone DEF DoesOnly

LEMMA KmonadSure ==
    ASSUME NEW r, NEW held, NEW press, NEW out, NEW captured, RunsAs(r, "kmonad"),
           SaysOnly(r, press, captured, out)
    PROVE  DoesOnly(r, held, press, out)
<1>1. r.rules \in Seq(LayerRules)
  BY DEF RunsAs, RemapperTyped, RulesOf
<1> DEFINE known == captured /\ ~r.scoped
<1>2. OneOutcome(EvaluateKmonad(r, press, known), press, out)
  BY DEF Evaluate, SaysOnly, RunsAs
<1>3. KmonadKey(r, press) # Conditional /\ Comes(KmonadKey(r, press), press) = out
  BY <1>2 DEF EvaluateKmonad, OneOutcome
<1>4. DaemonDoes(r, held, press) = KmonadDoes(r, press)
  BY DEF DaemonDoes, RunsAs
<1>5. r.scoped => out = {press}
  <2>1. r.scoped => Untouched \in EvaluateKmonad(r, press, known)
    BY DEF EvaluateKmonad
  <2> QED BY <1>2, <2>1, NoPressComes DEF OneOutcome
<1> QED BY <1>1, <1>3, <1>4, <1>5, KmonadDone DEF DoesOnly

LEMMA PresetSure ==
    ASSUME NEW r, NEW held, NEW press, NEW out, NEW captured, RunsAs(r, "input-remapper"),
           SaysOnly(r, press, captured, out)
    PROVE  DoesOnly(r, held, press, out)
<1>1. r.rules \in Seq(PresetRules)
  BY DEF RunsAs, RemapperTyped, RulesOf
<1> DEFINE known == captured /\ ~r.scoped
           effects == {PresetOutput(r.rules[i], press) : i \in In(r.rules, "preset", press.key)}
<1>2. OneOutcome(EvaluatePreset(r, press, known), press, out)
  BY DEF Evaluate, SaysOnly, RunsAs
<1>3. DaemonDoes(r, held, press) = PresetDoes(r.rules, press)
  BY DEF DaemonDoes, RunsAs
<1>4. r.scoped => out = {press}
  <2>1. r.scoped => Untouched \in EvaluatePreset(r, press, known)
    BY DEF EvaluatePreset
  <2> QED BY <1>2, <2>1, NoPressComes DEF OneOutcome
<1>5. (IF effects = {} THEN {Untouched} ELSE effects) \subseteq EvaluatePreset(r, press, known)
  <2>1. Conditional \notin EvaluatePreset(r, press, known)
    BY <1>2 DEF OneOutcome
  <2> QED BY <2>1 DEF EvaluatePreset
<1>6. CASE effects = {}
  <2>1. ~ Binds(r.rules, "preset", press)
    BY <1>6 DEF Binds
  <2>2. out = {press}
    BY <1>2, <1>5, <1>6, NoPressComes DEF OneOutcome
  <2> QED BY <1>3, <2>1, <2>2, PresetIdle DEF DoesOnly
<1>7. CASE effects # {}
  <2>1. Binds(r.rules, "preset", press)
    BY <1>7 DEF Binds
  <2>2. ASSUME NEW i \in In(r.rules, "preset", press.key)
        PROVE  PresetOutput(r.rules[i], press) # Conditional /\ Comes(PresetOutput(r.rules[i], press), press) = out
    <3>1. PresetOutput(r.rules[i], press) \in effects
      OBVIOUS
    <3> QED BY <1>2, <1>5, <1>7, <3>1 DEF OneOutcome
  <2>3. PICK i \in In(r.rules, "preset", press.key) : TRUE
    BY <2>1 DEF Binds
  <2> DEFINE one == Outcome(PresetOutput(r.rules[i], press), press)
  <2>4. out = {one}
    BY <2>2, <2>3 DEF Comes
  <2> HIDE DEF one
  <2>5. PresetDoes(r.rules, press) = {one}
    BY <1>1, <2>1, <2>2, <2>4, PresetDone
  <2> QED BY <1>3, <1>4, <2>4, <2>5 DEF DoesOnly
<1> QED BY <1>6, <1>7

LEMMA XremapSure ==
    ASSUME NEW r, NEW held, NEW press, NEW out, NEW captured, RunsAs(r, "xremap"),
           SaysOnly(r, press, captured, out)
    PROVE  DoesOnly(r, held, press, out)
<1>1. r.rules \in Seq(XremapRules)
  BY DEF RunsAs, RemapperTyped, RulesOf
<1>2. OneOutcome(EvaluateXremap(r, press), press, out)
  BY DEF Evaluate, SaysOnly, RunsAs
<1>3. XremapKey(r.rules, press) # Conditional /\ Comes(XremapKey(r.rules, press), press) = out
  BY <1>2 DEF EvaluateXremap, OneOutcome
<1>4. DaemonDoes(r, held, press) = XremapDoes(r.rules, press)
  BY DEF DaemonDoes, RunsAs
<1>5. r.scoped => out = {press}
  <2>1. r.scoped => Untouched \in EvaluateXremap(r, press)
    BY DEF EvaluateXremap
  <2> QED BY <1>2, <2>1, NoPressComes DEF OneOutcome
<1> QED BY <1>1, <1>3, <1>4, <1>5, XremapDone DEF DoesOnly

LEMMA DaemonSure ==
    ASSUME NEW r, NEW held, NEW press, NEW out, NEW captured, RemapperTyped(r), r.running,
           HeldThrough(held, press.mods), press.key = "x",
           SaysOnly(r, press, captured, out)
    PROVE  DoesOnly(r, held, press, out)
<1>1. r.engine \in RemapEngines
  BY DEF RemapperTyped
<1>2. CASE r.engine = "keyd"
  BY <1>2, KeydSure DEF RunsAs
<1>3. CASE r.engine = "kanata"
  BY <1>3, KanataSure DEF RunsAs
<1>4. CASE r.engine = "kmonad"
  BY <1>4, KmonadSure DEF RunsAs
<1>5. CASE r.engine = "input-remapper"
  BY <1>5, PresetSure DEF RunsAs
<1>6. CASE r.engine = "xremap"
  BY <1>6, XremapSure DEF RunsAs
<1> QED BY <1>1, <1>2, <1>3, <1>4, <1>5, <1>6 DEF RemapEngines

Definite(v) == v.is \in {"untouched", "remap", "consume"}

LEMMA SaidIs ==
    ASSUME NEW v, Said(v)
    PROVE  /\ v.is \in {"untouched", "remap", "consume", "conditional"}
           /\ v.is = "untouched" => v = Untouched
           /\ v.is = "conditional" => v = Conditional
           /\ v.is = "consume" => v = Consume
           /\ v.is = "remap" => v = Effect("remap", v.press)
BY SaidKinds DEF Said

\* A definite verdict is all that the evaluation found, and the daemon runs
\* when it is to act.
LEMMA VerdictFinds ==
    ASSUME NEW r, NEW press, NEW captured, RemapperTyped(r), NEW v, v = VerdictOf(r, press, captured), Definite(v)
    PROVE  /\ FindingsOf(r, press, captured) = {v} /\ v # Conditional
           /\ v # Untouched => r.running
<1> DEFINE findings == FindingsOf(r, press, captured)
<1>1. v = IF r.state # "read" THEN Effect(r.state, NoPress)
          ELSE IF findings = {Untouched}
          THEN IF PositionKnown(captured) THEN Untouched ELSE Effect("unevaluated", NoPress)
          ELSE IF ~AllAgree(findings) \/ ~r.running \/ ~PositionKnown(captured) THEN Conditional
          ELSE CHOOSE e \in findings : TRUE
  BY DEF VerdictOf
<1>2. findings # {}
  BY EvaluateSaid DEF FindingsOf
<1>3. \A s : Effect(s, NoPress).is = s
  BY DEF Effect
<1> HIDE DEF findings
<1>4. r.state = "read"
  BY <1>1, <1>3 DEF RemapperTyped, Definite
<1>5. v # Conditional
  BY SaidKinds DEF Definite
<1>6. CASE findings = {Untouched}
  BY <1>1, <1>3, <1>4, <1>5, <1>6 DEF findings, Definite
<1>7. CASE findings # {Untouched}
  <2>1. AllAgree(findings) /\ r.running /\ v = CHOOSE e \in findings : TRUE
    BY <1>1, <1>4, <1>5, <1>7
  <2>2. v \in findings
    BY <1>2, <2>1
  <2>3. findings = {v}
    BY <2>1, <2>2 DEF AllAgree
  <2> QED BY <1>5, <2>1, <2>3 DEF findings
<1> QED BY <1>6, <1>7

LEMMA FindingsSay ==
    ASSUME NEW r, NEW press, NEW captured, NEW v, RemapperTyped(r), press.key = "x",
           FindingsOf(r, press, captured) = {v}, v # Conditional
    PROVE  /\ SaysOnly(r, press, captured, Comes(v, press)) /\ Said(v)
           /\ v # Untouched => Outcome(v, press) # press
<1> DEFINE E == Evaluate(r, press, captured)
           same == Effect("remap", press)
<1>1. E # {} /\ \A e \in E : Said(e)
  BY EvaluateSaid
<1>2. \A e \in E : (IF e = same THEN Untouched ELSE e) = v
  BY DEF FindingsOf
<1>3. Comes(same, press) = {press} /\ Comes(Untouched, press) = {press} /\ same # Conditional
  BY RemapComes, NoPressComes, RemapsDiffer
<1> HIDE DEF E, same
<1>4. SaysOnly(r, press, captured, Comes(v, press))
  <2>1. ASSUME NEW e \in E PROVE e # Conditional /\ Comes(e, press) = Comes(v, press)
    BY <1>2, <1>3, <2>1
  <2> QED BY <2>1 DEF SaysOnly, OneOutcome, E
<1>5. Said(v) /\ v # same
  <2>1. PICK e \in E : Said(e) /\ (IF e = same THEN Untouched ELSE e) = v
    BY <1>1, <1>2
  <2>2. Said(Untouched) /\ Untouched # same
    BY RemapsDiffer DEF Said, same
  <2> QED BY <2>1, <2>2
<1>6. ASSUME v # Untouched PROVE v.press # press
  <2>1. CASE v = Consume
    <3>1. NoPress.key = "none"
      BY DEF NoPress, Press
    <3> QED BY <2>1, <3>1, SaidKinds
  <2>2. CASE v = Effect("remap", v.press)
    BY <1>5, <2>2 DEF same
  <2> QED BY <1>5, <1>6, <2>1, <2>2 DEF Said
<1> QED BY <1>4, <1>5, <1>6 DEF Outcome

LEMMA VerdictSure ==
    ASSUME NEW r, NEW held, NEW press, NEW captured, RemapperTyped(r), NEW v,
           v = VerdictOf(r, press, captured), Definite(v),
           HeldThrough(held, press.mods), press.key = "x"
    PROVE  DoesOnly(r, held, press, Comes(v, press)) /\ Said(v) /\ (v # Untouched => Outcome(v, press) # press)
<1>1. /\ FindingsOf(r, press, captured) = {v} /\ v # Conditional
      /\ v # Untouched => r.running
  BY VerdictFinds
<1>2. /\ SaysOnly(r, press, captured, Comes(v, press)) /\ Said(v)
      /\ v # Untouched => Outcome(v, press) # press
  BY <1>1, FindingsSay
<1>3. CASE r.running
  <2>1. OneOutcome(Evaluate(r, press, captured), press, Comes(v, press))
    BY <1>2 DEF SaysOnly
  <2>2. DoesOnly(r, held, press, Comes(v, press))
    BY <1>2, <1>3, DaemonSure
  <2> QED BY <1>2, <2>2
<1>4. CASE ~r.running
  <2>1. v = Untouched
    BY <1>1, <1>4
  <2>2. DaemonDoes(r, held, press) = {press}
    BY <1>4 DEF DaemonDoes
  <2> QED BY <1>2, <2>1, <2>2, NoPressComes DEF DoesOnly
<1> QED BY <1>3, <1>4

\* What is said of all the remappers: nothing changes the key, or one of them does.
LEMMA InspectSays ==
    ASSUME NEW press, NEW captured, NEW says, says = InspectDetections(press, captured),
           says.is \in {"pass", "remap", "consume"}
    PROVE  \/ /\ says.is = "pass"
              /\ \A i \in DOMAIN remappers : VerdictOf(remappers[i], press, captured) = Untouched
           \/ \E k \in DOMAIN remappers :
                 /\ says = VerdictOf(remappers[k], press, captured)
                 /\ says # Untouched /\ says.is \in {"remap", "consume"}
                 /\ \A i \in DOMAIN remappers \ {k} : VerdictOf(remappers[i], press, captured) = Untouched
<1> DEFINE verdicts == [i \in DOMAIN remappers |-> VerdictOf(remappers[i], press, captured)]
           active == {i \in DOMAIN remappers : verdicts[i] # Untouched}
           is == {verdicts[i].is : i \in active}
<1>1. says = IF active = {} THEN Effect("pass", NoPress)
             ELSE IF AllAgree(active) /\ is \subseteq {"remap", "consume"}
             THEN verdicts[CHOOSE i \in active : TRUE]
             ELSE IF is \intersect {"remap", "consume", "conditional"} # {} THEN Effect("handled?", NoPress)
             ELSE Effect(IF "unreadable" \in is THEN "unavailable" ELSE "maybe", NoPress)
  BY DEF InspectDetections
<1>2. \A s : Effect(s, NoPress).is = s
  BY DEF Effect
<1>3. \A i \in DOMAIN remappers : verdicts[i] = VerdictOf(remappers[i], press, captured)
  OBVIOUS
<1> HIDE DEF verdicts, is
<1>4. CASE active = {}
  BY <1>1, <1>2, <1>3, <1>4
<1>5. CASE active # {}
  <2>1. AllAgree(active) /\ is \subseteq {"remap", "consume"} /\ says = verdicts[CHOOSE i \in active : TRUE]
    <3> HIDE DEF active
    <3> QED BY <1>1, <1>2, <1>5
  <2>2. PICK k \in active : says = verdicts[k]
    BY <1>5, <2>1
  <2>3. says.is \in {"remap", "consume"}
    BY <2>1, <2>2 DEF is
  <2>4. \A i \in DOMAIN remappers \ {k} : verdicts[i] = Untouched
    BY <2>1, <2>2 DEF AllAgree
  <2> QED BY <1>3, <2>2, <2>3, <2>4
<1> QED BY <1>4, <1>5

-----------------------------------------------------------------------------
(* The way of the key through the daemons. *)
RemapperRecords ==
    UNION {[engine : {e}, state : {"read", "unreadable", "unevaluated"}, running : BOOLEAN, scoped : BOOLEAN,
            through : BOOLEAN, rules : Seq(RulesOf(e))] : e \in RemapEngines}

RemapTyped ==
    /\ remappers \in Seq(RemapperRecords) /\ holding \in Seq(HeldModifiers)
    /\ \A i \in DOMAIN holding : holding[i].layer \in {LayerName(holding[i].mod), "mine"}
    /\ stage \in -1 .. Len(remappers)

\* What a remapper gives out for a press: what its daemon does, or the press of
\* a device it does not read.
Gives(r, held, press, out) == out \in DaemonDoes(r, held, press) \/ (r.scoped /\ out = press)

\* While no daemon has changed the press, it is the one that was asked, and each
\* gave it on; when one alone has, it made what is on its way of the press asked.
RemapIInv ==
    /\ RemapTyped
    /\ touched \subseteq 1 .. stage
    /\ stage >= 0 /\ touched = {} =>
          flight = Asked /\ \A j \in 1 .. stage : Gives(remappers[j], holding, Asked, Asked)
    /\ \A i \in touched : touched = {i} => flight # Asked /\ Gives(remappers[i], holding, Asked, flight)

LEMMA RemapperIsTyped ==
    ASSUME NEW r \in RemapperRecords
    PROVE  RemapperTyped(r)
<1>1. PICK e \in RemapEngines :
         r \in [engine : {e}, state : {"read", "unreadable", "unevaluated"}, running : BOOLEAN, scoped : BOOLEAN,
                through : BOOLEAN, rules : Seq(RulesOf(e))]
  BY DEF RemapperRecords
<1>2. r.engine = e /\ r.state \in {"read", "unreadable", "unevaluated"} /\ r.rules \in Seq(RulesOf(e))
  BY <1>1
<1> QED BY <1>2 DEF RemapperTyped

LEMMA AskedIs ==
    ASSUME \A i \in DOMAIN holding : holding[i].layer # "mine", RemapTyped
    PROVE  HeldThrough(holding, Asked.mods) /\ Asked.key = "x"
<1>1. Asked.mods = {holding[i].mod : i \in DOMAIN holding} /\ Asked.key = "x"
  BY DEF Asked, Press
<1> QED BY <1>1 DEF HeldThrough, RemapTyped

LEMMA RemapSound == RemapIInv => RemapIsWhatComesOut
<1> SUFFICES ASSUME RemapIInv, stage = Len(remappers), AllAgree(touched),
                    \A i \in DOMAIN holding : holding[i].layer # "mine",
                    NEW captured \in BOOLEAN, NEW says, says = InspectDetections(Asked, captured)
             PROVE  /\ says.is = "pass" => flight = Asked
                    /\ says.is = "remap" => flight = says.press
                    /\ says.is = "consume" => flight = NoPress
  BY DEF RemapIsWhatComesOut
<1>1. SUFFICES ASSUME says.is \in {"pass", "remap", "consume"}
               PROVE  IF says.is = "pass" THEN flight = Asked
                      ELSE flight = says.press /\ (says.is = "consume" => says.press = NoPress)
  OBVIOUS
<1>2. HeldThrough(holding, Asked.mods) /\ Asked.key = "x"
  BY AskedIs DEF RemapIInv
<1>3. DOMAIN remappers = 1 .. stage /\ stage \in Nat /\ \A i \in DOMAIN remappers : RemapperTyped(remappers[i])
  BY RemapperIsTyped DEF RemapIInv, RemapTyped
<1>4. ASSUME NEW i \in DOMAIN remappers, NEW out, NEW v, v = VerdictOf(remappers[i], Asked, captured),
             Definite(v), Gives(remappers[i], holding, Asked, out)
      PROVE  out = Outcome(v, Asked) /\ Said(v) /\ (v # Untouched => out # Asked)
  <2> DEFINE r == remappers[i]
             press == Asked
  <2>1. RemapperTyped(r) /\ v = VerdictOf(r, press, captured) /\ press.key = "x" /\ HeldThrough(holding, press.mods)
    BY <1>2, <1>3, <1>4
  <2>2. Gives(r, holding, press, out)
    BY <1>4
  <2> HIDE DEF r, press
  <2>3. /\ DoesOnly(r, holding, press, Comes(v, press)) /\ Said(v)
        /\ v # Untouched => Outcome(v, press) # press
    BY <1>4, <2>1, VerdictSure
  <2>4. out \in Comes(v, press)
    BY <2>2, <2>3 DEF DoesOnly, Gives
  <2>5. out = Outcome(v, press)
    BY <2>4 DEF Comes
  <2> QED BY <2>3, <2>5 DEF press
<1>5. Definite(Untouched) /\ Outcome(Untouched, Asked) = Asked
  BY SaidKinds DEF Definite, Outcome
\* A daemon of which nothing is said gives on the press asked.
<1>6. ASSUME NEW i \in DOMAIN remappers, VerdictOf(remappers[i], Asked, captured) = Untouched, touched = {i}
      PROVE  FALSE
  <2>1. Gives(remappers[i], holding, Asked, flight) /\ flight # Asked
    BY <1>6 DEF RemapIInv
  <2> QED BY <1>4, <1>5, <1>6, <2>1
<1>7. touched = {} \/ \E i \in DOMAIN remappers : touched = {i}
  BY <1>3 DEF AllAgree, RemapIInv
<1>8. CASE /\ says.is = "pass"
           /\ \A i \in DOMAIN remappers : VerdictOf(remappers[i], Asked, captured) = Untouched
  <2>1. touched = {}
    BY <1>6, <1>7, <1>8
  <2> QED BY <1>3, <1>8, <2>1 DEF RemapIInv
<1>9. ASSUME NEW k \in DOMAIN remappers, says = VerdictOf(remappers[k], Asked, captured),
             says # Untouched, says.is \in {"remap", "consume"},
             \A i \in DOMAIN remappers \ {k} : VerdictOf(remappers[i], Asked, captured) = Untouched
      PROVE  flight = says.press /\ (says.is = "consume" => says.press = NoPress)
  <2>1. Definite(says)
    BY <1>9 DEF Definite
  <2>2. touched = {k}
    <3>1. CASE touched = {}
      <4>1. Gives(remappers[k], holding, Asked, Asked)
        BY <1>3, <3>1 DEF RemapIInv
      <4> QED BY <1>4, <1>9, <2>1, <4>1
    <3> QED BY <1>6, <1>7, <1>9, <3>1
  <2>3. Gives(remappers[k], holding, Asked, flight)
    BY <2>2 DEF RemapIInv
  <2>4. flight = Outcome(says, Asked) /\ Said(says)
    BY <1>4, <1>9, <2>1, <2>3
  <2> QED BY <1>9, <2>4, SaidIs, SaidKinds DEF Outcome
<1>10. \/ /\ says.is = "pass"
          /\ \A i \in DOMAIN remappers : VerdictOf(remappers[i], Asked, captured) = Untouched
       \/ \E k \in DOMAIN remappers :
             /\ says = VerdictOf(remappers[k], Asked, captured)
             /\ says # Untouched /\ says.is \in {"remap", "consume"}
             /\ \A i \in DOMAIN remappers \ {k} : VerdictOf(remappers[i], Asked, captured) = Untouched
  BY <1>1, InspectSays
<1> QED BY <1>8, <1>9, <1>10

LEMMA RemapBegins == RemapInit => RemapIInv
<1> SUFFICES ASSUME RemapInit PROVE RemapIInv
  OBVIOUS
<1>1. remappers = <<>> /\ holding = <<>> /\ stage = -1 /\ touched = {}
  BY DEF RemapInit
<1>2. RemapTyped
  <2>1. remappers \in Seq(RemapperRecords) /\ holding \in Seq(HeldModifiers) /\ DOMAIN holding = {} /\ Len(remappers) = 0
    BY <1>1
  <2> QED BY <1>1, <2>1 DEF RemapTyped
<1> QED BY <1>1, <1>2 DEF RemapIInv

LEMMA FoundKeeps == RemapIInv /\ Found => RemapIInv'
<1> SUFFICES ASSUME RemapIInv, Found PROVE RemapIInv'
  OBVIOUS
<1>1. PICK engine \in Daemons, state \in {"read", "unreadable", "unevaluated"},
           running \in BOOLEAN, scoped \in BOOLEAN, through \in BOOLEAN :
         remappers' = Append(remappers, [engine |-> engine, state |-> state, running |-> running,
                                         scoped |-> scoped, through |-> through, rules |-> <<>>])
  BY DEF Found
<1>2. stage = -1 /\ UNCHANGED <<holding, stage, touched>>
  BY DEF Found
<1>3. remappers \in Seq(RemapperRecords)
  BY DEF RemapIInv, RemapTyped
<1> DEFINE new == [engine |-> engine, state |-> state, running |-> running,
                   scoped |-> scoped, through |-> through, rules |-> <<>>]
<1>4. new \in RemapperRecords
  <2>1. engine \in RemapEngines
    BY RemappersAssumption
  <2>2. <<>> \in Seq(RulesOf(engine))
    OBVIOUS
  <2>3. new \in [engine : {engine}, state : {"read", "unreadable", "unevaluated"}, running : BOOLEAN,
                 scoped : BOOLEAN, through : BOOLEAN, rules : Seq(RulesOf(engine))]
    BY <2>2
  <2> QED BY <2>1, <2>3 DEF RemapperRecords
<1> HIDE DEF new
<1>5. remappers' = Append(remappers, new)
  BY <1>1 DEF new
<1>6. remappers' \in Seq(RemapperRecords) /\ Len(remappers') \in Nat
  BY <1>3, <1>4, <1>5
<1>7. touched = {}
  BY <1>2 DEF RemapIInv
<1> QED BY <1>2, <1>6, <1>7 DEF RemapIInv, RemapTyped

LEMMA WriteRuleKeeps == RemapIInv /\ WriteRule => RemapIInv'
<1> SUFFICES ASSUME RemapIInv, WriteRule PROVE RemapIInv'
  OBVIOUS
<1>1. PICK i \in DOMAIN remappers : \E rule \in RulesOf(remappers[i].engine) :
         remappers' = [remappers EXCEPT ![i].rules = Append(@, rule)]
  BY DEF WriteRule
<1>2. PICK rule \in RulesOf(remappers[i].engine) :
         remappers' = [remappers EXCEPT ![i].rules = Append(@, rule)]
  BY <1>1
<1>3. stage = -1 /\ UNCHANGED <<holding, stage, touched>>
  BY DEF WriteRule
<1>4. remappers \in Seq(RemapperRecords)
  BY DEF RemapIInv, RemapTyped
<1> DEFINE new == [remappers[i] EXCEPT !.rules = Append(@, rule)]
<1>5. new \in RemapperRecords
  <2>1. remappers[i] \in RemapperRecords
    BY <1>4
  <2>2. PICK e \in RemapEngines :
           remappers[i] \in [engine : {e}, state : {"read", "unreadable", "unevaluated"}, running : BOOLEAN,
                             scoped : BOOLEAN, through : BOOLEAN, rules : Seq(RulesOf(e))]
    BY <2>1 DEF RemapperRecords
  <2>3. remappers[i].engine = e /\ remappers[i].rules \in Seq(RulesOf(e))
    BY <2>2
  <2>4. Append(remappers[i].rules, rule) \in Seq(RulesOf(e))
    BY <2>3
  <2>5. new \in [engine : {e}, state : {"read", "unreadable", "unevaluated"}, running : BOOLEAN,
                 scoped : BOOLEAN, through : BOOLEAN, rules : Seq(RulesOf(e))]
    BY <2>2, <2>4
  <2> QED BY <2>5 DEF RemapperRecords
<1>6. remappers' = [remappers EXCEPT ![i] = new]
  BY <1>2
<1> HIDE DEF new
<1>7. remappers' \in Seq(RemapperRecords) /\ Len(remappers') \in Nat
  BY <1>4, <1>5, <1>6
<1>8. touched = {}
  BY <1>3 DEF RemapIInv
<1> QED BY <1>3, <1>7, <1>8 DEF RemapIInv, RemapTyped

LEMMA HoldKeeps == RemapIInv /\ Hold => RemapIInv'
<1> SUFFICES ASSUME RemapIInv, Hold PROVE RemapIInv'
  OBVIOUS
<1>1. stage = -1 /\ UNCHANGED <<remappers, stage, touched>>
  BY DEF Hold
<1>2. PICK m \in {"C", "A"}, layer \in {"control", "alt", "mine"} :
         /\ layer \in {LayerName(m), "mine"}
         /\ holding' = Append(holding, [mod |-> m, layer |-> layer])
  <2>1. PICK m \in {"C", "A"} :
           \E layer \in {LayerName(m)} \union
               (IF m = "C" /\ \E i \in DOMAIN remappers : In(remappers[i].rules, "main", "y") # {}
                THEN {"mine"} ELSE {}) :
             holding' = Append(holding, [mod |-> m, layer |-> layer])
    BY DEF Hold
  <2> QED BY <2>1 DEF LayerName
<1> DEFINE new == [mod |-> m, layer |-> layer]
<1>3. new \in HeldModifiers /\ new.layer \in {LayerName(new.mod), "mine"}
  BY <1>2 DEF LayerName, HeldModifiers
<1> HIDE DEF new
<1>4. /\ holding \in Seq(HeldModifiers) /\ holding' = Append(holding, new)
      /\ \A i \in DOMAIN holding : holding[i].layer \in {LayerName(holding[i].mod), "mine"}
  BY <1>2 DEF RemapIInv, RemapTyped, new
<1>5. holding' \in Seq(HeldModifiers)
      /\ \A i \in DOMAIN holding' : holding'[i].layer \in {LayerName(holding'[i].mod), "mine"}
  BY <1>3, <1>4
<1>6. touched = {}
  BY <1>1 DEF RemapIInv
<1> QED BY <1>1, <1>5, <1>6 DEF RemapIInv, RemapTyped

LEMMA StrikeKeeps == RemapIInv /\ Strike => RemapIInv'
<1> SUFFICES ASSUME RemapIInv, Strike PROVE RemapIInv'
  OBVIOUS
<1>1. /\ stage = -1 /\ stage' = 0 /\ UNCHANGED <<remappers, holding, touched>>
      /\ flight' = Press({holding[i].mod : i \in DOMAIN holding}, "x")
  BY DEF Strike
<1>2. touched = {} /\ Len(remappers) \in Nat
  BY <1>1 DEF RemapIInv, RemapTyped
<1>3. flight' = Asked'
  BY <1>1 DEF Asked
<1>4. RemapTyped'
  BY <1>1, <1>2 DEF RemapIInv, RemapTyped
<1> QED BY <1>1, <1>2, <1>3, <1>4 DEF RemapIInv

LEMMA PassOnKeeps == RemapIInv /\ PassOn => RemapIInv'
<1> SUFFICES ASSUME RemapIInv, PassOn PROVE RemapIInv'
  OBVIOUS
<1> DEFINE n == stage + 1
           r == remappers[n]
<1>1. /\ stage \in 0 .. (Len(remappers) - 1) /\ stage' = n
      /\ UNCHANGED <<remappers, layoutUs, holding>>
      /\ touched' = IF flight' = flight THEN touched ELSE touched \union {n}
      /\ flight' \in (IF flight = NoPress THEN {NoPress} ELSE DaemonDoes(r, holding, flight))
                     \union (IF r.scoped THEN {flight} ELSE {})
  BY DEF PassOn
<1>2. Len(remappers) \in Nat /\ touched \subseteq 1 .. stage
  BY DEF RemapIInv, RemapTyped
<1>3. RemapTyped'
  BY <1>1, <1>2 DEF RemapIInv, RemapTyped
<1>4. touched' \subseteq 1 .. stage'
  BY <1>1, <1>2
<1>5. Asked' = Asked
  BY <1>1 DEF Asked
<1>6. Asked # NoPress
  <2>1. Asked.key = "x" /\ NoPress.key = "none"
    BY DEF Asked, NoPress, Press
  <2> QED BY <2>1
<1>7. \A press, out : Gives(r, holding, press, out) => Gives(remappers'[n], holding', press, out)
  BY <1>1
<1>8. flight # NoPress => Gives(r, holding, flight, flight')
  BY <1>1 DEF Gives
<1>9. touched = {} => flight = Asked /\ \A j \in 1 .. stage : Gives(remappers[j], holding, Asked, Asked)
  BY <1>1 DEF RemapIInv
<1>10. ASSUME touched' = {}
       PROVE  flight' = Asked' /\ \A j \in 1 .. stage' : Gives(remappers'[j], holding', Asked', Asked')
  <2>1. touched = {} /\ flight' = flight
    BY <1>1, <1>10
  <2>2. flight = Asked /\ flight' = Asked /\ Gives(remappers[n], holding, Asked, Asked)
    BY <1>6, <1>8, <1>9, <2>1
  <2>3. \A j \in 1 .. n : j = n \/ j \in 1 .. stage
    BY <1>1
  <2> QED BY <1>1, <1>5, <1>9, <2>1, <2>2, <2>3
<1>11. ASSUME NEW i \in touched', touched' = {i}
       PROVE  flight' # Asked' /\ Gives(remappers'[i], holding', Asked', flight')
  <2>1. CASE flight' = flight
    <3>1. touched = {i}
      BY <1>1, <1>11, <2>1
    <3>2. flight # Asked /\ Gives(remappers[i], holding, Asked, flight)
      BY <3>1 DEF RemapIInv
    <3> QED BY <1>1, <1>5, <2>1, <3>2
  <2>2. CASE flight' # flight
    <3>1. touched = {} /\ i = n
      <4>1. touched \union {n} = {i} /\ n \notin touched
        BY <1>1, <1>2, <1>11, <2>2
      <4> QED BY <4>1
    <3>2. flight = Asked /\ flight' # Asked /\ Gives(remappers[n], holding, Asked, flight')
      BY <1>6, <1>8, <1>9, <2>2, <3>1
    <3> QED BY <1>1, <1>5, <3>1, <3>2
  <2> QED BY <2>1, <2>2
<1> HIDE DEF n, r
<1> QED BY <1>3, <1>4, <1>10, <1>11 DEF RemapIInv

LEMMA RemapKeeps == RemapIInv /\ [RemapNext]_remapVars => RemapIInv'
<1>1. ASSUME RemapIInv, UNCHANGED remapVars PROVE RemapIInv'
  <2>1. UNCHANGED <<remappers, holding, flight, stage, touched>>
    BY <1>1 DEF remapVars
  <2>2. Asked' = Asked /\ RemapTyped'
    BY <1>1, <2>1 DEF Asked, RemapIInv, RemapTyped
  <2> QED BY <1>1, <2>1, <2>2 DEF RemapIInv
<1> QED BY <1>1, FoundKeeps, WriteRuleKeeps, HoldKeeps, StrikeKeeps, PassOnKeeps DEF RemapNext


-----------------------------------------------------------------------------
(* The three parts, in the behaviours of all four. *)
\* The steps of the other parts leave a part alone.
RouteHolds == part = "route" => RouteIInv
MuxHolds == part = "mux" => MuxIInv
RemapHolds == part = "remap" => RemapIInv

LEMMA OthersLeaveRoute == RouteHolds /\ [Next]_mcVars => RouteHolds'
<1> SUFFICES ASSUME RouteHolds, [Next]_mcVars, part' = "route" PROVE RouteIInv'
  BY DEF RouteHolds
<1>1. part = "route" /\ RouteIInv /\ [RouteNext]_routeVars
  BY DEF RouteHolds, Next, MuxStep, EditorStep, RouteStep, RemapStep, mcVars
<1> QED BY <1>1, RouteKeeps

LEMMA OthersLeaveMux == MuxHolds /\ [Next]_mcVars => MuxHolds'
<1> SUFFICES ASSUME MuxHolds, [Next]_mcVars, part' = "mux" PROVE MuxIInv'
  BY DEF MuxHolds
<1>1. part = "mux" /\ MuxIInv /\ [MuxNext]_muxVars
  BY DEF MuxHolds, Next, MuxStep, EditorStep, RouteStep, RemapStep, mcVars
<1> QED BY <1>1, MuxKeeps

LEMMA OthersLeaveRemap == RemapHolds /\ [Next]_mcVars => RemapHolds'
<1> SUFFICES ASSUME RemapHolds, [Next]_mcVars, part' = "remap" PROVE RemapIInv'
  BY DEF RemapHolds
<1>1. part = "remap" /\ RemapIInv /\ [RemapNext]_remapVars
  BY DEF RemapHolds, Next, MuxStep, EditorStep, RouteStep, RemapStep, mcVars
<1> QED BY <1>1, RemapKeeps

\* A verdict of the terminal and its TTY on a key is what became of the key at some moment of
\* the questions, for configurations of any length, as long as one thing only changes meanwhile
\* (layers/terminal.rs, layers/tty.rs).
THEOREM RouteIsRight == Spec => [](part = "route" /\ terminalMoves <= 1 => RouteIsSound)
<1>1. Init => RouteHolds
  BY RouteBegins DEF Init, RouteHolds
<1>2. RouteHolds => (part = "route" /\ terminalMoves <= 1 => RouteIsSound)
  BY RouteSound DEF RouteHolds
<1> QED BY <1>1, <1>2, OthersLeaveRoute, PTL DEF Spec

\* The property of the runs, when the bound of the changes is one.
THEOREM RouteSoundWithOneMove == MaxTerminalMoves <= 1 => (Spec => []Route_IsSound)
<1> SUFFICES ASSUME MaxTerminalMoves <= 1 PROVE Spec => []Route_IsSound
  OBVIOUS
<1>1. Init => RouteHolds
  BY RouteBegins DEF Init, RouteHolds
<1>2. RouteHolds => Route_IsSound
  <2>1. ASSUME RouteIInv PROVE terminalMoves <= 1
    BY <2>1, TerminalRouteAssumption DEF RouteIInv
  <2> QED BY <2>1, RouteSound DEF RouteHolds, Route_IsSound
<1> QED BY <1>1, <1>2, OthersLeaveRoute, PTL DEF Spec

\* A definite verdict of tmux, Screen or Zellij on a key is what the multiplexer does with it
\* after the others, for configurations and sequences of any length
\* (layers/tmux.rs, screen.rs, zellij.rs).
THEOREM MuxVerdictRight == Spec => []Mux_VerdictIsSound
<1>1. Init => MuxHolds
  BY MuxBegins DEF Init, MuxHolds
<1>2. MuxHolds => Mux_VerdictIsSound
  BY DEF MuxHolds, Mux_VerdictIsSound, MuxIInv
<1> QED BY <1>1, <1>2, OthersLeaveMux, PTL DEF Spec

\* What is said for sure of a key by all the remappers together is what came out of the last
\* daemon, for any number of remappers and rules, and any order the modifiers were held in,
\* unless two daemons changed the key or a modifier came from a layer of the user's own
\* (src/remapper/).
THEOREM RemapIsRight == Spec => []Remap_IsWhatComesOut
<1>1. Init => RemapHolds
  BY RemapBegins DEF Init, RemapHolds
<1>2. RemapHolds => Remap_IsWhatComesOut
  BY RemapSound DEF RemapHolds, Remap_IsWhatComesOut
<1> QED BY <1>1, <1>2, OthersLeaveRemap, PTL DEF Spec
=============================================================================
