------------------------- MODULE DecisionsProofs --------------------------
(***************************************************************************)
(* What the deciders promise, for all condition trees, profiles and        *)
(* answers of the indexers, all evidence of a file, and any number of      *)
(* files, paths, operators, scans, requests and faults.                    *)
(*                                                                         *)
(* The operators of the deciders are recursive functions over trees and    *)
(* over sequences. That one is well defined, and what it holds, is shown   *)
(* by the least tree or number of which it does not hold (LeastNumber,     *)
(* UpTo, Recursion, TreeInduction).                                        *)
(***************************************************************************)
EXTENDS Decisions, SequenceTheorems, FunctionTheorems, FiniteSetTheorems,
        WellFoundedInduction, TLAPS

\* A set of numbers that is not empty has a least one.
LEMMA LeastNumber ==
    ASSUME NEW T \in SUBSET Nat, T # {}
    PROVE  \E n \in T : \A m \in T : n <= m
<1>1. PICK x \in T : \A y \in T : <<y, x>> \notin OpToRel(<, Nat)
  BY WFMin, NatLessThanWellFounded
<1>2. \A y \in T : ~(y < x)
  BY <1>1 DEF OpToRel
<1> QED BY <1>2

LEMMA SequenceOf ==
    ASSUME NEW T, NEW q \in Seq(T)
    PROVE  Len(q) \in Nat /\ DOMAIN q = 1..Len(q) /\ \A n \in 1..Len(q) : q[n] \in T
OBVIOUS

\* A set that holds 0 and with a number the next one holds all up to N.
LEMMA UpTo ==
    ASSUME NEW N \in Nat, NEW S, 0 \in S, \A n \in 1..N : n - 1 \in S => n \in S
    PROVE  0..N \subseteq S
<1> DEFINE T == {n \in 0..N : n \notin S}
<1>1. SUFFICES ASSUME T # {} PROVE FALSE
  OBVIOUS
<1>2. T \in SUBSET Nat
  OBVIOUS
<1>3. PICK m \in T : \A k \in T : m <= k
  <2> HIDE DEF T
  <2> QED BY <1>1, <1>2, LeastNumber
<1>4. m \in 1..N /\ m - 1 \in 0..N
  BY <1>3
<1>5. m - 1 \in S
  BY <1>3, <1>4
<1> QED BY <1>3, <1>4, <1>5

\* f starts at base, and takes the n-th step from its value at n - 1.
Recurs(f, N, base, step) ==
    \A n \in 0..N : f[n] = IF n = 0 THEN base ELSE step[n][f[n - 1]]

\* A recursion over the numbers up to N defines a function.
LEMMA Recursion ==
    ASSUME NEW N \in Nat, NEW V, NEW base \in V, NEW step \in [1..N -> [V -> V]]
    PROVE  \E f \in [0..N -> V] : Recurs(f, N, base, step)
<1> DEFINE Defined(M) ==
              \E f \in [0..M -> V] :
                 \A n \in 0..M : f[n] = IF n = 0 THEN base ELSE step[n][f[n - 1]]
           S == {M \in 0..N : Defined(M)}
<1>1. Defined(0)
  <2> DEFINE f == [n \in 0..0 |-> base]
  <2>1. f \in [0..0 -> V] /\ \A n \in 0..0 : n = 0 /\ f[n] = base
    OBVIOUS
  <2> QED BY <2>1
<1>2. ASSUME NEW M \in 1..N, Defined(M - 1)
      PROVE  Defined(M)
  <2>1. PICK f \in [0..(M - 1) -> V] :
              \A n \in 0..(M - 1) : f[n] = IF n = 0 THEN base ELSE step[n][f[n - 1]]
    BY <1>2
  <2>2. M - 1 \in 0..(M - 1) /\ step[M] \in [V -> V] /\ f[M - 1] \in V
    BY <2>1
  <2> DEFINE g == [n \in 0..M |-> IF n = M THEN step[M][f[M - 1]] ELSE f[n]]
  <2>3. \A n \in 0..M : n # M => n \in 0..(M - 1)
    OBVIOUS
  <2>4. g \in [0..M -> V]
    BY <2>2, <2>3
  <2>5. g[M] = step[M][f[M - 1]] /\ \A n \in 0..(M - 1) : g[n] = f[n]
    OBVIOUS
  <2>6. \A n \in 0..M : g[n] = IF n = 0 THEN base ELSE step[n][g[n - 1]]
    <3> HIDE DEF g
    <3> TAKE n \in 0..M
    <3>1. CASE n = M
      BY <2>2, <2>5, <3>1
    <3>2. CASE n # M
      <4>1. n \in 0..(M - 1) /\ (n # 0 => n - 1 \in 0..(M - 1))
        BY <3>2
      <4> QED BY <2>1, <2>5, <4>1
    <3> QED BY <3>1, <3>2
  <2> HIDE DEF g
  <2> QED BY <2>4, <2>6
<1> HIDE DEF Defined
<1>3. 0 \in S /\ \A n \in 1..N : n - 1 \in S => n \in S
  <2>1. 0 \in S
    BY <1>1
  <2>2. ASSUME NEW n \in 1..N, n - 1 \in S PROVE n \in S
    BY <1>2, <2>2
  <2> QED BY <2>1, <2>2
<1>4. 0..N \subseteq S
  <2> HIDE DEF S
  <2> QED BY <1>3, UpTo
<1>5. N \in S
  BY <1>4
<1> QED BY <1>5 DEF Defined, Recurs

-----------------------------------------------------------------------------
(***************************************************************************)
(* Condition trees.                                                        *)
(***************************************************************************)
\* What holds of a tree whenever it holds of all lower ones holds of every tree.
LEMMA TreeInduction ==
    ASSUME NEW S,
           \A c \in Trees :
              (\A k \in Trees : Height[k] < Height[c] => k \in S) => c \in S
    PROVE  Trees \subseteq S
<1> DEFINE T == {Height[c] : c \in Trees \ S}
<1>1. \A c \in Trees : Height[c] \in Nat
  BY TreesAssumption, FS_CardinalityType
<1>2. SUFFICES ASSUME T # {} PROVE FALSE
  OBVIOUS
<1>3. T \in SUBSET Nat
  BY <1>1
<1>4. PICK m \in T : \A k \in T : m <= k
  <2> HIDE DEF T
  <2> QED BY <1>2, <1>3, LeastNumber
<1>5. PICK c \in Trees \ S : Height[c] = m
  OBVIOUS
<1>6. \A k \in Trees : Height[k] < Height[c] => k \in S
  BY <1>1, <1>4, <1>5
<1> QED BY <1>5, <1>6

\* The answer of a tree, of the answers f of its branches.
Answered(f, t, s, at) ==
    IF IsLogical(t)
    THEN evalLogical(t.op, [i \in DOMAIN t.children |-> f[t.children[i]]])
    ELSE evalComparison(t, s, at)

LEMMA AnswersAreTri ==
    ASSUME NEW f, NEW t, NEW s, NEW at
    PROVE  Answered(f, t, s, at) \in Tri
<1>1. \A b : triFrom(b) \in {"true", "false"}
  BY DEF triFrom
<1>2. \A x : triNot(x) \in Tri
  BY <1>1 DEF triNot, Tri
<1>3. \A S : triAnd(S) \in Tri /\ triOr(S) \in Tri
  BY DEF triAnd, triOr, Tri
<1>4. \A op, kids : evalLogical(op, kids) \in Tri
  BY <1>2, <1>3 DEF evalLogical, Tri
<1>5. evalComparison(t, s, at) \in Tri
  BY <1>1, <1>2 DEF evalComparison, compare, Tri
<1> QED BY <1>4, <1>5 DEF Answered

\* The branches of a tree are lower trees.
LEMMA Branches ==
    ASSUME NEW c \in Trees, IsLogical(c)
    PROVE  /\ c.children \in Seq(Trees) /\ Len(c.children) \in Nat
           /\ DOMAIN c.children = 1..Len(c.children)
           /\ \A i \in DOMAIN c.children :
                 c.children[i] \in Trees /\ Height[c.children[i]] < Height[c]
<1>1. /\ c.children \in Seq(Trees)
      /\ \A k \in ToSet(c.children) : Height[k] < Height[c]
  BY TreesAssumption
<1> QED BY <1>1 DEF ToSet

\* Eval is a function of the trees: what it answers of one is what its branches say.
LEMMA EvalIs ==
    ASSUME NEW s, NEW at
    PROVE  \E f : /\ \A c \in Trees : Eval(c, s, at) = f[c] /\ f[c] \in Tri
                  /\ \A c \in Trees : f[c] = Answered(f, c, s, at)
<1> DEFINE N == Cardinality(Trees) + 1
           Below(m) == {t \in Trees : Height[t] < m}
           Defined(m) == \E f : /\ f = [t \in Below(m) |-> f[t]]
                                /\ \A t \in Below(m) : f[t] = Answered(f, t, s, at)
           S == {m \in 0..N : Defined(m)}
<1>1. N \in Nat /\ \A t \in Trees : Height[t] \in 0..(N - 1)
  BY TreesAssumption, FS_CardinalityType
<1> HIDE DEF N
<1>2. Defined(0)
  <2>1. Below(0) = {}
    BY <1>1
  <2> DEFINE f == [t \in Below(0) |-> "true"]
  <2>2. /\ f = [t \in Below(0) |-> f[t]]
        /\ \A t \in Below(0) : f[t] = Answered(f, t, s, at)
    BY <2>1
  <2> QED BY <2>2
<1>3. ASSUME NEW m \in 1..N, Defined(m - 1)
      PROVE  Defined(m)
  <2>1. PICK f : \A t \in Below(m - 1) : f[t] = Answered(f, t, s, at)
    BY <1>3
  <2> DEFINE g == [t \in Below(m) |-> Answered(f, t, s, at)]
  <2>2. ASSUME NEW t \in Below(m), IsLogical(t), NEW i \in DOMAIN t.children
        PROVE  t.children[i] \in Below(m - 1) /\ t.children[i] \in Below(m)
    <3>1. t \in Trees /\ Height[t] < m /\ Height[t] \in Nat
      BY <1>1
    <3>2. t.children[i] \in Trees /\ Height[t.children[i]] < Height[t]
      BY <2>2, <3>1, Branches
    <3>3. Height[t.children[i]] \in Nat
      BY <1>1, <3>2
    <3> QED BY <3>1, <3>2, <3>3
  <2>3. \A t \in Below(m - 1) : t \in Below(m) /\ g[t] = f[t]
    BY <1>1, <2>1
  <2>4. ASSUME NEW t \in Below(m)
        PROVE  g[t] = Answered(g, t, s, at)
    <3>1. g[t] = Answered(f, t, s, at)
      OBVIOUS
    <3>2. CASE IsLogical(t)
      <4> HIDE DEF g, Below
      <4>1. \A i \in DOMAIN t.children : g[t.children[i]] = f[t.children[i]]
        BY <2>2, <2>3, <3>2
      <4>2. [i \in DOMAIN t.children |-> g[t.children[i]]]
              = [i \in DOMAIN t.children |-> f[t.children[i]]]
        BY <4>1
      <4> QED BY <3>1, <3>2, <4>2 DEF Answered
    <3>3. CASE ~IsLogical(t)
      <4> HIDE DEF g, Below
      <4> QED BY <3>1, <3>3 DEF Answered
    <3> QED BY <3>2, <3>3
  <2>5. g = [t \in Below(m) |-> g[t]]
    OBVIOUS
  <2> HIDE DEF g
  <2> QED BY <2>4, <2>5
<1>4. Defined(N)
  <2> HIDE DEF Defined
  <2>1. 0 \in S
    BY <1>1, <1>2
  <2>2. ASSUME NEW n \in 1..N, n - 1 \in S PROVE n \in S
    BY <1>3, <2>2
  <2>3. 0..N \subseteq S
    <3> HIDE DEF S
    <3> QED BY <1>1, <2>1, <2>2, UpTo
  <2> QED BY <1>1, <2>3
<1>5. Below(N) = Trees
  BY <1>1
<1>6. \E f : f = [t \in Trees |->
                     IF IsLogical(t)
                     THEN evalLogical(t.op, [i \in DOMAIN t.children |-> f[t.children[i]]])
                     ELSE evalComparison(t, s, at)]
  <2>1. PICK f : /\ f = [t \in Trees |-> f[t]]
                 /\ \A t \in Trees : f[t] = Answered(f, t, s, at)
    <3> HIDE DEF Below
    <3> QED BY <1>4, <1>5
  <2>2. [t \in Trees |-> f[t]] = [t \in Trees |-> Answered(f, t, s, at)]
    BY <2>1
  <2> QED BY <2>1, <2>2 DEF Answered
<1> DEFINE node == CHOOSE f : f = [t \in Trees |->
                     IF IsLogical(t)
                     THEN evalLogical(t.op, [i \in DOMAIN t.children |-> f[t.children[i]]])
                     ELSE evalComparison(t, s, at)]
<1>7. node = [t \in Trees |->
                 IF IsLogical(t)
                 THEN evalLogical(t.op, [i \in DOMAIN t.children |-> node[t.children[i]]])
                 ELSE evalComparison(t, s, at)]
  BY <1>6
<1>8. \A c \in Trees : Eval(c, s, at) = node[c]
  BY DEF Eval
<1> HIDE DEF node
<1>9. \A c \in Trees : node[c] = Answered(node, c, s, at)
  BY <1>7 DEF Answered
<1> QED BY <1>8, <1>9, AnswersAreTri

\* A later answer keeps an earlier one, unless that was unknown.
Keeps(early, late) == early = "unknown" \/ late = early

\* A branch keeps its answer when its children keep theirs: Kleene's logic is monotone.
LEMMA LogicalKeeps ==
    ASSUME NEW op \in {"and", "or", "not"}, NEW n \in Nat,
           NEW early \in [1..n -> Tri], NEW late \in [1..n -> Tri],
           \A i \in 1..n : Keeps(early[i], late[i])
    PROVE  Keeps(evalLogical(op, early), evalLogical(op, late))
<1>1. /\ early \in Seq(Tri) /\ Len(early) = n /\ ToSet(early) = {early[i] : i \in 1..n}
      /\ late \in Seq(Tri) /\ Len(late) = n /\ ToSet(late) = {late[i] : i \in 1..n}
  BY DEF ToSet
<1>2. (early = <<>> <=> n = 0) /\ (late = <<>> <=> n = 0)
  BY <1>1
<1>3. CASE n = 0
  BY <1>2, <1>3 DEF evalLogical, Keeps
<1>4. CASE n # 0 /\ op = "and"
  <2>1. /\ evalLogical(op, early) = triAnd(ToSet(early))
        /\ evalLogical(op, late) = triAnd(ToSet(late))
    BY <1>2, <1>4 DEF evalLogical
  <2>2. CASE "false" \in ToSet(early)
    <3>1. PICK i \in 1..n : early[i] = "false"
      BY <1>1, <2>2
    <3>2. "false" \in ToSet(late)
      BY <1>1, <3>1 DEF Keeps
    <3> QED BY <2>1, <2>2, <3>2 DEF triAnd, Keeps
  <2>3. CASE "false" \notin ToSet(early) /\ "unknown" \in ToSet(early)
    BY <2>1, <2>3 DEF triAnd, Keeps
  <2>4. CASE "false" \notin ToSet(early) /\ "unknown" \notin ToSet(early)
    <3>1. \A i \in 1..n : early[i] = "true" /\ late[i] = "true"
      BY <1>1, <2>4 DEF Keeps, Tri
    <3>2. "false" \notin ToSet(late) /\ "unknown" \notin ToSet(late)
      BY <1>1, <3>1
    <3> QED BY <2>1, <2>4, <3>2 DEF triAnd, Keeps
  <2> QED BY <2>2, <2>3, <2>4
<1>5. CASE n # 0 /\ op = "or"
  <2>1. /\ evalLogical(op, early) = triOr(ToSet(early))
        /\ evalLogical(op, late) = triOr(ToSet(late))
    BY <1>2, <1>5 DEF evalLogical
  <2>2. CASE "true" \in ToSet(early)
    <3>1. PICK i \in 1..n : early[i] = "true"
      BY <1>1, <2>2
    <3>2. "true" \in ToSet(late)
      BY <1>1, <3>1 DEF Keeps
    <3> QED BY <2>1, <2>2, <3>2 DEF triOr, Keeps
  <2>3. CASE "true" \notin ToSet(early) /\ "unknown" \in ToSet(early)
    BY <2>1, <2>3 DEF triOr, Keeps
  <2>4. CASE "true" \notin ToSet(early) /\ "unknown" \notin ToSet(early)
    <3>1. \A i \in 1..n : early[i] = "false" /\ late[i] = "false"
      BY <1>1, <2>4 DEF Keeps, Tri
    <3>2. "true" \notin ToSet(late) /\ "unknown" \notin ToSet(late)
      BY <1>1, <3>1
    <3> QED BY <2>1, <2>4, <3>2 DEF triOr, Keeps
  <2> QED BY <2>2, <2>3, <2>4
<1>6. CASE n = 1 /\ op = "not"
  <2>1. /\ evalLogical(op, early) = triNot(early[1])
        /\ evalLogical(op, late) = triNot(late[1])
    BY <1>1, <1>2, <1>6 DEF evalLogical
  <2>2. Keeps(early[1], late[1])
    BY <1>6
  <2> QED BY <2>1, <2>2 DEF triNot, Keeps
<1>7. CASE n \notin {0, 1} /\ op = "not"
  <2>1. evalLogical(op, early) = "unknown"
    BY <1>1, <1>2, <1>7 DEF evalLogical
  <2> QED BY <2>1 DEF Keeps
<1> QED BY <1>3, <1>4, <1>5, <1>6, <1>7

\* A subject that has been filled further, seen at a later moment, keeps every
\* answer: the values do not change, so what was available answers as before.
LEMMA EvalKeeps ==
    ASSUME NEW s, NEW t, NEW at, NEW later,
           t.value = s.value, s.halves \subseteq t.halves, Rank(at) <= Rank(later)
    PROVE  \A c \in Trees : Keeps(Eval(c, s, at), Eval(c, t, later))
<1>1. PICK f : /\ \A c \in Trees : Eval(c, s, at) = f[c] /\ f[c] \in Tri
               /\ \A c \in Trees : f[c] = Answered(f, c, s, at)
  BY EvalIs
<1>2. PICK g : /\ \A c \in Trees : Eval(c, t, later) = g[c] /\ g[c] \in Tri
               /\ \A c \in Trees : g[c] = Answered(g, c, t, later)
  BY EvalIs
<1> DEFINE S == {c \in Trees : Keeps(f[c], g[c])}
<1>3. ASSUME NEW c \in Trees, \A k \in Trees : Height[k] < Height[c] => k \in S
      PROVE  c \in S
  <2>1. CASE IsLogical(c)
    <3> DEFINE n == Len(c.children)
               early == [i \in 1..n |-> f[c.children[i]]]
               late == [i \in 1..n |-> g[c.children[i]]]
    <3>1. /\ n \in Nat /\ DOMAIN c.children = 1..n
          /\ \A i \in 1..n : c.children[i] \in Trees /\ Height[c.children[i]] < Height[c]
      BY <2>1, Branches
    <3>2. early \in [1..n -> Tri] /\ late \in [1..n -> Tri]
      BY <1>1, <1>2, <3>1
    <3>3. \A i \in 1..n : Keeps(early[i], late[i])
      BY <1>3, <3>1
    <3>4. c.op \in {"and", "or", "not"}
      BY <2>1 DEF IsLogical
    <3>5. f[c] = evalLogical(c.op, early) /\ g[c] = evalLogical(c.op, late)
      BY <1>1, <1>2, <2>1, <3>1 DEF Answered
    <3> HIDE DEF n, early, late
    <3>6. Keeps(evalLogical(c.op, early), evalLogical(c.op, late))
      BY <3>1, <3>2, <3>3, <3>4, LogicalKeeps
    <3> QED BY <3>5, <3>6
  <2>2. CASE ~IsLogical(c)
    <3>1. f[c] = evalComparison(c, s, at) /\ g[c] = evalComparison(c, t, later)
      BY <1>1, <1>2, <2>2 DEF Answered
    <3>2. Rank(c.left.phase) \in Nat /\ Rank(at) \in Nat /\ Rank(later) \in Nat
      BY DEF Rank
    <3>3. Available(c.left, s, at) => Available(c.left, t, later)
      BY <3>2 DEF Available, populated
    <3>4. Keeps(evalComparison(c, s, at), evalComparison(c, t, later))
      BY <3>3 DEF evalComparison, Keeps
    <3> QED BY <3>1, <3>4
  <2> QED BY <2>1, <2>2
<1>4. Trees \subseteq S
  <2> HIDE DEF S
  <2> QED BY <1>3, TreeInduction
<1> QED BY <1>1, <1>2, <1>4

-----------------------------------------------------------------------------
(***************************************************************************)
(* The profile.                                                            *)
(***************************************************************************)
\* What the operators of a profile rely on.
IsProfile(p) ==
    /\ p.bins \in Seq(ToSet(p.bins)) /\ p.gates \subseteq Trees
    /\ p.formats \in Seq([tree : Trees, weight : Int])

\* The sum of the weights is a number, and 0 when nothing is added up.
LEMMA WeightIs ==
    ASSUME NEW p, IsProfile(p), NEW M
    PROVE  /\ Weight(p, M) \in Int
           /\ M = {} => Weight(p, M) = 0
<1> DEFINE N == Len(p.formats)
           add == [n \in 1..N |-> IF n \in M THEN p.formats[n].weight ELSE 0]
           step == [n \in 1..N |-> [x \in Int |-> x + add[n]]]
<1>1. N \in Nat /\ \A n \in 1..N : p.formats[n] \in [tree : Trees, weight : Int]
  <2>1. p.formats \in Seq([tree : Trees, weight : Int])
    BY DEF IsProfile
  <2> QED BY <2>1, SequenceOf
<1> HIDE DEF N
<1>2. add \in [1..N -> Int]
  <2>1. \A n \in 1..N : p.formats[n].weight \in Int
    BY <1>1
  <2> QED BY <2>1
<1>3. /\ M = {} => \A n \in 1..N : add[n] = 0
      /\ \A n \in 1..N : add[n] = IF n \in M THEN p.formats[n].weight ELSE 0
  OBVIOUS
<1> HIDE DEF add
<1>4. step \in [1..N -> [Int -> Int]]
  BY <1>1, <1>2
<1>5. PICK f \in [0..N -> Int] : Recurs(f, N, 0, step)
  <2> HIDE DEF step
  <2>1. 0 \in Int
    OBVIOUS
  <2> QED BY <1>1, <1>4, <2>1, Recursion
<1>6. \A n \in 0..N : f[n] = IF n = 0 THEN 0 ELSE f[n - 1] + add[n]
  <2> TAKE n \in 0..N
  <2>1. CASE n = 0
    BY <1>5, <2>1 DEF Recurs
  <2>2. CASE n # 0
    <3>1. n \in 1..N /\ n - 1 \in 0..N /\ f[n - 1] \in Int
      BY <1>1, <1>5, <2>2
    <3>2. f[n] = step[n][f[n - 1]]
      <4> HIDE DEF step
      <4> QED BY <1>5, <2>2 DEF Recurs
    <3> QED BY <2>2, <3>1, <3>2
  <2> QED BY <2>1, <2>2
<1>7. f = [n \in 0..N |-> IF n = 0 THEN 0
                          ELSE f[n - 1] + (IF n \in M THEN p.formats[n].weight ELSE 0)]
  <2>1. \A n \in 0..N : n # 0 => n \in 1..N
    BY <1>1
  <2>2. \A n \in 0..N : f[n] = IF n = 0 THEN 0
                               ELSE f[n - 1] + (IF n \in M THEN p.formats[n].weight ELSE 0)
    BY <1>3, <1>6, <2>1
  <2> QED BY <1>5, <2>2
<1> DEFINE sum == CHOOSE g :
                     g = [n \in 0..N |-> IF n = 0 THEN 0
                             ELSE g[n - 1] + (IF n \in M THEN p.formats[n].weight ELSE 0)]
<1>8. sum = [n \in 0..N |-> IF n = 0 THEN 0
                ELSE sum[n - 1] + (IF n \in M THEN p.formats[n].weight ELSE 0)]
  BY <1>7
<1>9. Weight(p, M) = sum[N]
  BY DEF Weight, N
<1> HIDE DEF sum
<1>10. sum[0] = 0 /\ \A n \in 1..N : sum[n] = sum[n - 1] + add[n]
  <2>1. 0 \in 0..N /\ \A n \in 1..N : n \in 0..N /\ n # 0
    BY <1>1
  <2> QED BY <1>3, <1>8, <2>1
<1> DEFINE S == {n \in 0..N : sum[n] \in Int /\ (M = {} => sum[n] = 0)}
<1>11. 0 \in S
  BY <1>1, <1>10
<1>12. ASSUME NEW n \in 1..N, n - 1 \in S PROVE n \in S
  BY <1>1, <1>2, <1>3, <1>10, <1>12
<1>13. 0..N \subseteq S
  <2> HIDE DEF S
  <2> QED BY <1>1, <1>11, <1>12, UpTo
<1>14. N \in S
  BY <1>1, <1>13
<1> QED BY <1>9, <1>14

LEMMA RankIs ==
    ASSUME NEW p, IsProfile(p), NEW b
    PROVE  rank(p, b) \in Int
<1>1. Len(p.bins) \in Nat /\ DOMAIN p.bins = 1..Len(p.bins)
  BY DEF IsProfile
<1>2. CASE \E i \in DOMAIN p.bins : p.bins[i] = b
  <2> DEFINE k == CHOOSE i \in DOMAIN p.bins : p.bins[i] = b
  <2>1. k \in DOMAIN p.bins
    BY <1>2
  <2>2. rank(p, b) = k - 1
    BY <1>2 DEF rank
  <2> HIDE DEF k
  <2> QED BY <1>1, <2>1, <2>2
<1>3. CASE ~ \E i \in DOMAIN p.bins : p.bins[i] = b
  BY <1>1, <1>3 DEF rank
<1> QED BY <1>2, <1>3

\* A quality has a bin and a score that is a number.
IsQuality(q) == q.score \in Int

LEMMA QualityOf ==
    ASSUME NEW p, IsProfile(p), NEW r
    PROVE  /\ IsQuality(FileQuality(p, r)) /\ Score(p, r, "search") \in Int
           /\ FileQuality(p, r).bin = r.bin
           /\ FileQuality(p, r).score = Score(p, r, "search")
BY WeightIs DEF FileQuality, Score, IsQuality

\* What is not better than what is not better than x is not better than x.
LEMMA NotBetterTransitive ==
    ASSUME NEW p, IsProfile(p), NEW x, NEW y, NEW z,
           IsQuality(x), IsQuality(y), IsQuality(z),
           ~StrictlyBetterQuality(p, x, y), ~StrictlyBetterQuality(p, y, z)
    PROVE  ~StrictlyBetterQuality(p, x, z)
<1>1. rank(p, x.bin) \in Int /\ rank(p, y.bin) \in Int /\ rank(p, z.bin) \in Int
  BY RankIs
<1> QED BY <1>1 DEF StrictlyBetterQuality, IsQuality

\* What is better is no worse.
LEMMA BetterIsNotWorse ==
    ASSUME NEW p, IsProfile(p), NEW x, NEW y,
           IsQuality(x), IsQuality(y), StrictlyBetterQuality(p, x, y)
    PROVE  ~StrictlyBetterQuality(p, y, x)
<1>1. rank(p, x.bin) \in Int /\ rank(p, y.bin) \in Int
  BY RankIs
<1> QED BY <1>1 DEF StrictlyBetterQuality, IsQuality

\* The order that a pick is made by refines the one that qualities are compared by.
LEMMA BetterAgrees ==
    ASSUME NEW p, IsProfile(p), NEW r, NEW b
    PROVE  /\ better(p, r, b) => ~StrictlyBetterQuality(p, FileQuality(p, r), FileQuality(p, b))
           /\ ~better(p, r, b) => ~StrictlyBetterQuality(p, FileQuality(p, b), FileQuality(p, r))
<1>1. rank(p, r.bin) \in Int /\ rank(p, b.bin) \in Int
  BY RankIs
<1>2. /\ Score(p, r, "search") \in Int /\ Score(p, b, "search") \in Int
      /\ FileQuality(p, r).bin = r.bin /\ FileQuality(p, b).bin = b.bin
      /\ FileQuality(p, r).score = Score(p, r, "search")
      /\ FileQuality(p, b).score = Score(p, b, "search")
  BY QualityOf
<1>3. better(p, r, b) =>
        \/ rank(p, r.bin) < rank(p, b.bin)
        \/ rank(p, r.bin) = rank(p, b.bin) /\ Score(p, r, "search") > Score(p, b, "search")
        \/ rank(p, r.bin) = rank(p, b.bin) /\ Score(p, r, "search") = Score(p, b, "search")
  BY DEF better
<1>4. ~better(p, r, b) =>
        \/ rank(p, r.bin) # rank(p, b.bin) /\ ~(rank(p, r.bin) < rank(p, b.bin))
        \/ rank(p, r.bin) = rank(p, b.bin) /\ ~(Score(p, r, "search") > Score(p, b, "search"))
  BY <1>1, <1>2 DEF better
<1> QED BY <1>1, <1>2, <1>3, <1>4 DEF StrictlyBetterQuality

-----------------------------------------------------------------------------
(***************************************************************************)
(* The pick.                                                               *)
(***************************************************************************)
\* What takes the place of the best so far.
Winning(p, answer, group, n, best) ==
    /\ n \in group /\ Gate(p, answer[n], "search")
    /\ best = NoRelease \/ better(p, answer[n], best)

\* A pick is the last of the winners.
LEMMA PickIs ==
    ASSUME NEW p, NEW answer \in Seq(Releases), NEW group
    PROVE  \E f : /\ Pick(p, answer, group) = f[Len(answer)]
                  /\ f[0] = NoRelease
                  /\ \A n \in 1..Len(answer) :
                        f[n] = IF Winning(p, answer, group, n, f[n - 1])
                               THEN answer[n] ELSE f[n - 1]
<1> DEFINE N == Len(answer)
           V == Releases \cup {NoRelease}
           step == [n \in 1..N |-> [b \in V |->
                      IF Winning(p, answer, group, n, b) THEN answer[n] ELSE b]]
<1>1. N \in Nat /\ \A n \in 1..N : answer[n] \in Releases
  BY SequenceOf
<1> HIDE DEF N
<1>2. step \in [1..N -> [V -> V]] /\ NoRelease \in V
  BY <1>1
<1> HIDE DEF V
<1>3. PICK f \in [0..N -> V] : Recurs(f, N, NoRelease, step)
  <2> HIDE DEF step
  <2> QED BY <1>1, <1>2, Recursion
<1>4. \A n \in 0..N : f[n] = IF n = 0 THEN NoRelease
                             ELSE IF Winning(p, answer, group, n, f[n - 1])
                                  THEN answer[n] ELSE f[n - 1]
  <2> TAKE n \in 0..N
  <2>1. CASE n = 0
    BY <1>3, <2>1 DEF Recurs
  <2>2. CASE n # 0
    <3>1. n \in 1..N /\ n - 1 \in 0..N /\ f[n - 1] \in V
      BY <1>1, <1>3, <2>2
    <3>2. f[n] = step[n][f[n - 1]]
      <4> HIDE DEF step
      <4> QED BY <1>3, <2>2 DEF Recurs
    <3> QED BY <2>2, <3>1, <3>2
  <2> QED BY <2>1, <2>2
<1>5. f = [n \in 0..N |-> IF n = 0 THEN NoRelease
                          ELSE IF Winning(p, answer, group, n, f[n - 1])
                               THEN answer[n] ELSE f[n - 1]]
  BY <1>3, <1>4
<1> DEFINE best == CHOOSE g :
                      g = [n \in 0..N |-> IF n = 0 THEN NoRelease
                             ELSE IF Winning(p, answer, group, n, g[n - 1])
                                  THEN answer[n] ELSE g[n - 1]]
<1>6. best = [n \in 0..N |-> IF n = 0 THEN NoRelease
                 ELSE IF Winning(p, answer, group, n, best[n - 1])
                      THEN answer[n] ELSE best[n - 1]]
  BY <1>5
<1>7. Pick(p, answer, group) = best[N]
  BY DEF Pick, Winning, N
<1> HIDE DEF best
<1>8. /\ best[0] = NoRelease
      /\ \A n \in 1..N : best[n] = IF Winning(p, answer, group, n, best[n - 1])
                                   THEN answer[n] ELSE best[n - 1]
  <2>1. 0 \in 0..N /\ \A n \in 1..N : n \in 0..N /\ n # 0
    BY <1>1
  <2> QED BY <1>6, <2>1
<1> QED BY <1>7, <1>8 DEF N

\* A pick is a release of its group that passes the gate, and no other that does
\* has a better quality; there is one when any passes.
LEMMA PickIsBest ==
    ASSUME NEW p, IsProfile(p), NEW answer \in Seq(Releases),
           NEW group \in SUBSET (DOMAIN answer)
    PROVE  /\ Pick(p, answer, group) # NoRelease =>
                 \E k \in group : Pick(p, answer, group) = answer[k]
           /\ \A i \in group : Gate(p, answer[i], "search") =>
                 /\ Pick(p, answer, group) # NoRelease
                 /\ ~StrictlyBetterQuality(p, FileQuality(p, Pick(p, answer, group)),
                                           FileQuality(p, answer[i]))
<1> DEFINE N == Len(answer)
<1>1. N \in Nat /\ DOMAIN answer = 1..N /\ \A n \in 1..N : answer[n] \in Releases
  BY SequenceOf
<1>2. PICK f : /\ Pick(p, answer, group) = f[N] /\ f[0] = NoRelease
               /\ \A n \in 1..N :
                     f[n] = IF Winning(p, answer, group, n, f[n - 1])
                            THEN answer[n] ELSE f[n - 1]
  BY PickIs
<1> HIDE DEF N
<1> DEFINE OfGroup(n) == f[n] # NoRelease => \E k \in group : f[n] = answer[k]
           Behind(b, i) == ~StrictlyBetterQuality(p, FileQuality(p, b), FileQuality(p, answer[i]))
           Best(n) == \A i \in group : i <= n /\ Gate(p, answer[i], "search") =>
                         f[n] # NoRelease /\ Behind(f[n], i)
           S == {n \in 0..N : OfGroup(n) /\ Best(n)}
<1>3. 0 \in S
  BY <1>1, <1>2
<1>4. ASSUME NEW n \in 1..N, n - 1 \in S PROVE n \in S
  <2>1. OfGroup(n - 1) /\ Best(n - 1)
    BY <1>4
  <2>2. \A i \in group : i <= n => i = n \/ i <= n - 1
    BY <1>1
  <2>3. CASE Winning(p, answer, group, n, f[n - 1])
    <3>1. f[n] = answer[n] /\ n \in group /\ answer[n] # NoRelease
      BY <1>1, <1>2, <2>3, SelectionAssumption DEF Winning
    <3>2. ASSUME NEW i \in group, i <= n - 1, Gate(p, answer[i], "search")
          PROVE  Behind(answer[n], i)
      <4>1. f[n - 1] # NoRelease /\ Behind(f[n - 1], i)
        BY <2>1, <3>2
      <4>2. better(p, answer[n], f[n - 1])
        BY <2>3, <4>1 DEF Winning
      <4>3. ~StrictlyBetterQuality(p, FileQuality(p, answer[n]), FileQuality(p, f[n - 1]))
        BY <4>2, BetterAgrees
      <4> QED BY <4>1, <4>3, QualityOf, NotBetterTransitive
    <3>3. Behind(answer[n], n)
      <4>1. ~better(p, answer[n], answer[n]) \/ better(p, answer[n], answer[n])
        OBVIOUS
      <4> QED BY <4>1, BetterAgrees
    <3>4. Best(n)
      <4> HIDE DEF Behind
      <4> QED BY <2>2, <3>1, <3>2, <3>3
    <3> QED BY <3>1, <3>4
  <2>4. CASE ~Winning(p, answer, group, n, f[n - 1])
    <3>1. f[n] = f[n - 1]
      BY <1>2, <2>4
    <3>2. ASSUME n \in group, Gate(p, answer[n], "search")
          PROVE  f[n - 1] # NoRelease /\ Behind(f[n - 1], n)
      <4>1. f[n - 1] # NoRelease /\ ~better(p, answer[n], f[n - 1])
        BY <2>4, <3>2 DEF Winning
      <4> QED BY <4>1, BetterAgrees
    <3>3. Best(n)
      <4> HIDE DEF Behind
      <4> QED BY <2>1, <2>2, <3>1, <3>2
    <3>4. OfGroup(n)
      BY <2>1, <3>1
    <3> QED BY <3>3, <3>4
  <2> QED BY <2>3, <2>4
<1>5. 0..N \subseteq S
  <2> HIDE DEF S
  <2> QED BY <1>1, <1>3, <1>4, UpTo
<1>6. OfGroup(N) /\ Best(N)
  BY <1>1, <1>5
<1>7. \A i \in group : i <= N
  BY <1>1
<1> QED BY <1>2, <1>6, <1>7

-----------------------------------------------------------------------------
(***************************************************************************)
(* The search.                                                             *)
(***************************************************************************)
\* BestSeen is inductive with the qualities that are compared being numbers,
\* and with nothing seen of a proposal that is not there.
SelectInv ==
    /\ profile \in Profiles /\ results \in Seq(Releases)
    /\ \A q \in seen : IsQuality(q)
    /\ IsOpen => IsQuality(open.quality)
    /\ ~IsOpen => seen = {}
    /\ BestSeen

LEMMA ProfilesAre ==
    ASSUME NEW p \in Profiles
    PROVE  IsProfile(p)
BY SelectionAssumption DEF IsProfile

LEMMA AnswersAre ==
    ASSUME NEW answer \in Answers
    PROVE  answer \in Seq(Releases)
<1>1. PICK S \in SUBSET Releases : answer \in SetToSeqs(S)
  BY DEF Answers
<1>2. Cardinality(S) \in Nat
  BY SelectionAssumption, FS_Subset, FS_CardinalityType
<1>3. answer \in [1..Cardinality(S) -> S]
  BY <1>1 DEF SetToSeqs
<1> QED BY <1>2, <1>3

\* A proposal is open, and holds the quality of its release.
LEMMA ProposalIsOpen ==
    ASSUME NEW r, r # NoRelease, NEW covered
    PROVE  /\ Proposal(r, covered) # NoProposal
           /\ Proposal(r, covered).quality = FileQuality(profile, r)
<1>1. Proposal(r, covered).release = r /\ NoProposal.release = NoRelease
  BY DEF Proposal, NoProposal
<1>2. Proposal(r, covered).quality = FileQuality(profile, r)
  BY DEF Proposal
<1> QED BY <1>1, <1>2

\* What a search picks is the best of what it ranked.
LEMMA PickLeads ==
    ASSUME profile \in Profiles, results \in Seq(Releases), pick(results) # NoRelease
    PROVE  \A q \in Ranked(results, pick(results)) :
              /\ IsQuality(q)
              /\ ~StrictlyBetterQuality(profile, FileQuality(profile, pick(results)), q)
<1> DEFINE single == Pick(profile, results, Group(results, "single"))
           pack == Pick(profile, results, Group(results, "pack"))
           r == pick(results)
<1>1. IsProfile(profile)
  BY ProfilesAre
<1>2. \A kind : Group(results, kind) \in SUBSET (DOMAIN results)
  BY DEF Group
<1>3. \E kind \in {"single", "pack"} :
         r = Pick(profile, results, Group(results, kind))
  BY DEF pick, choosePick
<1>4. PICK kind \in {"single", "pack"} :
         r = Pick(profile, results, Group(results, kind))
  BY <1>3
<1> HIDE DEF r
<1>5. r # NoRelease
  BY DEF r
<1>6. PICK k \in Group(results, kind) : r = results[k]
  BY <1>1, <1>2, <1>4, <1>5, PickIsBest
<1>7. r.kind = kind
  BY <1>6 DEF Group
<1>8. \A i \in Group(results, kind) : Gate(profile, results[i], "search") =>
         ~StrictlyBetterQuality(profile, FileQuality(profile, r), FileQuality(profile, results[i]))
  BY <1>1, <1>2, <1>4, PickIsBest
<1>9. ASSUME NEW q \in Ranked(results, r)
      PROVE  IsQuality(q) /\ ~StrictlyBetterQuality(profile, FileQuality(profile, r), q)
  <2>1. PICK i \in Group(results, kind) :
           Gate(profile, results[i], "search") /\ q = FileQuality(profile, results[i])
    BY <1>7, <1>9 DEF Ranked
  <2> QED BY <1>1, <1>8, <2>1, QualityOf
<1> QED BY <1>9 DEF r

LEMMA SelectInitially == SelectInit => SelectInv
<1> SUFFICES ASSUME SelectInit PROVE SelectInv
  OBVIOUS
<1>1. profile \in Profiles /\ results \in Seq(Releases)
  BY SelectionAssumption DEF SelectInit
<1> QED BY <1>1 DEF SelectInit, SelectInv, BestSeen, IsOpen

LEMMA SelectKept ==
    ASSUME SelectInv, [SelectNext]_selectVars
    PROVE  SelectInv'
<1> USE DEF SelectInv
<1>1. CASE \E answer \in Answers \ {<<>>} : Search(answer)
  BY <1>1, AnswersAre DEF Search, BestSeen, IsOpen
<1>2. CASE ProposeOrSupersede
  <2> DEFINE r == pick(results)
  <2>1. /\ profile' = profile /\ results' = <<>> /\ results' \in Seq(Releases)
        /\ IF r = NoRelease THEN UNCHANGED <<open, seen>>
           ELSE /\ open' = IF ~IsOpen \/ Supersedes(r) THEN Proposal(r, Covered(r)) ELSE open
                /\ seen' = seen \cup Ranked(results, r)
    BY <1>2 DEF ProposeOrSupersede
  <2>2. CASE r = NoRelease
    BY <2>1, <2>2 DEF BestSeen, IsOpen
  <2>3. CASE r # NoRelease
    <3> DEFINE P == Proposal(r, Covered(r))
               Q == FileQuality(profile, r)
    <3>1. IsProfile(profile) /\ IsQuality(Q)
      BY ProfilesAre, QualityOf
    <3>2. \A q \in Ranked(results, r) : IsQuality(q) /\ ~StrictlyBetterQuality(profile, Q, q)
      BY <2>3, PickLeads
    <3>3. P # NoProposal /\ P.quality = Q
      BY <2>3, ProposalIsOpen
    <3> HIDE DEF r, P, Q
    <3>4. \A q \in seen' : IsQuality(q)
      BY <2>1, <2>3, <3>2
    <3>5. CASE ~IsOpen
      <4>1. open' = P /\ seen' = Ranked(results, r)
        BY <2>1, <2>3, <3>5 DEF P
      <4> QED BY <2>1, <3>1, <3>2, <3>3, <3>4, <4>1 DEF BestSeen, IsOpen
    <3>6. CASE IsOpen /\ Supersedes(r)
      <4>1. open' = P /\ seen' = seen \cup Ranked(results, r)
        BY <2>1, <2>3, <3>6 DEF P
      <4>2. ~StrictlyBetterQuality(profile, Q, open.quality)
        BY <3>1, <3>6, BetterIsNotWorse DEF Supersedes, Q
      <4>3. \A q \in seen : ~StrictlyBetterQuality(profile, Q, q)
        BY <3>1, <3>6, <4>2, NotBetterTransitive DEF BestSeen
      <4> QED BY <2>1, <3>1, <3>2, <3>3, <3>4, <4>1, <4>3 DEF BestSeen, IsOpen
    <3>7. CASE IsOpen /\ ~Supersedes(r)
      <4>1. open' = open /\ seen' = seen \cup Ranked(results, r)
        BY <2>1, <2>3, <3>7
      <4>2. ~StrictlyBetterQuality(profile, open.quality, Q)
        BY <3>7 DEF Supersedes, Q
      <4>3. \A q \in Ranked(results, r) : ~StrictlyBetterQuality(profile, open.quality, q)
        BY <3>1, <3>2, <3>7, <4>2, NotBetterTransitive
      <4> QED BY <2>1, <3>4, <3>7, <4>1, <4>3 DEF BestSeen, IsOpen
    <3> QED BY <3>5, <3>6, <3>7
  <2> QED BY <2>2, <2>3
<1>3. CASE Decline
  BY <1>3 DEF Decline, BestSeen, IsOpen
<1>4. CASE \E p \in Profiles : UpdateProfile(p)
  BY <1>4 DEF UpdateProfile, BestSeen, IsOpen
<1>5. CASE \E R \in RuleSets : UpdateRules(R)
  BY <1>5 DEF UpdateRules, BestSeen, IsOpen
<1>6. CASE UNCHANGED selectVars
  BY <1>6 DEF selectVars, BestSeen, IsOpen
<1> QED BY <1>1, <1>2, <1>3, <1>4, <1>5, <1>6 DEF SelectNext

LEMMA Selected == SelectSpec => []SelectInv
<1> QED BY SelectInitially, SelectKept, PTL DEF SelectSpec

\* For all profiles and answers: the open proposal is no worse than anything that
\* the searches since it was opened have ranked in the group they picked from
\* (qualityprofile.Pick and StrictlyBetterQuality agree on what is better).
THEOREM OpenIsBest == SelectSpec => []BestSeen
<1>1. SelectInv => BestSeen
  BY DEF SelectInv
<1> QED BY <1>1, Selected, PTL

\* For all condition trees, however deep: what they say of a release at search is
\* what they say of its file at import, so that nothing is grabbed for a format it
\* loses or rejected by a gate it would have passed (rules.Eval, ReGate).
THEOREM VerdictsHold == SelectSpec => []VerdictsStand
<1>1. ASSUME SelectInv PROVE VerdictsStand
  <2> SUFFICES ASSUME NEW r \in ToSet(results)
               PROVE  /\ Penalty(profile, Probed(r)) = 0
                      /\ \A g \in profile.gates :
                            Eval(g, r.subject, "search") = "true"
                               => HardFails(profile, Probed(r))
    BY DEF VerdictsStand
  <2>1. r \in Releases
    <3>1. results \in Seq(Releases) /\ ToSet(results) = {results[i] : i \in DOMAIN results}
      BY <1>1 DEF SelectInv, ToSet
    <3> QED BY <3>1, SequenceOf
  <2>2. IsProfile(profile)
    BY <1>1, ProfilesAre DEF SelectInv
  <2>3. /\ Probed(r).value = r.subject.value
        /\ r.subject.halves \subseteq Probed(r).halves
    BY <2>1, SelectionAssumption DEF Probed
  <2>4. Rank("search") <= Rank("import")
    BY DEF Rank
  <2>5. \A c \in Trees : Keeps(Eval(c, r.subject, "search"), Eval(c, Probed(r), "import"))
    BY <2>3, <2>4, EvalKeeps
  <2>6. \A c \in Trees : Keeps(Eval(c, Probed(r), "search"), Eval(c, Probed(r), "import"))
    BY <2>4, EvalKeeps
  <2>7. evalFormats(profile, Probed(r), "search") \ evalFormats(profile, Probed(r), "import") = {}
    <3>1. \A i \in DOMAIN profile.formats : profile.formats[i].tree \in Trees
      <4>1. profile.formats \in Seq([tree : Trees, weight : Int])
        BY <2>2 DEF IsProfile
      <4>2. \A i \in DOMAIN profile.formats : profile.formats[i] \in [tree : Trees, weight : Int]
        BY <4>1, SequenceOf
      <4> QED BY <4>2
    <3> QED BY <2>6, <3>1 DEF evalFormats, Keeps
  <2>8. Penalty(profile, Probed(r)) = 0
    BY <2>2, <2>7, WeightIs DEF Penalty
  <2>9. \A g \in profile.gates : g \in Trees
    BY <2>2 DEF IsProfile
  <2> QED BY <2>5, <2>8, <2>9 DEF HardFails, Keeps
<1> QED BY <1>1, Selected, PTL

-----------------------------------------------------------------------------
(***************************************************************************)
(* The identity of a file.  Reversing the ids of a path puts the same      *)
(* candidates in another order (Reordered), before they are merged and     *)
(* after; and the order decides no more than which of two that are tied    *)
(* comes first.                                                            *)
(***************************************************************************)
\* What is known of candidates, however they came to be.
Ranking(cands) ==
    /\ DOMAIN cands \subseteq Nat
    /\ \A i \in DOMAIN cands : cands[i].confidence \in Int /\ cands[i].confidence <= 10000

\* Candidates d are the candidates c in another order.
Reordered(c, d, f) ==
    /\ f \in [DOMAIN c -> DOMAIN d]
    /\ \A i, j \in DOMAIN c : f[i] = f[j] => i = j
    /\ \A k \in DOMAIN d : \E i \in DOMAIN c : f[i] = k
    /\ \A i \in DOMAIN c : d[f[i]] = c[i]

\* There is a first of the most confident.
LEMMA LeadingIs ==
    ASSUME NEW c, Ranking(c), NEW S \in SUBSET (DOMAIN c), S # {}
    PROVE  /\ Leading(c, S) \in S
           /\ \A j \in S : \/ c[Leading(c, S)].confidence > c[j].confidence
                           \/ /\ c[Leading(c, S)].confidence = c[j].confidence
                              /\ Leading(c, S) <= j
<1> DEFINE Doubts == {10000 - c[i].confidence : i \in S}
<1>1. Doubts \in SUBSET Nat /\ Doubts # {}
  BY DEF Ranking
<1>2. PICK x \in Doubts : \A y \in Doubts : x <= y
  <2> HIDE DEF Doubts
  <2> QED BY <1>1, LeastNumber
<1> DEFINE Best == {i \in S : 10000 - c[i].confidence = x}
<1>3. Best \in SUBSET Nat /\ Best # {}
  BY DEF Ranking
<1>4. PICK i \in Best : \A j \in Best : i <= j
  <2> HIDE DEF Best
  <2> QED BY <1>3, LeastNumber
<1>5. \A j \in S : \/ c[i].confidence > c[j].confidence
                   \/ c[i].confidence = c[j].confidence /\ i <= j
  <2> TAKE j \in S
  <2>1. /\ c[i].confidence \in Int /\ c[j].confidence \in Int
        /\ 10000 - c[i].confidence = x /\ x <= 10000 - c[j].confidence
    BY <1>2, <1>4 DEF Ranking
  <2>2. 10000 - c[j].confidence = x => i <= j
    BY <1>4
  <2> QED BY <2>1, <2>2
<1>6. i \in S
  BY <1>4
<1> HIDE DEF Best, Doubts
<1> QED BY <1>5, <1>6 DEF Leading

\* The order of the candidates decides neither how confident the best one is nor
\* whether another comes close; and which is the best only when one does.
LEMMA SameTop ==
    ASSUME NEW c, NEW d, NEW f, Ranking(c), Ranking(d), Reordered(c, d, f),
           DOMAIN c # {}
    PROVE  /\ DOMAIN d # {}
           /\ d[Top(d)].confidence = c[Top(c)].confidence
           /\ Tied(d) <=> Tied(c)
           /\ ~Tied(c) => d[Top(d)] = c[Top(c)]
<1>1. DOMAIN d # {}
  BY DEF Reordered
<1>2. /\ Top(c) \in DOMAIN c
      /\ \A j \in DOMAIN c : c[Top(c)].confidence >= c[j].confidence
  BY LeadingIs DEF Top, Ranking
<1>3. /\ Top(d) \in DOMAIN d
      /\ \A k \in DOMAIN d : d[Top(d)].confidence >= d[k].confidence
  BY <1>1, LeadingIs DEF Top, Ranking
<1>4. PICK t \in DOMAIN c : f[t] = Top(d)
  BY <1>3 DEF Reordered
<1>5. d[Top(d)] = c[t]
  BY <1>4 DEF Reordered
<1>6. f[Top(c)] \in DOMAIN d /\ d[f[Top(c)]] = c[Top(c)]
  BY <1>2 DEF Reordered
<1>7. c[t].confidence = c[Top(c)].confidence
  <2>1. c[t].confidence <= c[Top(c)].confidence
    BY <1>2 DEF Ranking
  <2>2. c[t].confidence >= c[Top(c)].confidence
    BY <1>3, <1>5, <1>6
  <2> QED BY <1>2, <2>1, <2>2 DEF Ranking
<1>8. ASSUME Tied(c) PROVE Tied(d)
  <2>1. PICK j \in DOMAIN c \ {Top(c)} :
           c[Top(c)].confidence - c[j].confidence < ambiguousEpsilon
    BY <1>8 DEF Tied
  <2>2. /\ f[j] \in DOMAIN d /\ d[f[j]] = c[j] /\ f[j] # f[Top(c)]
    BY <1>2, <2>1 DEF Reordered
  <2>3. CASE f[j] # Top(d)
    BY <1>5, <1>7, <2>1, <2>2, <2>3 DEF Tied
  <2>4. CASE f[j] = Top(d)
    <3>1. f[Top(c)] \in DOMAIN d \ {Top(d)}
      BY <1>6, <2>2, <2>4
    <3>2. d[Top(d)].confidence - d[f[Top(c)]].confidence < ambiguousEpsilon
      BY <1>2, <1>5, <1>6, <1>7 DEF Ranking, ambiguousEpsilon
    <3> QED BY <3>1, <3>2 DEF Tied
  <2> QED BY <2>3, <2>4
<1>9. ASSUME Tied(d) PROVE Tied(c)
  <2>1. PICK k \in DOMAIN d \ {Top(d)} :
           d[Top(d)].confidence - d[k].confidence < ambiguousEpsilon
    BY <1>9 DEF Tied
  <2>2. PICK j \in DOMAIN c : f[j] = k
    BY <2>1 DEF Reordered
  <2>3. d[k] = c[j] /\ j # t
    BY <1>4, <2>1, <2>2 DEF Reordered
  <2>4. CASE j # Top(c)
    BY <1>5, <1>7, <2>1, <2>3, <2>4 DEF Tied
  <2>5. CASE j = Top(c)
    <3>1. t \in DOMAIN c \ {Top(c)}
      BY <2>3, <2>5
    <3>2. c[Top(c)].confidence - c[t].confidence < ambiguousEpsilon
      BY <1>2, <1>7 DEF Ranking, ambiguousEpsilon
    <3> QED BY <3>1, <3>2 DEF Tied
  <2> QED BY <2>4, <2>5
<1>10. ASSUME ~Tied(c) PROVE d[Top(d)] = c[Top(c)]
  <2>1. t = Top(c)
    <3> SUFFICES ASSUME t # Top(c) PROVE FALSE
      OBVIOUS
    <3>1. c[Top(c)].confidence - c[t].confidence < ambiguousEpsilon
      BY <1>2, <1>7 DEF Ranking, ambiguousEpsilon
    <3> QED BY <1>10, <3>1 DEF Tied
  <2> QED BY <1>5, <2>1
<1> QED BY <1>1, <1>5, <1>7, <1>8, <1>9, <1>10

\* So it decides nothing of a record that names a title for sure.
Certain == {"confident", "confident_review", "low_confidence"}

LEMMA SameRecord ==
    ASSUME NEW c, NEW d, NEW f, Ranking(c), Ranking(d), Reordered(c, d, f),
           NEW e, NEW e2, e2.file = e.file, bandAndRecord(e, c).outcome \in Certain
    PROVE  bandAndRecord(e2, d) = bandAndRecord(e, c)
<1>1. DOMAIN c # {}
  BY DEF bandAndRecord, Certain
<1> DEFINE best == c[Top(c)]
           outcome(x) == IF ~x[Top(x)].episode /\ e.file.numbering
                         THEN "partial_series" ELSE Band(x)
           recorded(x) == IF outcome(x) = "ambiguous" THEN [outcome |-> outcome(x)]
                          ELSE [outcome |-> outcome(x), chosen |-> x[Top(x)].ref,
                                episode |-> x[Top(x)].episode]
<1>2. bandAndRecord(e, c) = recorded(c)
  BY <1>1 DEF bandAndRecord
<1>3. DOMAIN d # {} => bandAndRecord(e2, d) = recorded(d)
  BY DEF bandAndRecord
<1>4. recorded(c).outcome = outcome(c)
  OBVIOUS
<1>5. outcome(c) \in Certain
  BY <1>2, <1>4
<1>6. Band(c) \in Certain
  BY <1>5 DEF Certain
<1>7. ~Tied(c)
  BY <1>6 DEF Band, Certain
<1>8. /\ DOMAIN d # {} /\ d[Top(d)] = c[Top(c)] /\ ~Tied(d)
  BY <1>1, <1>7, SameTop
<1>9. Band(d) = Band(c)
  BY <1>7, <1>8 DEF Band
<1>10. recorded(d) = recorded(c)
  BY <1>8, <1>9
<1> QED BY <1>2, <1>3, <1>8, <1>10

\* Candidates as the tiers leave them: the ids before the hits and above them, an
\* episode for all of a tier or for none, and no two that agree and differ.
Sourced(c) ==
    /\ Ranking(c) /\ IsFiniteSet(DOMAIN c)
    /\ \A i \in DOMAIN c :
          c[i] = [ref |-> c[i].ref, confidence |-> c[i].confidence, year |-> c[i].year,
                  episode |-> c[i].episode, tier |-> c[i].tier]
    /\ \A i, j \in DOMAIN c :
          /\ c[i].ref = c[j].ref /\ c[i].confidence = c[j].confidence => c[i] = c[j]
          /\ c[i].tier = c[j].tier => c[i].episode = c[j].episode
          /\ i < j => c[i].tier = c[j].tier \/ c[i].confidence > c[j].confidence

\* A bucket has an episode when any in it does, in whatever order they come.
LEMMA EpisodeKept ==
    ASSUME NEW c, Sourced(c), NEW S \in SUBSET (DOMAIN c), S # {}
    PROVE  (c[Leading(c, S)].episode \/ \E j \in S : j > Leading(c, S) /\ c[j].episode)
              <=> \E j \in S : c[j].episode
<1> DEFINE k == Leading(c, S)
<1>1. /\ k \in S
      /\ \A j \in S : \/ c[k].confidence > c[j].confidence
                      \/ c[k].confidence = c[j].confidence /\ k <= j
  BY LeadingIs DEF Sourced
<1> HIDE DEF k
<1>2. ASSUME NEW j \in S, c[j].episode, j < k PROVE c[k].episode
  <2>1. c[j].confidence \in Int /\ c[k].confidence \in Int
    BY <1>1 DEF Sourced, Ranking
  <2>2. c[j].tier = c[k].tier
    BY <1>1, <1>2, <2>1 DEF Sourced
  <2> QED BY <1>1, <1>2, <2>2 DEF Sourced
<1>3. \A j \in S : j < k \/ j = k \/ j > k
  BY <1>1 DEF Sourced, Ranking
<1>4. (c[k].episode \/ \E j \in S : j > k /\ c[j].episode) <=> \E j \in S : c[j].episode
  BY <1>1, <1>2, <1>3
<1> QED BY <1>4 DEF k

\* What is merged of a title does not depend on the order it was found in.
LEMMA SameCombined ==
    ASSUME NEW c, NEW d, NEW f, Sourced(c), Sourced(d), Reordered(c, d, f),
           NEW e, NEW e2, e2.file = e.file,
           NEW ref, Agreeing(c, ref) # {}
    PROVE  Combined(e2, d, Agreeing(d, ref)) = Combined(e, c, Agreeing(c, ref))
<1> DEFINE A == Agreeing(c, ref)
           B == Agreeing(d, ref)
           k == Leading(c, A)
           l == Leading(d, B)
<1>1. A \in SUBSET (DOMAIN c) /\ B \in SUBSET (DOMAIN d)
  BY DEF Agreeing
<1>2. /\ \A i \in A : f[i] \in B /\ d[f[i]] = c[i] /\ c[i].ref = ref
      /\ \A n \in B : \E i \in A : f[i] = n
      /\ \A i, j \in A : f[i] = f[j] => i = j
  BY DEF Agreeing, Reordered
<1>3. A # {} /\ B # {}
  BY <1>2
<1> HIDE DEF A, B
<1>4. k \in A /\ \A j \in A : c[k].confidence >= c[j].confidence
  BY <1>1, <1>3, LeadingIs DEF Sourced, Ranking
<1>5. l \in B /\ \A j \in B : d[l].confidence >= d[j].confidence
  BY <1>1, <1>3, LeadingIs DEF Sourced, Ranking
<1> HIDE DEF k, l
<1>6. PICK t \in A : f[t] = l
  BY <1>2, <1>5
<1>7. d[l] = c[k]
  <2>1. d[l] = c[t] /\ f[k] \in B /\ d[f[k]] = c[k] /\ c[t].ref = c[k].ref
    BY <1>2, <1>4, <1>6
  <2>2. c[t].confidence \in Int /\ c[k].confidence \in Int
    BY <1>1, <1>4, <1>6 DEF Sourced, Ranking
  <2>3. c[k].confidence >= c[t].confidence /\ c[t].confidence >= c[k].confidence
    BY <1>4, <1>5, <1>6, <2>1
  <2>4. c[t] = c[k]
    BY <1>1, <1>4, <1>6, <2>1, <2>2, <2>3 DEF Sourced
  <2> QED BY <2>1, <2>4
<1>8. (d[l].episode \/ \E j \in B : j > l /\ d[j].episode)
         <=> (c[k].episode \/ \E j \in A : j > k /\ c[j].episode)
  <2>1. (\E j \in B : d[j].episode) <=> \E j \in A : c[j].episode
    BY <1>2
  <2>2. (d[l].episode \/ \E j \in B : j > l /\ d[j].episode) <=> \E j \in B : d[j].episode
    BY <1>1, <1>3, EpisodeKept DEF l
  <2>3. (c[k].episode \/ \E j \in A : j > k /\ c[j].episode) <=> \E j \in A : c[j].episode
    BY <1>1, <1>3, EpisodeKept DEF k
  <2> QED BY <2>1, <2>2, <2>3
<1>9. Bucket(d, B) = Bucket(c, A)
  <2>1. Bucket(d, B) = [d[l] EXCEPT !.episode = d[l].episode \/ \E j \in B : j > l /\ d[j].episode]
    BY DEF Bucket, l
  <2>2. Bucket(c, A) = [c[k] EXCEPT !.episode = c[k].episode \/ \E j \in A : j > k /\ c[j].episode]
    BY DEF Bucket, k
  <2> QED BY <1>7, <1>8, <2>1, <2>2
<1>10. Cardinality(B) = Cardinality(A)
  <2> DEFINE g == [i \in A |-> f[i]]
  <2>1. g \in [A -> B] /\ (\A i, j \in A : g[i] = g[j] => i = j) /\ \A n \in B : \E i \in A : g[i] = n
    BY <1>2
  <2> HIDE DEF g
  <2>2. g \in Bijection(A, B)
    BY <2>1, Fun_IsBij
  <2>3. ExistsBijection(A, B)
    BY <2>2 DEF ExistsBijection
  <2>4. IsFiniteSet(A)
    BY <1>1, FS_Subset DEF Sourced
  <2> QED BY <2>3, <2>4, FS_Bijection
<1>11. \A x : Mismatch(e2, x) = Mismatch(e, x)
  BY DEF Mismatch
<1>12. Combined(e2, d, B) = Combined(e, c, A)
  BY <1>9, <1>10, <1>11 DEF Combined
<1> QED BY <1>12 DEF A, B


\* A title that is named has a first place where it is.
LEMMA FirstIs ==
    ASSUME NEW c, DOMAIN c \subseteq Nat, NEW i \in DOMAIN c
    PROVE  \E k \in FirstSeen(c) : c[k].ref = c[i].ref
<1> DEFINE T == {k \in DOMAIN c : c[k].ref = c[i].ref}
<1>1. T \in SUBSET Nat /\ T # {}
  OBVIOUS
<1>2. PICK k \in T : \A m \in T : k <= m
  <2> HIDE DEF T
  <2> QED BY <1>1, LeastNumber
<1>3. ASSUME NEW j \in DOMAIN c, j < k PROVE c[j].ref # c[k].ref
  <2>1. j \notin T
    BY <1>1, <1>2, <1>3
  <2> QED BY <1>2, <2>1
<1> QED BY <1>2, <1>3 DEF FirstSeen

LEMMA OneFirst ==
    ASSUME NEW c, DOMAIN c \subseteq Nat,
           NEW i \in FirstSeen(c), NEW k \in FirstSeen(c), c[i].ref = c[k].ref
    PROVE  i = k
<1>1. i \in Nat /\ k \in Nat /\ ~(i < k) /\ ~(k < i)
  BY DEF FirstSeen
<1> QED BY <1>1

LEMMA MergedRanking ==
    ASSUME NEW c, Sourced(c), NEW e
    PROVE  Ranking(mergeCandidates(e, c))
<1>1. DOMAIN mergeCandidates(e, c) = FirstSeen(c) /\ FirstSeen(c) \subseteq Nat
  BY DEF mergeCandidates, FirstSeen, Sourced, Ranking
<1>2. ASSUME NEW i \in FirstSeen(c)
      PROVE  /\ mergeCandidates(e, c)[i].confidence \in Int
             /\ mergeCandidates(e, c)[i].confidence <= 10000
  <2> DEFINE A == Agreeing(c, c[i].ref)
             k == Leading(c, A)
             best == Bucket(c, A)
             sum == Capped(best.confidence + corroborationStep * (Cardinality(A) - 1))
             conf == IF Mismatch(e, best) THEN Penalized(sum) ELSE sum
  <2>1. A \in SUBSET (DOMAIN c) /\ i \in A
    BY DEF Agreeing, FirstSeen
  <2>2. Cardinality(A) \in Nat
    BY <2>1, FS_Subset, FS_CardinalityType DEF Sourced
  <2>3. k \in DOMAIN c
    BY <2>1, LeadingIs DEF Sourced
  <2>4. /\ best = [c[k] EXCEPT !.episode = c[k].episode \/ \E j \in A : j > k /\ c[j].episode]
        /\ c[k] = [ref |-> c[k].ref, confidence |-> c[k].confidence, year |-> c[k].year,
                   episode |-> c[k].episode, tier |-> c[k].tier]
        /\ c[k].confidence \in Int
    BY <2>3 DEF Bucket, Sourced, Ranking
  <2>5. mergeCandidates(e, c)[i] = [best EXCEPT !.confidence = conf]
    BY DEF mergeCandidates, Combined
  <2> HIDE DEF A, k
  <2>6. best.confidence \in Int
    BY <2>4
  <2>7. [best EXCEPT !.confidence = conf].confidence = conf
    <3> HIDE DEF conf
    <3> QED BY <2>4
  <2> HIDE DEF best
  <2>8. sum \in Int /\ sum <= 9900
    BY <2>2, <2>6 DEF Capped, corroborationStep, corroborationCap
  <2> HIDE DEF sum
  <2>9. conf \in Int /\ conf <= 10000
    BY <2>8 DEF Penalized
  <2> HIDE DEF conf
  <2> QED BY <2>5, <2>7, <2>9
<1> QED BY <1>1, <1>2 DEF Ranking

\* The merged candidates of the one order are those of the other, in another order.
LEMMA SameMerged ==
    ASSUME NEW c, NEW d, NEW f, Sourced(c), Sourced(d), Reordered(c, d, f),
           NEW e, NEW e2, e2.file = e.file
    PROVE  \E h : Reordered(mergeCandidates(e, c), mergeCandidates(e2, d), h)
<1> DEFINE C == mergeCandidates(e, c)
           D == mergeCandidates(e2, d)
           h == [i \in FirstSeen(c) |-> CHOOSE k \in FirstSeen(d) : d[k].ref = c[i].ref]
<1>1. /\ DOMAIN C = FirstSeen(c) /\ DOMAIN D = FirstSeen(d)
      /\ \A i \in FirstSeen(c) : C[i] = Combined(e, c, Agreeing(c, c[i].ref))
      /\ \A k \in FirstSeen(d) : D[k] = Combined(e2, d, Agreeing(d, d[k].ref))
  BY DEF mergeCandidates
<1>2. /\ DOMAIN c \subseteq Nat /\ DOMAIN d \subseteq Nat
      /\ FirstSeen(c) \subseteq DOMAIN c /\ FirstSeen(d) \subseteq DOMAIN d
  BY DEF Sourced, Ranking, FirstSeen
<1>3. ASSUME NEW i \in FirstSeen(c) PROVE h[i] \in FirstSeen(d) /\ d[h[i]].ref = c[i].ref
  <2>1. f[i] \in DOMAIN d /\ d[f[i]] = c[i]
    BY <1>2 DEF Reordered
  <2>2. \E k \in FirstSeen(d) : d[k].ref = c[i].ref
    BY <1>2, <2>1, FirstIs
  <2> QED BY <2>2
<1>4. ASSUME NEW k \in FirstSeen(d) PROVE \E i \in FirstSeen(c) : h[i] = k
  <2>1. PICK j \in DOMAIN c : f[j] = k /\ d[k] = c[j]
    BY <1>2 DEF Reordered
  <2>2. PICK i \in FirstSeen(c) : c[i].ref = c[j].ref
    BY <1>2, FirstIs
  <2>3. h[i] \in FirstSeen(d) /\ d[h[i]].ref = d[k].ref
    BY <1>3, <2>1, <2>2
  <2> HIDE DEF h
  <2> QED BY <1>2, <2>3, OneFirst
<1>5. DOMAIN h = FirstSeen(c)
  OBVIOUS
<1>6. h = [i \in FirstSeen(c) |-> h[i]]
  OBVIOUS
<1> HIDE DEF h, C, D
<1>7. ASSUME NEW i \in FirstSeen(c), NEW j \in FirstSeen(c), h[i] = h[j] PROVE i = j
  <2>1. c[i].ref = c[j].ref
    BY <1>3, <1>7
  <2> QED BY <1>2, <2>1, OneFirst
<1>8. ASSUME NEW i \in FirstSeen(c) PROVE D[h[i]] = C[i]
  <2>1. D[h[i]] = Combined(e2, d, Agreeing(d, c[i].ref))
    BY <1>1, <1>3
  <2>2. Agreeing(c, c[i].ref) # {}
    BY <1>2 DEF Agreeing
  <2>3. Combined(e2, d, Agreeing(d, c[i].ref)) = Combined(e, c, Agreeing(c, c[i].ref))
    BY <2>2, SameCombined
  <2> QED BY <1>1, <2>1, <2>3
<1>9. h \in [FirstSeen(c) -> FirstSeen(d)]
  BY <1>3, <1>6
<1>10. Reordered(C, D, h)
  BY <1>1, <1>4, <1>7, <1>8, <1>9 DEF Reordered
<1> QED BY <1>10 DEF C, D

-----------------------------------------------------------------------------
(***************************************************************************)
(* The candidates of a file, and of the file with its ids the other way.   *)
(***************************************************************************)
IsEvidence(e) ==
    /\ e = [file |-> e.file, ids |-> e.ids, hits |-> e.hits, year |-> e.year,
            exact |-> e.exact]
    /\ e.ids \in Seq(ToSet(e.ids)) /\ e.hits \in Seq(ToSet(e.hits))

Mirrored(e) == [e EXCEPT !.ids = Reverse(@)]

Swapped(e, i) == IF i <= Len(e.ids) THEN Len(e.ids) + 1 - i ELSE i

LEMMA MirroredIs ==
    ASSUME NEW e, IsEvidence(e)
    PROVE  /\ IsEvidence(Mirrored(e))
           /\ Mirrored(e).file = e.file /\ Mirrored(e).hits = e.hits
           /\ Mirrored(e).year = e.year /\ Mirrored(e).exact = e.exact
           /\ Len(Mirrored(e).ids) = Len(e.ids)
           /\ \A i \in 1..Len(e.ids) : Mirrored(e).ids[Len(e.ids) + 1 - i] = e.ids[i]
<1> DEFINE n == Len(e.ids)
           r == Reverse(e.ids)
<1>1. n \in Nat /\ DOMAIN e.ids = 1..n /\ \A i \in 1..n : e.ids[i] \in ToSet(e.ids)
  BY SequenceOf DEF IsEvidence
<1>2. r = [i \in 1..n |-> e.ids[(n - i) + 1]]
  BY DEF Reverse
<1>3. Mirrored(e) = [file |-> e.file, ids |-> r, hits |-> e.hits, year |-> e.year,
                     exact |-> e.exact]
  <2> HIDE DEF r
  <2> QED BY DEF Mirrored, IsEvidence, r
<1> HIDE DEF r, n
<1>4. \A i \in 1..n : (n - i) + 1 \in 1..n /\ n + 1 - i \in 1..n
                      /\ (n - (n + 1 - i)) + 1 = i /\ n + 1 - ((n - i) + 1) = i
  BY <1>1
<1>5. r \in [1..n -> ToSet(e.ids)]
  BY <1>1, <1>2, <1>4
<1>6. r \in Seq(ToSet(e.ids)) /\ Len(r) = n
  BY <1>1, <1>5
<1>7. r \in Seq(ToSet(r))
  <2>1. r \in [1..n -> ToSet(r)]
    BY <1>5 DEF ToSet
  <2> QED BY <1>1, <2>1
<1>8. \A i \in 1..n : r[n + 1 - i] = e.ids[i]
  BY <1>2, <1>4
<1>9. IsEvidence(Mirrored(e))
  BY <1>3, <1>7 DEF IsEvidence
<1> QED BY <1>3, <1>6, <1>8, <1>9 DEF n

\* What the tiers say of a reference that they are so sure of.
Candidate(e, ref, conf) ==
    [ref |-> ref, confidence |-> conf,
     year |-> IF conf = 10000 THEN 0 ELSE e.year[ref],
     episode |-> IF conf > 9000 THEN e.file.pathEpisode ELSE e.file.hasEpisode,
     tier |-> IF conf > 9000 THEN 1 ELSE 3]

LEMMA LookedIs ==
    ASSUME NEW e, NEW id
    PROVE  /\ Looked(e, id).confidence \in {9500, 9900, 10000}
           /\ Looked(e, id) = Candidate(e, Looked(e, id).ref, Looked(e, id).confidence)
<1>1. Validated(10000) = 9900 /\ RedirectedTo(10000) = 9500
  BY DEF Validated, RedirectedTo
<1>2. CASE id.reply.kind \in {"valid", "cross"}
  BY <1>1, <1>2 DEF Looked, Candidate
<1>3. CASE id.reply.kind = "redirect"
  BY <1>1, <1>3 DEF Looked, Candidate
<1>4. CASE id.reply.kind \notin {"valid", "cross", "redirect"}
  BY <1>4 DEF Looked, Candidate
<1> QED BY <1>2, <1>3, <1>4

LEMMA ScoreIs ==
    ASSUME NEW e, NEW place \in Nat, NEW ref
    PROVE  scoreSearchResult(e, place, ref) \in Int /\ scoreSearchResult(e, place, ref) <= 7650
<1> DEFINE a == IF Len(e.hits) = 1 THEN 1000 ELSE 0
           b == IF e.file.year # 0 /\ e.year[ref] = e.file.year THEN 1500 ELSE 0
           x == IF e.exact[ref] THEN 1000 ELSE 0
<1>1. a \in {0, 1000} /\ b \in {0, 1500} /\ x \in {0, 1000}
  OBVIOUS
<1>2. scoreSearchResult(e, place, ref) = (9 * (5000 + a + b + x - 1000 * place)) \div 10
  BY DEF scoreSearchResult
<1> HIDE DEF a, b, x
<1> QED BY <1>1, <1>2

LEMMA FoundIs ==
    ASSUME NEW e, IsEvidence(e)
    PROVE  LET n == Len(e.ids)
               live == {k \in 1..n : e.ids[k].reply.kind # "dead"}
               named == {n + k : k \in 1..Len(e.hits)}
           IN  /\ n \in Nat /\ Len(e.hits) \in Nat
               /\ DOMAIN validateAgainstProvider(e) = live
               /\ DOMAIN Found(e) = live \cup named
               /\ \A i \in live : /\ validateAgainstProvider(e)[i] = Looked(e, e.ids[i])
                                  /\ Found(e)[i] = Looked(e, e.ids[i])
               /\ \A i \in named :
                     Found(e)[i] = [ref |-> e.hits[i - n],
                                    confidence |-> scoreSearchResult(e, i - n - 1, e.hits[i - n]),
                                    year |-> e.year[e.hits[i - n]],
                                    episode |-> e.file.hasEpisode, tier |-> 3]
<1> DEFINE n == Len(e.ids)
           live == {k \in 1..n : e.ids[k].reply.kind # "dead"}
           named == {n + k : k \in 1..Len(e.hits)}
           t1 == validateAgainstProvider(e)
           t3 == NameParse(e)
<1>1. /\ n \in Nat /\ DOMAIN e.ids = 1..n
      /\ Len(e.hits) \in Nat /\ DOMAIN e.hits = 1..Len(e.hits)
  BY SequenceOf DEF IsEvidence
<1>2. t1 = [i \in live |-> Looked(e, e.ids[i])]
  BY <1>1 DEF validateAgainstProvider
<1>3. t3 = [i \in named |->
             [ref |-> e.hits[i - n],
              confidence |-> scoreSearchResult(e, i - n - 1, e.hits[i - n]),
              year |-> e.year[e.hits[i - n]],
              episode |-> e.file.hasEpisode, tier |-> 3]]
  BY <1>1 DEF NameParse
<1>4. Found(e) = [i \in DOMAIN t1 \cup DOMAIN t3 |-> IF i \in DOMAIN t1 THEN t1[i] ELSE t3[i]]
  BY DEF Found
<1>5. \A i \in named : i \notin live
  BY <1>1
<1> HIDE DEF t1, t3, live, named, n
<1> QED BY <1>1, <1>2, <1>3, <1>4, <1>5 DEF n, live, named, t1

\* The numbers of the candidates, and what they are.
LEMMA FoundAre ==
    ASSUME NEW e, IsEvidence(e)
    PROVE  /\ IsFiniteSet(DOMAIN Found(e)) /\ DOMAIN Found(e) \subseteq Nat
           /\ \A i \in DOMAIN Found(e) :
                 /\ Found(e)[i].confidence \in Int /\ Found(e)[i].confidence <= 10000
                 /\ Found(e)[i] = Candidate(e, Found(e)[i].ref, Found(e)[i].confidence)
                 /\ (i <= Len(e.ids)) <=> (Found(e)[i].confidence > 9000)
<1> DEFINE n == Len(e.ids)
           live == {k \in 1..n : e.ids[k].reply.kind # "dead"}
           named == {n + k : k \in 1..Len(e.hits)}
           c == Found(e)
<1>1. /\ n \in Nat /\ Len(e.hits) \in Nat /\ DOMAIN c = live \cup named
      /\ \A i \in live : c[i] = Looked(e, e.ids[i])
      /\ \A i \in named : c[i] = [ref |-> e.hits[i - n],
                                  confidence |-> scoreSearchResult(e, i - n - 1, e.hits[i - n]),
                                  year |-> e.year[e.hits[i - n]],
                                  episode |-> e.file.hasEpisode, tier |-> 3]
  BY FoundIs
<1> HIDE DEF c, n
<1>2. live \cup named \subseteq 1..(n + Len(e.hits)) /\ n + Len(e.hits) \in Nat
  BY <1>1
<1>3. IsFiniteSet(DOMAIN c) /\ DOMAIN c \subseteq Nat
  <2>1. IsFiniteSet(1..(n + Len(e.hits)))
    BY <1>1, FS_Interval
  <2> HIDE DEF live, named
  <2> QED BY <1>1, <1>2, <2>1, FS_Subset
<1>4. ASSUME NEW i \in live
      PROVE  /\ c[i].confidence \in Int /\ c[i].confidence <= 10000
             /\ c[i] = Candidate(e, c[i].ref, c[i].confidence)
             /\ i <= n /\ c[i].confidence > 9000
  <2>1. i <= n
    BY <1>1
  <2> QED BY <1>1, <1>4, <2>1, LookedIs
<1>5. ASSUME NEW i \in named
      PROVE  /\ c[i].confidence \in Int /\ c[i].confidence <= 10000
             /\ c[i] = Candidate(e, c[i].ref, c[i].confidence)
             /\ ~(i <= n) /\ ~(c[i].confidence > 9000)
  <2>1. ~(i <= n) /\ i - n - 1 \in Nat
    BY <1>1
  <2>2. /\ c[i].ref = e.hits[i - n] /\ c[i].year = e.year[e.hits[i - n]]
        /\ c[i].confidence = scoreSearchResult(e, i - n - 1, e.hits[i - n])
        /\ c[i] = [ref |-> c[i].ref, confidence |-> c[i].confidence, year |-> c[i].year,
                   episode |-> e.file.hasEpisode, tier |-> 3]
    <3> DEFINE s == scoreSearchResult(e, i - n - 1, e.hits[i - n])
               y == e.year[e.hits[i - n]]
    <3>1. c[i] = [ref |-> e.hits[i - n], confidence |-> s, year |-> y,
                  episode |-> e.file.hasEpisode, tier |-> 3]
      <4> HIDE DEF named
      <4> QED BY <1>1, <1>5
    <3> HIDE DEF s, y
    <3>2. c[i].ref = e.hits[i - n] /\ c[i].year = y /\ c[i].confidence = s
      BY <3>1
    <3>3. c[i] = [ref |-> c[i].ref, confidence |-> c[i].confidence, year |-> c[i].year,
                  episode |-> e.file.hasEpisode, tier |-> 3]
      BY <3>1, <3>2
    <3> QED BY <3>2, <3>3 DEF s, y
  <2>3. c[i].confidence \in Int /\ c[i].confidence <= 7650
    BY <2>1, <2>2, ScoreIs
  <2>4. c[i] = Candidate(e, c[i].ref, c[i].confidence)
    BY <2>2, <2>3 DEF Candidate
  <2> QED BY <2>1, <2>3, <2>4
<1>6. \A i \in DOMAIN c : i \in live \/ i \in named
  BY <1>1
<1> HIDE DEF live, named
<1> QED BY <1>3, <1>4, <1>5, <1>6 DEF c, n

LEMMA FoundSourced ==
    ASSUME NEW e, IsEvidence(e)
    PROVE  Sourced(Found(e))
<1> DEFINE c == Found(e)
           n == Len(e.ids)
<1>1. /\ IsFiniteSet(DOMAIN c) /\ DOMAIN c \subseteq Nat
      /\ \A i \in DOMAIN c :
            /\ c[i].confidence \in Int /\ c[i].confidence <= 10000
            /\ c[i] = Candidate(e, c[i].ref, c[i].confidence)
            /\ (i <= n) <=> (c[i].confidence > 9000)
  BY FoundAre
<1>2. n \in Nat
  BY SequenceOf DEF IsEvidence
<1> HIDE DEF c, n
<1>3. \A i \in DOMAIN c :
         /\ c[i] = [ref |-> c[i].ref, confidence |-> c[i].confidence, year |-> c[i].year,
                    episode |-> c[i].episode, tier |-> c[i].tier]
         /\ c[i].tier = IF c[i].confidence > 9000 THEN 1 ELSE 3
         /\ c[i].episode = IF c[i].confidence > 9000 THEN e.file.pathEpisode ELSE e.file.hasEpisode
  BY <1>1 DEF Candidate
<1>4. ASSUME NEW i \in DOMAIN c, NEW j \in DOMAIN c
      PROVE  /\ c[i].ref = c[j].ref /\ c[i].confidence = c[j].confidence => c[i] = c[j]
             /\ c[i].tier = c[j].tier => c[i].episode = c[j].episode
             /\ i < j => c[i].tier = c[j].tier \/ c[i].confidence > c[j].confidence
  <2>1. c[i].ref = c[j].ref /\ c[i].confidence = c[j].confidence => c[i] = c[j]
    BY <1>1
  <2>2. c[i].tier = c[j].tier => c[i].episode = c[j].episode
    BY <1>3
  <2>3. ASSUME i < j, c[i].tier # c[j].tier PROVE c[i].confidence > c[j].confidence
    <3>1. i \in Nat /\ j \in Nat /\ c[i].confidence \in Int /\ c[j].confidence \in Int
      BY <1>1
    <3>2. (c[i].confidence > 9000) # (c[j].confidence > 9000)
      BY <1>3, <2>3
    <3>3. c[i].confidence > 9000 \/ ~(c[j].confidence > 9000)
      BY <1>1, <1>2, <2>3, <3>1
    <3> QED BY <3>1, <3>2, <3>3
  <2> QED BY <2>1, <2>2, <2>3
<1>5. Ranking(c)
  BY <1>1 DEF Ranking
<1>6. Sourced(c)
  BY <1>1, <1>3, <1>4, <1>5 DEF Sourced
<1> QED BY <1>6 DEF c

\* Reversing the ids reorders the candidates, of the ids alone and with the hits.
LEMMA MirroredFound ==
    ASSUME NEW e, IsEvidence(e)
    PROVE  /\ \E f : Reordered(Found(e), Found(Mirrored(e)), f)
           /\ \E f : Reordered(validateAgainstProvider(e),
                               validateAgainstProvider(Mirrored(e)), f)
<1> DEFINE m == Mirrored(e)
           n == Len(e.ids)
           swap(i) == IF i <= n THEN n + 1 - i ELSE i
           live == {k \in 1..n : e.ids[k].reply.kind # "dead"}
           mlive == {k \in 1..n : m.ids[k].reply.kind # "dead"}
           named == {n + k : k \in 1..Len(e.hits)}
           hit(i) == [ref |-> e.hits[i - n],
                      confidence |-> scoreSearchResult(e, i - n - 1, e.hits[i - n]),
                      year |-> e.year[e.hits[i - n]],
                      episode |-> e.file.hasEpisode, tier |-> 3]
           t == validateAgainstProvider(e)
           u == validateAgainstProvider(m)
           c == Found(e)
           d == Found(m)
<1>1. /\ IsEvidence(m) /\ m.file = e.file /\ m.hits = e.hits /\ m.year = e.year
      /\ m.exact = e.exact /\ Len(m.ids) = n
      /\ \A i \in 1..n : m.ids[n + 1 - i] = e.ids[i]
  BY MirroredIs
<1>2. /\ n \in Nat /\ Len(e.hits) \in Nat /\ DOMAIN t = live /\ DOMAIN c = live \cup named
      /\ \A i \in live : t[i] = Looked(e, e.ids[i]) /\ c[i] = Looked(e, e.ids[i])
      /\ \A i \in named : c[i] = hit(i)
  BY FoundIs
<1>3. \A r, h : scoreSearchResult(m, r, h) = scoreSearchResult(e, r, h)
  BY <1>1 DEF scoreSearchResult
<1>4. /\ DOMAIN u = mlive /\ DOMAIN d = mlive \cup named
      /\ \A i \in mlive : u[i] = Looked(m, m.ids[i]) /\ d[i] = Looked(m, m.ids[i])
      /\ \A i \in named : d[i] = hit(i)
  <2> DEFINE k == Len(m.ids)
             lv == {j \in 1..k : m.ids[j].reply.kind # "dead"}
             nm == {k + j : j \in 1..Len(m.hits)}
             ht(i) == [ref |-> m.hits[i - k],
                       confidence |-> scoreSearchResult(m, i - k - 1, m.hits[i - k]),
                       year |-> m.year[m.hits[i - k]],
                       episode |-> m.file.hasEpisode, tier |-> 3]
  <2> HIDE DEF m
  <2>1. /\ DOMAIN u = lv /\ DOMAIN d = lv \cup nm
        /\ \A i \in lv : u[i] = Looked(m, m.ids[i]) /\ d[i] = Looked(m, m.ids[i])
        /\ \A i \in nm : d[i] = ht(i)
    BY <1>1, FoundIs
  <2>2. k = n
    BY <1>1
  <2>3. lv = mlive /\ nm = named
    BY <1>1, <2>2
  <2>4. \A i : ht(i) = hit(i)
    BY <1>1, <1>3, <2>2
  <2> HIDE DEF k, lv, nm, ht, hit, mlive, named, u, d
  <2> QED BY <2>1, <2>3, <2>4
<1>5. \A id : Looked(m, id) = Looked(e, id)
  BY <1>1 DEF Looked
<1> HIDE DEF t, u, c, d, hit, m, n
<1>6. \A i \in live : /\ swap(i) \in mlive /\ swap(swap(i)) = i
                      /\ u[swap(i)] = t[i] /\ d[swap(i)] = c[i]
  <2> TAKE i \in live
  <2>1. i \in 1..n /\ swap(i) = n + 1 - i /\ swap(i) \in 1..n /\ swap(swap(i)) = i
    BY <1>2
  <2>2. m.ids[swap(i)] = e.ids[i]
    BY <1>1, <2>1
  <2>3. swap(i) \in mlive
    BY <2>1, <2>2
  <2> HIDE DEF swap, live, mlive
  <2> QED BY <1>2, <1>4, <1>5, <2>1, <2>2, <2>3
<1>7. \A k \in mlive : swap(k) \in live /\ swap(swap(k)) = k
  <2> TAKE k \in mlive
  <2>1. k \in 1..n /\ swap(k) = n + 1 - k /\ swap(k) \in 1..n /\ swap(swap(k)) = k
    BY <1>2
  <2>2. n + 1 - swap(k) = k
    BY <1>2, <2>1
  <2>3. m.ids[k] = e.ids[swap(k)]
    BY <1>1, <2>1, <2>2
  <2> QED BY <2>1, <2>3
<1>8. \A i \in named : swap(i) = i /\ d[i] = c[i]
  <2> TAKE i \in named
  <2>1. ~(i <= n)
    BY <1>2
  <2> QED BY <1>2, <1>4, <2>1
<1> HIDE DEF swap, live, mlive, named
<1>9. Reordered(t, u, [i \in live |-> swap(i)])
  <2> DEFINE f == [i \in live |-> swap(i)]
  <2>1. f \in [live -> mlive] /\ \A i \in live : f[i] = swap(i)
    BY <1>6
  <2> HIDE DEF f
  <2>2. \A i, j \in live : f[i] = f[j] => i = j
    BY <1>6, <2>1
  <2>3. \A k \in mlive : \E i \in live : f[i] = k
    BY <1>7, <2>1
  <2>4. Reordered(t, u, f)
    BY <1>2, <1>4, <1>6, <2>1, <2>2, <2>3 DEF Reordered
  <2> QED BY <2>4 DEF f
<1>10. Reordered(c, d, [i \in live \cup named |-> swap(i)])
  <2> DEFINE f == [i \in live \cup named |-> swap(i)]
  <2>1. /\ f \in [live \cup named -> mlive \cup named]
        /\ \A i \in live \cup named : f[i] = swap(i) /\ swap(swap(i)) = i
    BY <1>6, <1>8
  <2> HIDE DEF f
  <2>2. \A i, j \in live \cup named : f[i] = f[j] => i = j
    BY <2>1
  <2>3. \A k \in mlive \cup named : \E i \in live \cup named : f[i] = k
    BY <1>7, <1>8, <2>1
  <2>4. \A i \in live \cup named : d[f[i]] = c[i]
    BY <1>6, <1>8, <2>1
  <2>5. Reordered(c, d, f)
    BY <1>2, <1>4, <2>1, <2>2, <2>3, <2>4 DEF Reordered
  <2> QED BY <2>5 DEF f
<1> QED BY <1>9, <1>10 DEF t, u, c, d, m

LEMMA ValidatedRanking ==
    ASSUME NEW e, IsEvidence(e)
    PROVE  Ranking(validateAgainstProvider(e))
<1> DEFINE n == Len(e.ids)
           live == {k \in 1..n : e.ids[k].reply.kind # "dead"}
           t == validateAgainstProvider(e)
<1>1. n \in Nat /\ DOMAIN t = live /\ \A i \in live : t[i] = Looked(e, e.ids[i])
  BY FoundIs
<1>2. live \subseteq Nat
  BY <1>1
<1> HIDE DEF t, live
<1>3. \A i \in live : t[i].confidence \in Int /\ t[i].confidence <= 10000
  BY <1>1, LookedIs
<1>4. DOMAIN t \subseteq Nat
  BY <1>1, <1>2
<1>5. \A i \in DOMAIN t : t[i].confidence \in Int /\ t[i].confidence <= 10000
  BY <1>1, <1>3
<1>6. Ranking(t)
  BY <1>4, <1>5 DEF Ranking
<1> QED BY <1>6 DEF t

\* A certain record is the same whichever way the ids are read.
LEMMA AggregateMirrored ==
    ASSUME NEW e, IsEvidence(e), Aggregate(e).outcome \in Certain
    PROVE  Aggregate(Mirrored(e)) = Aggregate(e)
<1> DEFINE m == Mirrored(e)
           t == validateAgainstProvider(e)
           u == validateAgainstProvider(m)
<1>1. IsEvidence(m) /\ m.file = e.file
  BY MirroredIs
<1>2. PICK f : Reordered(t, u, f)
  BY MirroredFound
<1>3. PICK g : Reordered(Found(e), Found(m), g)
  BY MirroredFound
<1> HIDE DEF m
<1>4. Ranking(t) /\ Ranking(u)
  BY <1>1, ValidatedRanking
<1> HIDE DEF t, u
<1>5. DOMAIN t # {} => /\ DOMAIN u # {}
                       /\ u[Top(u)].confidence = t[Top(t)].confidence
                       /\ Tied(u) <=> Tied(t)
  BY <1>2, <1>4, SameTop
<1>6. DOMAIN u # {} => DOMAIN t # {}
  BY <1>2 DEF Reordered
<1>7. dominantAbove(u, Thresholds.Auto) <=> dominantAbove(t, Thresholds.Auto)
  BY <1>5, <1>6 DEF dominantAbove
<1>8. CASE dominantAbove(t, Thresholds.Auto)
  <2>1. Candidates(e) = t /\ Candidates(m) = u
    BY <1>7, <1>8 DEF Candidates, t, u
  <2>2. bandAndRecord(e, t).outcome \in Certain
    BY <2>1 DEF Aggregate
  <2>3. bandAndRecord(m, u) = bandAndRecord(e, t)
    BY <1>1, <1>2, <1>4, <2>2, SameRecord
  <2> QED BY <2>1, <2>3 DEF Aggregate, m
<1>9. CASE ~dominantAbove(t, Thresholds.Auto)
  <2> DEFINE C == mergeCandidates(e, Found(e))
             D == mergeCandidates(m, Found(m))
  <2>1. Candidates(e) = C /\ Candidates(m) = D
    BY <1>7, <1>9 DEF Candidates, t, u
  <2>2. Sourced(Found(e)) /\ Sourced(Found(m))
    BY <1>1, FoundSourced
  <2>3. Ranking(C) /\ Ranking(D)
    BY <2>2, MergedRanking
  <2>4. PICK h : Reordered(C, D, h)
    BY <1>1, <1>3, <2>2, SameMerged
  <2> HIDE DEF C, D
  <2>5. bandAndRecord(e, C).outcome \in Certain
    BY <2>1 DEF Aggregate
  <2>6. bandAndRecord(m, D) = bandAndRecord(e, C)
    BY <1>1, <2>3, <2>4, <2>5, SameRecord
  <2> QED BY <2>1, <2>6 DEF Aggregate, m
<1> QED BY <1>8, <1>9

\* A record that is kept is that of the evidence.
MatchInv == record = NoRecord \/ (evidence \in Evidence /\ record = Aggregate(evidence))

LEMMA Matched == MatchSpec => []MatchInv
<1>1. MatchInit => MatchInv
  BY DEF MatchInit, MatchInv
<1>2. ASSUME MatchInv, [MatchNext]_matchVars PROVE MatchInv'
  <2>1. CASE \E e \in Evidence : MatchFile(e)
    BY <2>1 DEF MatchFile, MatchInv
  <2>2. CASE Recorded
    BY <2>2 DEF Recorded, MatchInv
  <2>3. CASE UNCHANGED matchVars
    BY <1>2, <2>3 DEF matchVars, MatchInv
  <2> QED BY <1>2, <2>1, <2>2, <2>3 DEF MatchNext
<1> QED BY <1>1, <1>2, PTL DEF MatchSpec

\* For any number of ids in a path and of hits: the order of the ids never decides
\* which title a file is taken for, unless the record is a partial series or
\* ambiguous (matcher.Aggregate).
THEOREM IdOrderFree == MatchSpec => []OrderFree
<1>1. ASSUME MatchInv PROVE OrderFree
  <2> SUFFICES ASSUME record.outcome \in Certain
               PROVE  Aggregate([evidence EXCEPT !.ids = Reverse(@)]) = record
    BY DEF OrderFree, Certain
  <2>1. record # NoRecord
    <3>1. NoRecord.outcome = "none"
      BY DEF NoRecord
    <3> QED BY <3>1 DEF Certain
  <2>2. evidence \in Evidence /\ record = Aggregate(evidence)
    BY <1>1, <2>1 DEF MatchInv
  <2>3. IsEvidence(evidence)
    BY <2>2, EvidenceAssumption DEF IsEvidence
  <2> QED BY <2>2, <2>3, AggregateMirrored DEF Mirrored
<1> QED BY <1>1, Matched, PTL

-----------------------------------------------------------------------------
(***************************************************************************)
(* The library.  Only Settled is inductive by itself.  Audited needs that  *)
(* whatever is about to be written as an identity has a decision behind it *)
(* (Backed); DecidedOnce that the files a scan has still to decide have    *)
(* not been decided by one (Undecided).                                    *)
(***************************************************************************)
ScanType ==
    [pc : {"idle", "load", "walk", "work", "create", "supersede", "commit"},
     known : SUBSET Paths, todo : SUBSET Paths, refs : SUBSET Files,
     out : SUBSET [file : Files, ref : Refs], path : Paths \cup {None},
     one : [file : Files \cup {None}, ref : Refs \cup {None}], d : Nat, needs : BOOLEAN]
ReqType ==
    [pc : {"idle", "insert", "supersede", "match", "unmatch", "detach", "commit"},
     kind : {"match", "unmatch", "detach"}, file : Files \cup {None},
     ref : Refs \cup {None}, d : Nat, needs : BOOLEAN]
FileType ==
    [path : Paths \cup {None}, live : BOOLEAN, ref : Refs \cup {None}, grab : Refs \cup {None}]
ImpType == [pc : {"idle", "commit"}, path : Paths \cup {None}, ref : Refs \cup {None}]

Types ==
    /\ disk \subseteq Paths
    /\ file \in [Files -> FileType]
    /\ decision \in Seq(Decision)
    /\ items \subseteq Refs
    /\ running = (scan.pc /= "idle")
    /\ scan \in ScanType
    /\ req \in [Operators -> ReqType]
    /\ imp \in ImpType

\* What a step of a scan, a request or an import is about.
Aimed ==
    /\ scan.pc = "commit" => scan.one \in [file : Files, ref : Refs]
    /\ scan.pc = "create" => scan.path \in Paths
    /\ \A u \in Operators :
         /\ req[u].pc # "idle" => req[u].file \in Files /\ req[u].d <= Len(decision)
         /\ req[u].pc = "idle" => req[u].d = 0
         /\ req[u].pc # "idle" /\ req[u].kind = "match" => req[u].ref \in Refs
         /\ req[u].pc \in {"match", "commit"} => req[u].kind = "match"
    /\ imp.pc = "commit" => imp.path \in Paths /\ imp.ref \in Refs

Used(f) == file[f].path # None
Chosen(f, ref) == \E d \in DOMAIN decision : decision[d].file = f /\ decision[d].ref = ref

\* Rows are inserted before they are decided or written.
Rows ==
    /\ \A f \in Files : ~Used(f) => file[f] = NoRow
    /\ \A f \in scan.refs : Used(f)
    /\ \A u \in Operators : req[u].pc # "idle" => Used(req[u].file)
    /\ \A d \in DOMAIN decision : Used(decision[d].file)

\* The identities about to be written have been decided.
Backed ==
    /\ \A o \in scan.out : Chosen(o.file, o.ref)
    /\ scan.pc = "commit" => Chosen(scan.one.file, scan.one.ref)
    /\ \A u \in Operators : req[u].pc \in {"supersede", "match", "commit"} =>
          Chosen(req[u].file, req[u].ref)

\* No scan has decided the files that this one has still to decide: those at
\* the paths that had no row when it began.
Scanned(f) == \E d \in DOMAIN decision : decision[d].file = f /\ decision[d].by = "auto"
Undecided ==
    /\ \A f \in scan.refs : ~Scanned(f)
    /\ \A p \in scan.todo : \A f \in LiveAt(p) : ~Scanned(f)
    /\ scan.pc = "walk" => \A p \in Paths \ scan.known : \A f \in LiveAt(p) : ~Scanned(f)
    /\ scan.pc \in {"load", "walk"} => scan.todo = {}
    /\ scan.pc \in {"supersede", "commit"} => scan.todo = {}
    /\ scan.pc = "create" => scan.path \in scan.todo

IInv == Types /\ Aimed /\ Rows /\ Audited /\ Backed /\ Settled /\ Undecided /\ DecidedOnce

-----------------------------------------------------------------------------
LEMMA InitInv == Init => IInv
<1> SUFFICES ASSUME Init PROVE IInv
  OBVIOUS
<1> USE DEF Init
<1>1. decision = <<>> /\ Len(decision) = 0 /\ DOMAIN decision = {} /\ decision \in Seq(Decision)
  OBVIOUS
<1>2. Types
  BY <1>1, LibraryAssumption
     DEF Types, FileType, NoRow, ScanType, ScanIdle, ReqType, ReqIdle, ImpType, ImpIdle
<1>3. Aimed
  BY DEF Aimed, ScanIdle, ReqIdle, ImpIdle
<1>4. Rows /\ Audited /\ Backed /\ Settled /\ Undecided /\ DecidedOnce
  BY <1>1 DEF Rows, Audited, Backed, Settled, Undecided, DecidedOnce, Used, NoRow, Of, ScanIdle, ReqIdle
<1> QED BY <1>2, <1>3, <1>4 DEF IInv

-----------------------------------------------------------------------------
(* The statements. *)

\* Decisions are only ever added, and only their two flags are changed.
Kept ==
    /\ DOMAIN decision \subseteq DOMAIN decision'
    /\ \A d \in DOMAIN decision : /\ decision'[d].file = decision[d].file
                                  /\ decision'[d].ref = decision[d].ref
                                  /\ decision'[d].by = decision[d].by

Inserted(f, ref, by) ==
    /\ Len(decision') = Len(decision) + 1
    /\ DOMAIN decision' = 1..Len(decision) + 1 /\ DOMAIN decision = 1..Len(decision)
    /\ \A d \in DOMAIN decision : decision'[d] = decision[d]
    /\ decision'[Len(decision) + 1] =
         [file |-> f, ref |-> ref, by |-> by, superseded |-> FALSE, settled |-> FALSE]

LEMMA InsertFacts ==
    ASSUME decision \in Seq(Decision), NEW f \in Files, NEW ref \in Refs \cup {None},
           NEW by \in {"auto", "user"}, InsertMatchDecision(f, ref, by)
    PROVE  decision' \in Seq(Decision) /\ Kept /\ Inserted(f, ref, by)
<1> DEFINE new == [file |-> f, ref |-> ref, by |-> by, superseded |-> FALSE, settled |-> FALSE]
<1>1. new \in Decision
  BY DEF Decision
<1>2. decision' = Append(decision, new)
  BY DEF InsertMatchDecision
<1> HIDE DEF new
<1>3. /\ decision' \in Seq(Decision) /\ Len(decision') = Len(decision) + 1
      /\ \A i \in 1..Len(decision) : decision'[i] = decision[i]
      /\ decision'[Len(decision) + 1] = new
  BY <1>1, <1>2, AppendProperties
<1>4. DOMAIN decision' = 1..Len(decision) + 1 /\ DOMAIN decision = 1..Len(decision)
  BY <1>3
<1> QED BY <1>3, <1>4 DEF Kept, Inserted, new

Superseding(d) ==
    /\ DOMAIN decision' = DOMAIN decision /\ Len(decision') = Len(decision)
    /\ \A j \in DOMAIN decision :
         /\ decision[j].superseded => decision'[j].superseded
         /\ j # d => decision'[j].settled = decision[j].settled
         /\ j # d /\ decision[j].file = decision[d].file => decision'[j].superseded

Superseded(r) == [r EXCEPT !.superseded = TRUE]
Settling(r) == [r EXCEPT !.settled = TRUE]

LEMMA FlagWrites ==
    ASSUME NEW r \in Decision
    PROVE  /\ Superseded(r) \in Decision /\ Settling(r) \in Decision
           /\ Superseded(r).superseded /\ Superseded(r).settled = r.settled
           /\ Superseded(r).file = r.file /\ Superseded(r).ref = r.ref /\ Superseded(r).by = r.by
           /\ Settling(r).superseded = r.superseded
           /\ Settling(r).file = r.file /\ Settling(r).ref = r.ref /\ Settling(r).by = r.by
  BY DEF Decision, Superseded, Settling

LEMMA SupersedeFacts ==
    ASSUME decision \in Seq(Decision), NEW d, SupersedeMatchDecision(d)
    PROVE  decision' \in Seq(Decision) /\ Kept /\ Superseding(d)
<1>1. decision' = [j \in DOMAIN decision |->
                     IF j = d THEN Settling(decision[j])
                     ELSE IF decision[j].file = decision[d].file
                          THEN Superseded(decision[j]) ELSE decision[j]]
  BY DEF SupersedeMatchDecision, Settling, Superseded
<1>2. DOMAIN decision = 1..Len(decision) /\ Len(decision) \in Nat
  OBVIOUS
<1>3. \A j \in DOMAIN decision : decision[j] \in Decision
  BY ElementOfSeq, <1>2
<1>4. \A j \in DOMAIN decision : decision'[j] \in Decision
  BY <1>1, <1>3, FlagWrites
<1>5. decision' \in [1..Len(decision) -> Decision]
  BY <1>1, <1>2, <1>4
<1>6. decision' \in Seq(Decision) /\ Len(decision') = Len(decision)
  BY <1>2, <1>5
<1>7. DOMAIN decision' = DOMAIN decision
  BY <1>1
<1>8. ASSUME NEW j \in DOMAIN decision
      PROVE  /\ decision'[j].file = decision[j].file
             /\ decision'[j].ref = decision[j].ref
             /\ decision'[j].by = decision[j].by
             /\ decision[j].superseded => decision'[j].superseded
             /\ j # d => decision'[j].settled = decision[j].settled
             /\ j # d /\ decision[j].file = decision[d].file => decision'[j].superseded
  BY <1>1, <1>3, FlagWrites
<1> QED BY <1>6, <1>7, <1>8 DEF Kept, Superseding

LEMMA InvTypes ==
    ASSUME IInv
    PROVE  /\ Types /\ decision \in Seq(Decision) /\ file \in [Files -> FileType]
           /\ scan \in ScanType /\ req \in [Operators -> ReqType] /\ imp \in ImpType
           /\ Len(decision) \in Nat /\ DOMAIN decision = 1..Len(decision)
  BY DEF IInv, Types

\* What a step does to the decisions.
LEMMA DecisionStep ==
    ASSUME IInv, [Next]_vars
    PROVE  /\ decision' \in Seq(Decision) /\ Kept
           /\ \/ decision' = decision
              \/ \E f \in scan.refs, ref \in Refs \cup {None} :
                    Match(f, ref) /\ Inserted(f, ref, "auto")
              \/ \E u \in Operators :
                    InsertUserDecision(u) /\ Inserted(req[u].file, req[u].ref, "user")
              \/ \E d : Superseding(d)
<1> USE InvTypes
<1> DEFINE P == /\ decision' \in Seq(Decision) /\ Kept
                /\ \/ decision' = decision
                   \/ \E f \in scan.refs, ref \in Refs \cup {None} :
                         Match(f, ref) /\ Inserted(f, ref, "auto")
                   \/ \E u \in Operators :
                         InsertUserDecision(u) /\ Inserted(req[u].file, req[u].ref, "user")
                   \/ \E d : Superseding(d)
<1>1. decision' = decision => P
  BY DEF Kept
<1>2. ASSUME NEW f \in Files, NEW ref \in Refs \cup {None}, Match(f, ref) PROVE P
  BY <1>2, InsertFacts DEF Match
<1>3. MatchSupersede => P
  BY SupersedeFacts DEF MatchSupersede
<1>4. ASSUME NEW u \in Operators, InsertUserDecision(u) PROVE P
  <2>1. req[u].file \in Files /\ req[u].ref \in Refs \cup {None}
    BY <1>4 DEF InsertUserDecision, IInv, Aimed, ReqType
  <2> QED BY <1>4, <2>1, InsertFacts DEF InsertUserDecision
<1>5. ASSUME NEW u \in Operators, SupersedeUser(u) PROVE P
  BY <1>5, SupersedeFacts DEF SupersedeUser
<1>6. ASSUME NEW u \in Operators,
             \/ commitManualMatch(u) \/ CommitUser(u) \/ ClearFileIdentity(u) \/ SoftDeleteFile(u)
             \/ RequestFails(u)
             \/ \E f \in Files : (\E ref \in Refs : MatchByID(u, f, ref)) \/ Unmatch(u, f) \/ Detach(u, f)
      PROVE  decision' = decision
  BY <1>6 DEF commitManualMatch, CommitUser, ClearFileIdentity, SoftDeleteFile,
              RequestFails, MatchByID, Unmatch, Detach, GetFile
<1>7. StartScan \/ loadKnownPaths \/ WalkDir \/ EnsureFileRow \/ PersistCommit \/ ScanEnd \/ PersistFails
      \/ (\E p \in Paths : GetFileByLibraryAndPath(p)) \/ (\E o \in scan.out : Persist(o))
      => decision' = decision
  BY DEF StartScan, loadKnownPaths, WalkDir, EnsureFileRow, PersistCommit, ScanEnd, PersistFails,
         GetFileByLibraryAndPath, Persist
<1>8. Import \/ Crash \/ UNCHANGED vars => decision' = decision
  BY DEF Import, Place, ImportCommit, ImportFails, Crash, vars
<1> QED BY <1>1, <1>2, <1>3, <1>4, <1>5, <1>6, <1>7, <1>8 DEF Next, ScanWork, Operator

\* What a step does to a file row: it is inserted under a path that has none,
\* gets an identity that was decided, loses it, or is detached.
Created(f, p, ref) ==
    /\ file[f] = NoRow /\ p \in Paths /\ ref \in Refs \cup {None} /\ LiveAt(p) = {}
    /\ file'[f] = [path |-> p, live |-> TRUE, ref |-> ref, grab |-> ref]
Identified(r, ref) == [r EXCEPT !.ref = ref]
Detached(r) == [r EXCEPT !.live = FALSE]

FileStep(f) ==
    \/ file'[f] = file[f]
    \/ \E p \in Paths, ref \in Refs \cup {None} : Created(f, p, ref)
    \/ \E ref \in Refs : Chosen(f, ref) /\ file'[f] = Identified(file[f], ref)
    \/ file'[f] = Identified(file[f], None)
    \/ file'[f] = Detached(file[f])

LEMMA CreateStep ==
    ASSUME IInv, NEW p \in Paths, NEW ref \in Refs \cup {None}, CanCreateFile(p), CreateFile(p, ref)
    PROVE  \E f \in Files :
              /\ Created(f, p, ref)
              /\ file' = [file EXCEPT ![f] = [path |-> p, live |-> TRUE, ref |-> ref, grab |-> ref]]
<1> DEFINE f == CHOOSE x \in Unused : TRUE
<1>1. f \in Unused
  BY DEF CreateFile
<1>2. f \in Files /\ file[f] = NoRow
  BY <1>1 DEF Unused
<1>3. file' = [file EXCEPT ![f] = [path |-> p, live |-> TRUE, ref |-> ref, grab |-> ref]]
  BY DEF CreateFile
<1> HIDE DEF f
<1> QED BY <1>2, <1>3, InvTypes DEF Created, CanCreateFile

LEMMA CommitStep ==
    ASSUME IInv, NEW f \in Files, NEW ref \in Refs, NEW needs, Chosen(f, ref), CommitMatch(f, ref, needs)
    PROVE  /\ items' \subseteq Refs /\ \A g \in Files : FileStep(g)
           /\ file' = file \/ file' = [file EXCEPT ![f] = Identified(file[f], ref)]
<1>1. items \subseteq Refs
  BY DEF IInv, Types
<1>2. \/ UNCHANGED <<file, items>>
      \/ file' = [file EXCEPT ![f] = Identified(file[f], ref)] /\ items' = items \cup {ref}
  BY DEF CommitMatch, Identified
<1> QED BY <1>1, <1>2, InvTypes DEF FileStep

LEMMA FileWrites ==
    ASSUME NEW r \in FileType
    PROVE  /\ \A ref \in Refs \cup {None} :
                /\ Identified(r, ref) \in FileType
                /\ Identified(r, ref).path = r.path /\ Identified(r, ref).live = r.live
                /\ Identified(r, ref).grab = r.grab /\ Identified(r, ref).ref = ref
           /\ Detached(r) \in FileType
           /\ Detached(r).path = r.path /\ ~Detached(r).live
           /\ Detached(r).grab = r.grab /\ Detached(r).ref = r.ref
  BY DEF FileType, Identified, Detached

\* Every step of a file row, and that its table keeps its type.
LEMMA FileSteps ==
    ASSUME IInv, [Next]_vars
    PROVE  /\ file' \in [Files -> FileType] /\ items' \subseteq Refs
           /\ \A f \in Files : FileStep(f)
<1> USE InvTypes
<1> DEFINE P == /\ file' \in [Files -> FileType] /\ items' \subseteq Refs
                /\ \A f \in Files : FileStep(f)
<1>0. items \subseteq Refs
  BY DEF IInv, Types
<1>1. UNCHANGED <<file, items>> => P
  BY <1>0 DEF FileStep
<1>2. ASSUME NEW p \in Paths, NEW ref \in Refs \cup {None}, CanCreateFile(p), CreateFile(p, ref)
      PROVE  file' \in [Files -> FileType] /\ \A f \in Files : FileStep(f)
  <2>1. PICK f \in Files :
              /\ Created(f, p, ref)
              /\ file' = [file EXCEPT ![f] = [path |-> p, live |-> TRUE, ref |-> ref, grab |-> ref]]
    BY <1>2, CreateStep
  <2>2. [path |-> p, live |-> TRUE, ref |-> ref, grab |-> ref] \in FileType
    BY DEF FileType
  <2> QED BY <2>1, <2>2 DEF FileStep
<1>3. ASSUME NEW f \in Files, NEW ref \in Refs, NEW needs, Chosen(f, ref), CommitMatch(f, ref, needs)
      PROVE  P
  <2>1. Identified(file[f], ref) \in FileType
    BY FileWrites
  <2> QED BY <1>3, <2>1, CommitStep
<1>4. EnsureFileRow => P
  <2> SUFFICES ASSUME EnsureFileRow PROVE P
    OBVIOUS
  <2>1. scan.path \in Paths /\ CanCreateFile(scan.path) /\ CreateFile(scan.path, None) /\ UNCHANGED items
    BY DEF EnsureFileRow, IInv, Aimed
  <2> QED BY <1>0, <1>2, <2>1
<1>5. ImportCommit => P
  <2> SUFFICES ASSUME ImportCommit PROVE P
    OBVIOUS
  <2>1. imp.path \in Paths /\ imp.ref \in Refs /\ UNCHANGED items
    BY DEF ImportCommit, IInv, Aimed
  <2>2. CASE CanCreateFile(imp.path)
    BY <1>0, <1>2, <2>1, <2>2 DEF ImportCommit
  <2>3. CASE ~CanCreateFile(imp.path)
    BY <1>1, <2>1, <2>3 DEF ImportCommit
  <2> QED BY <2>2, <2>3
<1>6. PersistCommit => P
  <2> SUFFICES ASSUME PersistCommit PROVE P
    OBVIOUS
  <2>1. scan.one.file \in Files /\ scan.one.ref \in Refs /\ Chosen(scan.one.file, scan.one.ref)
    BY DEF PersistCommit, IInv, Aimed, Backed
  <2> QED BY <1>3, <2>1 DEF PersistCommit
<1>7. ASSUME NEW u \in Operators, CommitUser(u) PROVE P
  <2>1. req[u].file \in Files /\ req[u].ref \in Refs /\ Chosen(req[u].file, req[u].ref)
    BY <1>7 DEF CommitUser, IInv, Aimed, Backed
  <2> QED BY <1>3, <1>7, <2>1 DEF CommitUser
<1>8. ASSUME NEW u \in Operators, ClearFileIdentity(u) PROVE P
  <2>1. file' = [file EXCEPT ![req[u].file] = Identified(file[req[u].file], None)] /\ UNCHANGED items
    BY <1>8 DEF ClearFileIdentity, Identified
  <2>2. req[u].file \in Files
    BY <1>8 DEF ClearFileIdentity, IInv, Aimed
  <2>3. Identified(file[req[u].file], None) \in FileType
    BY <2>2, FileWrites
  <2> QED BY <1>0, <2>1, <2>2, <2>3 DEF FileStep
<1>9. ASSUME NEW u \in Operators, SoftDeleteFile(u) PROVE P
  <2>1. file' = [file EXCEPT ![req[u].file] = Detached(file[req[u].file])] /\ UNCHANGED items
    BY <1>9 DEF SoftDeleteFile, Detached
  <2>2. req[u].file \in Files
    BY <1>9 DEF SoftDeleteFile, IInv, Aimed
  <2>3. Detached(file[req[u].file]) \in FileType
    BY <2>2, FileWrites
  <2> QED BY <1>0, <2>1, <2>2, <2>3 DEF FileStep
<1>10. ASSUME NEW p \in Paths, NEW ref \in Refs, Place(p, ref) PROVE P
  BY <1>0, <1>10 DEF Place, FileStep
<1>11. ASSUME NEW u \in Operators,
             \/ commitManualMatch(u) \/ InsertUserDecision(u) \/ SupersedeUser(u) \/ RequestFails(u)
             \/ \E f \in Files : (\E ref \in Refs : MatchByID(u, f, ref)) \/ Unmatch(u, f) \/ Detach(u, f)
      PROVE  UNCHANGED <<file, items>>
  BY <1>11 DEF commitManualMatch, InsertUserDecision, SupersedeUser,
               RequestFails, MatchByID, Unmatch, Detach, GetFile
<1>12. StartScan \/ loadKnownPaths \/ WalkDir \/ MatchSupersede \/ ScanEnd \/ PersistFails
       \/ (\E p \in Paths : GetFileByLibraryAndPath(p)) \/ (\E o \in scan.out : Persist(o))
       \/ (\E f \in Files, ref \in Refs \cup {None} : Match(f, ref))
       => UNCHANGED <<file, items>>
  BY DEF StartScan, loadKnownPaths, WalkDir, MatchSupersede, ScanEnd, PersistFails,
         GetFileByLibraryAndPath, Persist, Match
<1>13. ImportFails \/ Crash \/ UNCHANGED vars => UNCHANGED <<file, items>>
  BY DEF ImportFails, Crash, vars
<1> QED BY <1>1, <1>4, <1>5, <1>6, <1>7, <1>8, <1>9, <1>10, <1>11, <1>12, <1>13
        DEF Next, ScanWork, Operator, Import

\* The columns of a row after a step.
LEMMA FileAfter ==
    ASSUME IInv, [Next]_vars, NEW f \in Files
    PROVE  LET old == file[f] new == file'[f] IN
           \/ /\ Used(f) /\ new.path = old.path /\ new.grab = old.grab /\ (new.live => old.live)
              /\ new.ref \in {old.ref, None} \/ Chosen(f, new.ref)
           \/ ~Used(f) /\ new = old /\ old = NoRow
           \/ ~Used(f) /\ \E p \in Paths, ref \in Refs \cup {None} : Created(f, p, ref)
<1>1. FileStep(f) /\ file[f] \in FileType
  BY FileSteps, InvTypes
<1>2. ASSUME Used(f)
      PROVE  /\ file'[f].path = file[f].path /\ file'[f].grab = file[f].grab
             /\ file'[f].live => file[f].live
             /\ file'[f].ref \in {file[f].ref, None} \/ Chosen(f, file'[f].ref)
  <2>1. file[f] # NoRow
    BY <1>2 DEF Used, NoRow
  <2>2. CASE file'[f] = file[f]
    BY <2>2
  <2>3. ASSUME NEW ref \in Refs, Chosen(f, ref), file'[f] = Identified(file[f], ref)
        PROVE  /\ file'[f].path = file[f].path /\ file'[f].grab = file[f].grab
               /\ file'[f].live = file[f].live /\ file'[f].ref = ref
    <3>1. ref \in Refs \cup {None}
      OBVIOUS
    <3> QED BY <1>1, <2>3, <3>1, FileWrites
  <2>4. CASE file'[f] = Identified(file[f], None)
    <3>1. /\ file'[f].path = file[f].path /\ file'[f].grab = file[f].grab
          /\ file'[f].live = file[f].live /\ file'[f].ref = None
      BY <1>1, <2>4, FileWrites
    <3> QED BY <3>1
  <2>5. CASE file'[f] = Detached(file[f])
    <3>1. /\ file'[f].path = file[f].path /\ file'[f].grab = file[f].grab
          /\ ~file'[f].live /\ file'[f].ref = file[f].ref
      BY <1>1, <2>5, FileWrites
    <3> QED BY <3>1
  <2> QED BY <1>1, <2>1, <2>2, <2>3, <2>4, <2>5 DEF FileStep, Created
<1>3. ASSUME ~Used(f)
      PROVE  \/ file'[f] = file[f] /\ file[f] = NoRow
             \/ \E p \in Paths, ref \in Refs \cup {None} : Created(f, p, ref)
  <2>1. file[f] = NoRow
    BY <1>3 DEF IInv, Rows
  <2>2. ~\E ref \in Refs : Chosen(f, ref)
    BY <1>3 DEF IInv, Rows, Chosen
  <2>3. Identified(NoRow, None) = NoRow /\ Detached(NoRow) = NoRow
    <3>1. NoRow.ref = None /\ NoRow.live = FALSE /\ NoRow \in FileType
      BY DEF NoRow, FileType
    <3> QED BY <3>1 DEF Identified, Detached, FileType
  <2> QED BY <1>1, <2>1, <2>2, <2>3 DEF FileStep
<1> QED BY <1>2, <1>3

LEMMA ChosenKept ==
    ASSUME Kept, NEW f, NEW ref, Chosen(f, ref)
    PROVE  Chosen(f, ref)'
  BY DEF Chosen, Kept

LEMMA UsedKept ==
    ASSUME IInv, [Next]_vars, NEW f \in Files, Used(f)
    PROVE  Used(f)'
  BY FileAfter DEF Used

-----------------------------------------------------------------------------
(* The invariants, step by step. *)

LEMMA AuditedStep ==
    ASSUME IInv, [Next]_vars
    PROVE  Audited'
<1> SUFFICES ASSUME NEW f \in Files
             PROVE  file'[f].ref \in {None, file'[f].grab} \/ Chosen(f, file[f].ref)'
  <2>1. \A g \in Files : Chosen(g, file[g].ref)' <=>
            file'[g].ref \in {decision'[d].ref : d \in Of(g)'}
    BY DEF Of, Chosen
  <2> QED BY <2>1 DEF Audited
<1>1. file[f].ref \in {None, file[f].grab} \/ Chosen(f, file[f].ref)
  BY DEF IInv, Audited, Of, Chosen
<1>2. Kept
  BY DecisionStep
<1>3. CASE Used(f)
  <2>1. /\ file'[f].grab = file[f].grab
        /\ file'[f].ref \in {file[f].ref, None} \/ Chosen(f, file'[f].ref)
    BY <1>3, FileAfter
  <2>2. Chosen(f, file'[f].ref) => Chosen(f, file[f].ref)'
    BY <1>2 DEF Chosen, Kept
  <2>3. Chosen(f, file[f].ref) /\ file'[f].ref = file[f].ref => Chosen(f, file'[f].ref)
    OBVIOUS
  <2> QED BY <1>1, <2>1, <2>2, <2>3
<1>4. CASE ~Used(f)
  <2>1. CASE file'[f] = file[f] /\ file[f] = NoRow
    BY <2>1 DEF NoRow
  <2>2. ASSUME NEW p \in Paths, NEW ref \in Refs \cup {None}, Created(f, p, ref)
        PROVE  file'[f].ref = file'[f].grab
    BY <2>2 DEF Created
  <2> QED BY <1>4, <2>1, <2>2, FileAfter
<1> QED BY <1>3, <1>4

LEMMA SettledStep ==
    ASSUME IInv, [Next]_vars
    PROVE  Settled'
<1> SUFFICES ASSUME NEW d \in DOMAIN decision', NEW e \in DOMAIN decision', e < d,
                    decision'[d].file = decision'[e].file, decision'[d].settled
             PROVE  decision'[e].superseded
  BY DEF Settled
<1> USE InvTypes
<1>1. Settled
  BY DEF IInv
<1>2. CASE decision' = decision
  BY <1>1, <1>2 DEF Settled
<1>3. ASSUME NEW f, NEW ref, NEW by, Inserted(f, ref, by) PROVE decision'[e].superseded
  <2>1. d # Len(decision) + 1
    BY <1>3 DEF Inserted
  <2>2. d \in DOMAIN decision /\ e \in DOMAIN decision
    BY <1>3, <2>1 DEF Inserted
  <2> QED BY <1>1, <1>3, <2>2 DEF Inserted, Settled
<1>4. ASSUME NEW j, Superseding(j) PROVE decision'[e].superseded
  <2>1. d \in DOMAIN decision /\ e \in DOMAIN decision /\ decision[d].file = decision[e].file
    BY <1>4, DecisionStep DEF Superseding, Kept
  <2>2. CASE d = j
    BY <1>4, <2>1, <2>2 DEF Superseding
  <2>3. CASE d # j
    BY <1>1, <1>4, <2>1, <2>3 DEF Superseding, Settled
  <2> QED BY <2>2, <2>3
<1> QED BY <1>2, <1>3, <1>4, DecisionStep

LEMMA DetachedStep ==
    ASSUME IInv, [Next]_vars, NEW f \in Files, file[f].path # None, ~file[f].live
    PROVE  ~file'[f].live
  BY FileAfter DEF Used

LEMMA DecidedOnceStep ==
    ASSUME IInv, [Next]_vars
    PROVE  DecidedOnce'
<1> SUFFICES ASSUME NEW d \in DOMAIN decision', NEW e \in DOMAIN decision', d # e,
                    decision'[d].by = "auto", decision'[e].by = "auto",
                    decision'[d].file = decision'[e].file
             PROVE  FALSE
  BY DEF DecidedOnce
<1> USE InvTypes
<1>1. DecidedOnce
  BY DEF IInv
<1>2. CASE DOMAIN decision' = DOMAIN decision
  BY <1>1, <1>2, DecisionStep DEF DecidedOnce, Kept
<1>3. ASSUME NEW f \in scan.refs, NEW ref, Inserted(f, ref, "auto") PROVE FALSE
  <2>1. ~Scanned(f)
    BY DEF IInv, Undecided
  <2>2. ASSUME NEW i \in DOMAIN decision', decision'[i].file = f, decision'[i].by = "auto"
        PROVE  i = Len(decision) + 1
    BY <1>3, <2>1, <2>2 DEF Inserted, Scanned
  <2>3. decision'[Len(decision) + 1].file = f
    BY <1>3 DEF Inserted
  <2>4. d # Len(decision) + 1 /\ e # Len(decision) + 1
    BY <2>2, <2>3
  <2>5. d \in DOMAIN decision /\ e \in DOMAIN decision
    BY <1>3, <2>4 DEF Inserted
  <2> QED BY <1>1, <1>3, <2>5 DEF Inserted, DecidedOnce
<1>4. ASSUME NEW f, NEW ref, Inserted(f, ref, "user") PROVE FALSE
  <2>1. d # Len(decision) + 1 /\ e # Len(decision) + 1
    BY <1>4 DEF Inserted
  <2>2. d \in DOMAIN decision /\ e \in DOMAIN decision
    BY <1>4, <2>1 DEF Inserted
  <2> QED BY <1>1, <1>4, <2>2 DEF Inserted, DecidedOnce
<1> QED BY <1>2, <1>3, <1>4, DecisionStep DEF Superseding

\* The steps that are the scan's; every other one leaves it alone.
ScanStep ==
    \/ StartScan \/ loadKnownPaths \/ WalkDir
    \/ \E p \in Paths : GetFileByLibraryAndPath(p)
    \/ EnsureFileRow
    \/ \E f \in Files, ref \in Refs \cup {None} : Match(f, ref)
    \/ MatchSupersede
    \/ \E o \in scan.out : Persist(o)
    \/ PersistCommit \/ PersistFails \/ ScanEnd \/ Crash

LEMMA ScanSteps ==
    ASSUME [Next]_vars
    PROVE  ScanStep \/ UNCHANGED <<scan, running>>
<1>1. ASSUME NEW u \in Operators, Operator(u) PROVE UNCHANGED <<scan, running>>
  BY <1>1 DEF Operator, commitManualMatch, CommitUser, ClearFileIdentity, SoftDeleteFile,
              InsertUserDecision, SupersedeUser, RequestFails, MatchByID, Unmatch, Detach, GetFile
<1>2. Import \/ UNCHANGED vars => UNCHANGED <<scan, running>>
  BY DEF Import, Place, ImportCommit, ImportFails, vars
<1> QED BY <1>1, <1>2 DEF Next, ScanWork, ScanStep

LEMMA ScanTypeStep ==
    ASSUME IInv, [Next]_vars
    PROVE  /\ scan' \in ScanType /\ running' = (scan'.pc /= "idle")
           /\ scan'.pc = "commit" => scan'.one \in [file : Files, ref : Refs]
           /\ scan'.pc = "create" => scan'.path \in Paths
<1> USE InvTypes
<1> DEFINE P == /\ scan' \in ScanType /\ running' = (scan'.pc /= "idle")
                /\ scan'.pc = "commit" => scan'.one \in [file : Files, ref : Refs]
                /\ scan'.pc = "create" => scan'.path \in Paths
<1>0. /\ running = (scan.pc /= "idle") /\ disk \subseteq Paths
      /\ scan.pc = "commit" => scan.one \in [file : Files, ref : Refs]
      /\ scan.pc = "create" => scan.path \in Paths
  BY DEF IInv, Types, Aimed
<1>1. ScanIdle \in ScanType
  BY DEF ScanType, ScanIdle
<1>2. StartScan => P
  BY <1>1 DEF StartScan, ScanType, ScanIdle
<1>3. loadKnownPaths => P
  <2> DEFINE known == {p \in Paths : LiveAt(p) /= {}}
  <2>1. known \in SUBSET Paths
    OBVIOUS
  <2>2. loadKnownPaths => /\ scan.pc = "load" /\ UNCHANGED running
                          /\ scan' = [scan EXCEPT !.pc = "walk", !.known = known]
    BY DEF loadKnownPaths
  <2> HIDE DEF known
  <2> QED BY <1>0, <2>1, <2>2 DEF ScanType
<1>3a. WalkDir => P
  <2> DEFINE todo == disk \ scan.known
  <2>1. todo \in SUBSET Paths
    BY <1>0
  <2>2. WalkDir => /\ scan.pc = "walk" /\ UNCHANGED running
                   /\ scan' = [scan EXCEPT !.pc = "work", !.todo = todo]
    BY DEF WalkDir
  <2> HIDE DEF todo
  <2> QED BY <1>0, <2>1, <2>2 DEF ScanType
<1>4. ASSUME NEW p \in Paths, GetFileByLibraryAndPath(p) PROVE P
  <2> DEFINE todo == scan.todo \ {p}
             refs == scan.refs \cup LiveAt(p)
  <2>1. todo \in SUBSET Paths /\ refs \in SUBSET Files
    BY DEF LiveAt, ScanType
  <2>2. /\ scan.pc = "work" /\ UNCHANGED running
        /\ \/ scan' = [scan EXCEPT !.pc = "create", !.path = p]
           \/ scan' = [scan EXCEPT !.todo = todo, !.refs = refs]
    BY <1>4 DEF GetFileByLibraryAndPath
  <2> HIDE DEF todo, refs
  <2>3. scan'.pc \in {"work", "create"} /\ running' = TRUE
    BY <1>0, <2>2 DEF ScanType
  <2>4. scan'.pc = "create" => scan'.path \in Paths
    BY <2>2 DEF ScanType
  <2>5. scan' \in ScanType
    BY <2>1, <2>2 DEF ScanType
  <2> QED BY <2>3, <2>4, <2>5
<1>5. EnsureFileRow => P
  <2> DEFINE todo == scan.todo \ {scan.path}
             refs == scan.refs \cup {f \in Files : file'[f] /= file[f]}
  <2>1. todo \in SUBSET Paths /\ refs \in SUBSET Files
    BY DEF ScanType
  <2>2. EnsureFileRow =>
          /\ scan.pc = "create" /\ UNCHANGED running
          /\ scan' = [scan EXCEPT !.pc = "work", !.path = None, !.todo = todo, !.refs = refs]
    BY DEF EnsureFileRow
  <2> HIDE DEF todo, refs
  <2> QED BY <1>0, <2>1, <2>2 DEF ScanType
<1>6. ASSUME NEW f \in Files, NEW ref \in Refs \cup {None}, Match(f, ref) PROVE P
  <2>1. Len(decision') \in Nat
    BY DecisionStep
  <2>2. ref # None => [file |-> f, ref |-> ref] \in [file : Files, ref : Refs]
    OBVIOUS
  <2> QED BY <1>0, <1>6, <2>1, <2>2 DEF Match, ScanType
<1>7. MatchSupersede \/ PersistCommit \/ PersistFails => P
  BY <1>0 DEF MatchSupersede, PersistCommit, PersistFails, ScanType
<1>8. ASSUME NEW o \in scan.out, Persist(o) PROVE P
  <2>1. o \in [file : Files, ref : Refs]
    BY DEF ScanType
  <2>2. o \in [file : Files \cup {None}, ref : Refs \cup {None}]
    BY <2>1
  <2>3. (o.ref \notin items) \in BOOLEAN
    OBVIOUS
  <2> QED BY <1>0, <1>8, <2>1, <2>2, <2>3 DEF Persist, ScanType
<1>9. ScanEnd \/ Crash => P
  <2>1. ScanEnd \/ Crash => scan' = ScanIdle /\ running' = FALSE
    BY DEF ScanEnd, Crash
  <2>2. ScanIdle.pc = "idle"
    BY DEF ScanIdle
  <2> QED BY <1>1, <2>1, <2>2
<1>10. UNCHANGED <<scan, running>> => P
  BY <1>0
<1> QED BY <1>2, <1>3, <1>3a, <1>4, <1>5, <1>6, <1>7, <1>8, <1>9, <1>10, ScanSteps DEF ScanStep

\* What a step does to an operator's request.
ReqStep(u) ==
    \/ req'[u] = req[u]
    \/ req'[u] = ReqIdle
    \/ \E f \in Files, ref \in Refs \cup {None}, kind \in {"match", "unmatch", "detach"} :
          /\ file[f].live /\ (kind = "match" => ref \in Refs)
          /\ req'[u] = Asked(kind, f, ref)
    \/ /\ InsertUserDecision(u)
       /\ req'[u] = [req[u] EXCEPT !.pc = "supersede", !.d = Len(decision')]
    \/ req[u].pc = "supersede" /\ req'[u] = [req[u] EXCEPT !.pc = req[u].kind]
    \/ /\ req[u].pc = "match"
       /\ req'[u] = [req[u] EXCEPT !.pc = "commit", !.needs = req[u].ref \notin items]

LEMMA ReqSteps ==
    ASSUME IInv, [Next]_vars, NEW u \in Operators
    PROVE  ReqStep(u)
<1> USE InvTypes
<1>1. ASSUME NEW v \in Operators, \/ CommitUser(v) \/ ClearFileIdentity(v) \/ SoftDeleteFile(v)
                                  \/ RequestFails(v)
      PROVE  ReqStep(u)
  BY <1>1 DEF CommitUser, ClearFileIdentity, SoftDeleteFile, RequestFails, Done, ReqStep
<1>2. ASSUME NEW v \in Operators, InsertUserDecision(v) PROVE ReqStep(u)
  BY <1>2 DEF InsertUserDecision, ReqStep
<1>3. ASSUME NEW v \in Operators, SupersedeUser(v) PROVE ReqStep(u)
  BY <1>3 DEF SupersedeUser, ReqGoto, ReqStep
<1>4. ASSUME NEW v \in Operators, commitManualMatch(v) PROVE ReqStep(u)
  BY <1>4 DEF commitManualMatch, ReqStep
<1>5. ASSUME NEW v \in Operators, NEW f \in Files, NEW ref \in Refs \cup {None},
             NEW kind \in {"match", "unmatch", "detach"}, kind = "match" => ref \in Refs,
             GetFile(v, kind, f, ref)
      PROVE  ReqStep(u)
  <2>1. /\ file[f].live
        /\ req' = [req EXCEPT ![v] = Asked(kind, f, ref)]
    BY <1>5 DEF GetFile
  <2> QED BY <1>5, <2>1 DEF ReqStep
<1>6. ASSUME NEW v \in Operators, Operator(v) PROVE ReqStep(u)
  <2>1. ASSUME NEW f \in Files, NEW ref \in Refs, MatchByID(v, f, ref) PROVE ReqStep(u)
    BY <1>5, <2>1, Zenon DEF MatchByID
  <2>2. ASSUME NEW f \in Files, Unmatch(v, f) \/ Detach(v, f) PROVE ReqStep(u)
    BY <1>5, <2>2, Zenon DEF Unmatch, Detach
  <2> QED BY <1>1, <1>2, <1>3, <1>4, <1>6, <2>1, <2>2, Zenon DEF Operator
<1>7. Crash => req'[u] = ReqIdle
  BY DEF Crash
<1>8. StartScan \/ PersistFails \/ Import \/ UNCHANGED vars => UNCHANGED req
  BY DEF StartScan, PersistFails, Import, Place, ImportCommit, ImportFails, vars
<1>9. ScanWork => UNCHANGED req
  BY DEF ScanWork, loadKnownPaths, WalkDir, GetFileByLibraryAndPath, EnsureFileRow,
         Match, MatchSupersede, Persist, PersistCommit, ScanEnd
<1> QED BY <1>6, <1>7, <1>8, <1>9 DEF Next, ReqStep

\* The fields of a request after a step.
LEMMA ReqAfter ==
    ASSUME IInv, [Next]_vars, NEW u \in Operators
    PROVE  LET old == req[u] new == req'[u] IN
           /\ new \in ReqType
           /\ \/ new = old
              \/ new.pc = "idle" /\ new.d = 0
              \/ /\ new.pc = "insert" /\ new.file \in Files /\ file[new.file].live /\ new.d = 0
                 /\ new.kind = "match" => new.ref \in Refs
              \/ /\ InsertUserDecision(u) /\ old.pc = "insert" /\ new.pc = "supersede"
                 /\ new.file = old.file /\ new.ref = old.ref /\ new.kind = old.kind
                 /\ new.d = Len(decision')
              \/ /\ old.pc = "supersede" /\ new.pc = old.kind
                 /\ new.file = old.file /\ new.ref = old.ref /\ new.kind = old.kind /\ new.d = old.d
              \/ /\ old.pc = "match" /\ new.pc = "commit"
                 /\ new.file = old.file /\ new.ref = old.ref /\ new.kind = old.kind /\ new.d = old.d
<1> DEFINE P == LET old == req[u] new == req'[u] IN
                /\ new \in ReqType
                /\ \/ new = old
                   \/ new.pc = "idle" /\ new.d = 0
                   \/ /\ new.pc = "insert" /\ new.file \in Files /\ file[new.file].live /\ new.d = 0
                      /\ new.kind = "match" => new.ref \in Refs
                   \/ /\ InsertUserDecision(u) /\ old.pc = "insert" /\ new.pc = "supersede"
                      /\ new.file = old.file /\ new.ref = old.ref /\ new.kind = old.kind
                      /\ new.d = Len(decision')
                   \/ /\ old.pc = "supersede" /\ new.pc = old.kind
                      /\ new.file = old.file /\ new.ref = old.ref /\ new.kind = old.kind /\ new.d = old.d
                   \/ /\ old.pc = "match" /\ new.pc = "commit"
                      /\ new.file = old.file /\ new.ref = old.ref /\ new.kind = old.kind /\ new.d = old.d
<1>1. req[u] \in ReqType /\ ReqStep(u)
  BY ReqSteps, InvTypes
<1>2. CASE req'[u] = req[u]
  BY <1>1, <1>2
<1>3. CASE req'[u] = ReqIdle
  BY <1>3 DEF ReqIdle, ReqType
<1>4. ASSUME NEW f \in Files, NEW ref \in Refs \cup {None}, NEW kind \in {"match", "unmatch", "detach"},
             file[f].live, kind = "match" => ref \in Refs,
             req'[u] = Asked(kind, f, ref)
      PROVE  P
  <2>1. /\ req'[u] \in ReqType
        /\ req'[u].pc = "insert" /\ req'[u].kind = kind /\ req'[u].file = f
        /\ req'[u].ref = ref /\ req'[u].d = 0
    BY <1>4 DEF ReqType, Asked
  <2> QED BY <1>4, <2>1
<1>5. CASE InsertUserDecision(u) /\ req'[u] = [req[u] EXCEPT !.pc = "supersede", !.d = Len(decision')]
  <2>1. Len(decision') \in Nat
    BY DecisionStep
  <2>2. req[u].pc = "insert"
    BY <1>5 DEF InsertUserDecision
  <2> QED BY <1>1, <1>5, <2>1, <2>2 DEF ReqType
<1>6. CASE req[u].pc = "supersede" /\ req'[u] = [req[u] EXCEPT !.pc = req[u].kind]
  BY <1>1, <1>6 DEF ReqType
<1>7. CASE req[u].pc = "match" /\ req'[u] = [req[u] EXCEPT !.pc = "commit", !.needs = req[u].ref \notin items]
  <2> DEFINE needs == req[u].ref \notin items
  <2>1. needs \in BOOLEAN
    OBVIOUS
  <2>2. req'[u] = [req[u] EXCEPT !.pc = "commit", !.needs = needs]
    BY <1>7
  <2> HIDE DEF needs
  <2> QED BY <1>1, <1>7, <2>1, <2>2 DEF ReqType
<1> QED BY <1>1, <1>2, <1>3, <1>4, <1>5, <1>6, <1>7 DEF ReqStep

LEMMA ImpStep ==
    ASSUME IInv, [Next]_vars
    PROVE  /\ imp' \in ImpType /\ disk' \subseteq Paths
           /\ imp'.pc = "commit" => imp'.path \in Paths /\ imp'.ref \in Refs
<1> USE InvTypes
<1>0. disk \subseteq Paths /\ (imp.pc = "commit" => imp.path \in Paths /\ imp.ref \in Refs)
  BY DEF IInv, Types, Aimed
<1>1. ImpIdle \in ImpType /\ ImpIdle.pc = "idle"
  BY DEF ImpIdle, ImpType
<1>2. ASSUME NEW p \in Paths, NEW ref \in Refs, Place(p, ref)
      PROVE  /\ imp' \in ImpType /\ disk' \subseteq Paths
             /\ imp'.path \in Paths /\ imp'.ref \in Refs
  BY <1>0, <1>2 DEF Place, ImpType
<1>3. ImportCommit \/ ImportFails \/ Crash => imp' = ImpIdle /\ disk' = disk
  BY DEF ImportCommit, ImportFails, Crash
<1>4. ASSUME NEW u \in Operators, Operator(u) PROVE imp' = imp /\ disk' \subseteq disk
  BY <1>4 DEF Operator, commitManualMatch, CommitUser, ClearFileIdentity, SoftDeleteFile,
              InsertUserDecision, SupersedeUser, RequestFails, MatchByID, Unmatch, Detach, GetFile
<1>5. ScanWork \/ StartScan \/ PersistFails \/ UNCHANGED vars => UNCHANGED <<imp, disk>>
  BY DEF ScanWork, loadKnownPaths, WalkDir, GetFileByLibraryAndPath, EnsureFileRow,
         Match, MatchSupersede, Persist, PersistCommit, ScanEnd, StartScan, PersistFails, vars
<1> QED BY <1>0, <1>1, <1>2, <1>3, <1>4, <1>5 DEF Next, Import

LEMMA TypesStep ==
    ASSUME IInv, [Next]_vars
    PROVE  Types'
<1>1. req' \in [Operators -> ReqType]
  <2>1. \A u \in Operators : req'[u] \in ReqType
    BY ReqAfter
  <2>2. req' = [u \in Operators |-> req'[u]]
    BY InvTypes
       DEF Next, ScanWork, Operator, Import, Place, ImportCommit, ImportFails, Crash, StartScan,
           PersistFails, loadKnownPaths, WalkDir, GetFileByLibraryAndPath, EnsureFileRow,
           Match, MatchSupersede, Persist, PersistCommit, ScanEnd, vars, Done, ReqGoto,
           commitManualMatch, CommitUser, ClearFileIdentity, SoftDeleteFile,
           InsertUserDecision, SupersedeUser, RequestFails, MatchByID, Unmatch, Detach, GetFile
  <2> QED BY <2>1, <2>2
<1> QED BY <1>1, DecisionStep, FileSteps, ScanTypeStep, ImpStep DEF Types

LEMMA AimedStep ==
    ASSUME IInv, [Next]_vars
    PROVE  Aimed'
<1>1. ASSUME NEW u \in Operators
      PROVE  /\ req'[u].pc # "idle" => req'[u].file \in Files /\ req'[u].d <= Len(decision')
             /\ req'[u].pc = "idle" => req'[u].d = 0
             /\ req'[u].pc # "idle" /\ req'[u].kind = "match" => req'[u].ref \in Refs
             /\ req'[u].pc \in {"match", "commit"} => req'[u].kind = "match"
  <2>1. /\ req[u].pc # "idle" => req[u].file \in Files /\ req[u].d <= Len(decision)
        /\ req[u].pc = "idle" => req[u].d = 0
        /\ req[u].pc # "idle" /\ req[u].kind = "match" => req[u].ref \in Refs
        /\ req[u].pc \in {"match", "commit"} => req[u].kind = "match"
        /\ req[u].kind \in {"match", "unmatch", "detach"} /\ req[u].d \in Nat
    BY InvTypes DEF IInv, Aimed, ReqType
  <2>2. Len(decision') \in Nat /\ Len(decision) \in Nat /\ Len(decision) <= Len(decision')
    <3>1. decision' \in Seq(Decision) /\ Len(decision) \in Nat
      BY InvTypes, DecisionStep
    <3>2. Len(decision') = Len(decision) \/ Len(decision') = Len(decision) + 1
      BY DecisionStep DEF Inserted, Superseding
    <3> QED BY <3>1, <3>2
  <2> QED BY <2>1, <2>2, ReqAfter
<1> QED BY <1>1, ScanTypeStep, ImpStep DEF Aimed

\* A row that EnsureFileRow inserts is the only one that changes.
LEMMA EnsureStep ==
    ASSUME IInv, EnsureFileRow
    PROVE  \E f \in Files : /\ ~Used(f) /\ Used(f)'
                            /\ {g \in Files : file'[g] # file[g]} = {f}
<1>1. scan.path \in Paths /\ CanCreateFile(scan.path) /\ CreateFile(scan.path, None)
  BY DEF EnsureFileRow, IInv, Aimed
<1>2. PICK f \in Files :
              /\ Created(f, scan.path, None)
              /\ file' = [file EXCEPT ![f] = [path |-> scan.path, live |-> TRUE, ref |-> None, grab |-> None]]
  BY <1>1, CreateStep
<1>3. file[f].path = None /\ file'[f].path = scan.path /\ scan.path # None
  BY <1>1, <1>2, InvTypes, LibraryAssumption DEF Created, NoRow
<1>4. \A g \in Files : g # f => file'[g] = file[g]
  BY <1>2, InvTypes
<1>5. file'[f] # file[f]
  BY <1>3
<1> QED BY <1>3, <1>4, <1>5 DEF Used

LEMMA RowsStep ==
    ASSUME IInv, [Next]_vars
    PROVE  Rows'
<1> USE InvTypes
<1>0. /\ \A f \in scan.refs : f \in Files /\ Used(f)
      /\ \A u \in Operators : req[u].pc # "idle" => Used(req[u].file) /\ req[u].file \in Files
      /\ \A d \in DOMAIN decision : decision[d].file \in Files /\ Used(decision[d].file)
  <2>1. \A d \in DOMAIN decision : decision[d].file \in Files
    <3>1. \A d \in DOMAIN decision : decision[d] \in Decision
      BY ElementOfSeq
    <3> QED BY <3>1 DEF Decision
  <2>2. scan.refs \subseteq Files
    BY DEF ScanType
  <2> QED BY <2>1, <2>2 DEF IInv, Rows, Aimed
<1>1. ASSUME NEW f \in Files, ~Used(f)' PROVE file'[f] = NoRow
  <2>1. ~Used(f)
    BY <1>1, UsedKept
  <2>2. ASSUME NEW p \in Paths, NEW ref \in Refs \cup {None}, Created(f, p, ref) PROVE Used(f)'
    BY <2>2, LibraryAssumption DEF Created, Used
  <2> QED BY <1>1, <2>1, <2>2, FileAfter
<1>2. ASSUME NEW f \in scan'.refs PROVE Used(f)'
  <2>1. CASE f \in scan.refs
    BY <1>0, <2>1, UsedKept
  <2>2. ASSUME NEW p \in Paths, f \in LiveAt(p) PROVE f \in Files /\ Used(f)
    BY <2>2, LibraryAssumption DEF LiveAt, Used
  <2>3. CASE \E p \in Paths : GetFileByLibraryAndPath(p)
    <3>1. PICK p \in Paths : GetFileByLibraryAndPath(p)
      BY <2>3
    <3>2. f \in scan.refs \/ f \in LiveAt(p)
      BY <1>2, <3>1 DEF GetFileByLibraryAndPath, ScanType
    <3> QED BY <2>1, <2>2, <3>2, UsedKept
  <2>4. CASE EnsureFileRow
    <3>1. PICK g \in Files : Used(g)' /\ {h \in Files : file'[h] # file[h]} = {g}
      BY <2>4, EnsureStep
    <3>2. scan'.refs = scan.refs \cup {h \in Files : file'[h] # file[h]}
      BY <2>4 DEF EnsureFileRow, ScanType
    <3>3. f \in scan.refs \/ f = g
      BY <1>2, <3>1, <3>2
    <3> QED BY <2>1, <3>1, <3>3
  <2>5. CASE ~EnsureFileRow /\ ~\E p \in Paths : GetFileByLibraryAndPath(p)
    <3>1. scan'.refs \subseteq scan.refs
      <4>1. loadKnownPaths \/ WalkDir \/ MatchSupersede \/ PersistCommit \/ PersistFails
            => scan'.refs = scan.refs
        BY DEF loadKnownPaths, WalkDir, MatchSupersede, PersistCommit, PersistFails, ScanType
      <4>2. ASSUME NEW g, NEW ref, Match(g, ref) PROVE scan'.refs \subseteq scan.refs
        BY <4>2 DEF Match, ScanType
      <4>3. ASSUME NEW o, Persist(o) PROVE scan'.refs = scan.refs
        BY <4>3 DEF Persist, ScanType
      <4>4. StartScan \/ ScanEnd \/ Crash => scan'.refs = {}
        BY DEF StartScan, ScanEnd, Crash, ScanIdle
      <4> QED BY <2>5, <4>1, <4>2, <4>3, <4>4, ScanSteps DEF ScanStep
    <3> QED BY <1>2, <2>1, <3>1
  <2> QED BY <2>3, <2>4, <2>5
<1>3. ASSUME NEW u \in Operators, req'[u].pc # "idle" PROVE Used(req[u].file)'
  <2>1. ASSUME NEW f \in Files, file[f].live PROVE Used(f)
    BY <2>1 DEF IInv, Rows, NoRow
  <2>2. req'[u].file \in Files /\ Used(req'[u].file)
    BY <1>0, <1>3, <2>1, ReqAfter
  <2> QED BY <2>2, UsedKept DEF Used
<1>4. ASSUME NEW d \in DOMAIN decision' PROVE Used(decision[d].file)'
  <2>1. decision'[d].file \in Files /\ Used(decision'[d].file)
    <3>1. CASE d \in DOMAIN decision
      BY <1>0, <3>1, DecisionStep DEF Kept
    <3>2. ASSUME NEW f \in scan.refs, NEW ref, Inserted(f, ref, "auto"), d \notin DOMAIN decision
          PROVE  decision'[d].file = f
      BY <3>2 DEF Inserted
    <3>3. ASSUME NEW v \in Operators, InsertUserDecision(v), Inserted(req[v].file, req[v].ref, "user"),
                 d \notin DOMAIN decision
          PROVE  decision'[d].file = req[v].file /\ req[v].pc # "idle"
      BY <3>3 DEF Inserted, InsertUserDecision
    <3>4. ASSUME NEW j, Superseding(j) PROVE d \in DOMAIN decision
      BY <3>4 DEF Superseding
    <3> QED BY <1>0, <3>1, <3>2, <3>3, <3>4, DecisionStep
  <2> QED BY <2>1, UsedKept DEF Used
<1> QED BY <1>1, <1>2, <1>3, <1>4 DEF Rows

\* Where the identities to be written come from.
LEMMA OutStep ==
    ASSUME IInv, [Next]_vars
    PROVE  /\ \A o \in scan'.out : o \in scan.out \/ Match(o.file, o.ref)
           /\ scan'.pc = "commit" =>
                 \/ scan.pc = "commit" /\ scan'.one = scan.one
                 \/ scan'.one \in scan.out
<1> USE InvTypes
<1> DEFINE P == /\ \A o \in scan'.out : o \in scan.out \/ Match(o.file, o.ref)
                /\ scan'.pc = "commit" =>
                      \/ scan.pc = "commit" /\ scan'.one = scan.one
                      \/ scan'.one \in scan.out
<1>1. loadKnownPaths \/ WalkDir \/ MatchSupersede \/ PersistCommit \/ PersistFails \/ EnsureFileRow
      => scan'.out = scan.out /\ scan'.pc # "commit"
  BY DEF loadKnownPaths, WalkDir, MatchSupersede, PersistCommit, PersistFails, EnsureFileRow, ScanType
<1>2. ASSUME NEW p, GetFileByLibraryAndPath(p) PROVE scan'.out = scan.out /\ scan'.pc # "commit"
  BY <1>2 DEF GetFileByLibraryAndPath, ScanType
<1>3. ASSUME NEW f, NEW ref, Match(f, ref) PROVE P
  <2>1. /\ scan'.pc = "supersede"
        /\ scan'.out \in {scan.out, scan.out \cup {[file |-> f, ref |-> ref]}}
    BY <1>3 DEF Match, ScanType
  <2> QED BY <1>3, <2>1
<1>4. ASSUME NEW o \in scan.out, Persist(o) PROVE P
  <2>1. scan'.out = scan.out \ {o} /\ scan'.one = o
    BY <1>4 DEF Persist, ScanType
  <2> QED BY <2>1
<1>5. StartScan \/ ScanEnd \/ Crash => scan'.out = {} /\ scan'.pc # "commit"
  BY DEF StartScan, ScanEnd, Crash, ScanIdle
<1> QED BY <1>1, <1>2, <1>3, <1>4, <1>5, ScanSteps DEF ScanStep

LEMMA BackedStep ==
    ASSUME IInv, [Next]_vars
    PROVE  Backed'
<1> USE InvTypes
<1>0. Kept /\ Backed
  BY DecisionStep DEF IInv
<1>1. ASSUME NEW f, NEW ref, NEW by, Inserted(f, ref, by)
      PROVE  Len(decision) + 1 \in DOMAIN decision' /\ decision'[Len(decision) + 1].file = f
             /\ decision'[Len(decision) + 1].ref = ref
  BY <1>1 DEF Inserted
<1>2. ASSUME NEW o \in scan'.out PROVE Chosen(o.file, o.ref)'
  <2>1. CASE o \in scan.out
    BY <1>0, <2>1, ChosenKept DEF Backed
  <2>2. CASE o \notin scan.out
    <3>1. Match(o.file, o.ref) /\ o.file \in Files /\ o.ref \in Refs
      BY <2>2, OutStep, ScanTypeStep DEF ScanType
    <3>2. Inserted(o.file, o.ref, "auto")
      BY <3>1, InsertFacts DEF Match
    <3> QED BY <1>1, <3>2 DEF Chosen
  <2> QED BY <2>1, <2>2
<1>3. ASSUME scan'.pc = "commit" PROVE Chosen(scan.one.file, scan.one.ref)'
  <2>1. Chosen(scan'.one.file, scan'.one.ref)
    BY <1>0, <1>3, OutStep DEF Backed
  <2> QED BY <1>0, <2>1 DEF Chosen, Kept
<1>4. ASSUME NEW u \in Operators, req'[u].pc \in {"supersede", "match", "commit"}
      PROVE  Chosen(req[u].file, req[u].ref)'
  <2>1. CASE InsertUserDecision(u)
    <3>1. Inserted(req[u].file, req[u].ref, "user")
      <4>1. req[u].file \in Files /\ req[u].ref \in Refs \cup {None}
        BY <2>1 DEF InsertUserDecision, IInv, Aimed, ReqType
      <4> QED BY <2>1, <4>1, InsertFacts DEF InsertUserDecision
    <3>2. req'[u].file = req[u].file /\ req'[u].ref = req[u].ref
      BY <2>1 DEF InsertUserDecision, ReqType
    <3> QED BY <1>1, <3>1, <3>2 DEF Chosen
  <2>2. CASE ~InsertUserDecision(u)
    <3>1. /\ req[u].pc \in {"supersede", "match", "commit"}
          /\ req'[u].file = req[u].file /\ req'[u].ref = req[u].ref
      BY <1>4, <2>2, ReqAfter
    <3>2. Chosen(req[u].file, req[u].ref)
      BY <1>0, <3>1 DEF Backed
    <3> QED BY <1>0, <3>1, <3>2 DEF Chosen, Kept
  <2> QED BY <2>1, <2>2
<1> QED BY <1>2, <1>3, <1>4 DEF Backed

\* What a scan did not decide stays undecided until it matches it, and a row
\* that appears has not been decided.
LEMMA ScannedAfter ==
    ASSUME IInv, [Next]_vars
    PROVE  /\ \A f : Scanned(f)' => Scanned(f) \/ (f \in scan.refs /\ \E ref : Match(f, ref))
           /\ \A p \in Paths : \A f \in LiveAt(p)' : f \in LiveAt(p) \/ ~Scanned(f)
<1> USE InvTypes
<1>1. ASSUME NEW f, Scanned(f)', ~Scanned(f) PROVE f \in scan.refs /\ \E ref : Match(f, ref)
  <2>1. PICK d \in DOMAIN decision' : decision'[d].file = f /\ decision'[d].by = "auto"
    BY <1>1 DEF Scanned
  <2>2. d \notin DOMAIN decision
    BY <1>1, <2>1, DecisionStep DEF Scanned, Kept
  <2>3. PICK g \in scan.refs, ref \in Refs \cup {None} : Match(g, ref) /\ Inserted(g, ref, "auto")
    <3>1. ASSUME NEW g, NEW ref, Inserted(g, ref, "user") PROVE FALSE
      BY <2>1, <2>2, <3>1 DEF Inserted
    <3>2. ASSUME NEW j, Superseding(j) PROVE FALSE
      BY <2>2, <3>2 DEF Superseding
    <3>3. decision' # decision
      BY <2>2
    <3> QED BY <3>1, <3>2, <3>3, DecisionStep
  <2>4. f = g
    BY <2>1, <2>2, <2>3 DEF Inserted
  <2> QED BY <2>3, <2>4
<1>2. ASSUME NEW p \in Paths, NEW f \in LiveAt(p)', f \notin LiveAt(p) PROVE ~Scanned(f)
  <2>1. f \in Files /\ file'[f].path = p /\ file'[f].live
    BY <1>2 DEF LiveAt
  <2>2. ~Used(f)
    BY <1>2, <2>1, FileAfter DEF LiveAt
  <2> QED BY <2>2 DEF Scanned, IInv, Rows
<1> QED BY <1>1, <1>2

LEMMA UndecidedStep ==
    ASSUME IInv, [Next]_vars
    PROVE  Undecided'
<1> USE InvTypes
<1>0. /\ \A f \in scan.refs : ~Scanned(f)
      /\ \A p \in scan.todo : \A f \in LiveAt(p) : ~Scanned(f)
      /\ scan.pc = "walk" => \A p \in Paths \ scan.known : \A f \in LiveAt(p) : ~Scanned(f)
      /\ scan.pc \in {"load", "walk"} => scan.todo = {}
      /\ scan.pc \in {"supersede", "commit"} => scan.todo = {}
      /\ scan.pc = "create" => scan.path \in scan.todo
      /\ scan.todo \subseteq Paths /\ disk \subseteq Paths
  BY DEF IInv, Undecided, Types, ScanType
\* While the scan matches nothing:
<1>1. ASSUME ~\E f, ref : Match(f, ref)
      PROVE  /\ \A f : Scanned(f)' => Scanned(f)
             /\ \A p \in Paths : (\A f \in LiveAt(p) : ~Scanned(f)) =>
                                 \A f \in LiveAt(p)' : ~Scanned(f)'
  BY <1>1, ScannedAfter
<1>2. ASSUME UNCHANGED scan, ~\E f, ref : Match(f, ref) PROVE Undecided'
  BY <1>0, <1>1, <1>2 DEF Undecided
<1>3. StartScan \/ ScanEnd \/ Crash => Undecided'
  BY DEF StartScan, ScanEnd, Crash, ScanIdle, Undecided
<1>4. ASSUME loadKnownPaths PROVE Undecided'
  <2>1. /\ scan'.pc = "walk" /\ scan'.known = {p \in Paths : LiveAt(p) /= {}}
        /\ scan'.todo = {} /\ scan'.refs = scan.refs /\ UNCHANGED <<file, decision>>
    BY <1>0, <1>4 DEF loadKnownPaths, ScanType
  <2>2. \A f : Scanned(f)' <=> Scanned(f)
    BY <2>1 DEF Scanned
  <2>3. \A p \in Paths \ scan'.known : LiveAt(p)' = {}
    BY <2>1 DEF LiveAt
  <2> QED BY <1>0, <2>1, <2>2, <2>3 DEF Undecided
<1>5. ASSUME WalkDir PROVE Undecided'
  <2>1. /\ scan'.pc = "work" /\ scan'.todo = disk \ scan.known /\ scan.pc = "walk"
        /\ scan'.refs = scan.refs /\ UNCHANGED <<file, decision>>
    BY <1>5 DEF WalkDir, ScanType
  <2>2. \A f : Scanned(f)' <=> Scanned(f)
    BY <2>1 DEF Scanned
  <2>3. \A p \in Paths \ scan.known : LiveAt(p)' = LiveAt(p)
    BY <2>1 DEF LiveAt
  <2>4. \A p \in scan'.todo : p \in Paths \ scan.known
    BY <1>0, <2>1
  <2>5. \A p \in scan'.todo : \A f \in LiveAt(p)' : ~Scanned(f)'
    BY <1>0, <2>1, <2>2, <2>3, <2>4
  <2> QED BY <1>0, <2>1, <2>2, <2>5 DEF Undecided
<1>6. ASSUME NEW p \in Paths, GetFileByLibraryAndPath(p) PROVE Undecided'
  <2>1. /\ p \in scan.todo /\ UNCHANGED <<file, decision>>
        /\ \/ scan'.pc = "create" /\ scan'.path = p /\ scan'.todo = scan.todo /\ scan'.refs = scan.refs
           \/ /\ scan'.pc = "work" /\ scan'.todo = scan.todo \ {p}
              /\ scan'.refs = scan.refs \cup LiveAt(p)
    BY <1>6 DEF GetFileByLibraryAndPath, ScanType
  <2>2. \A q \in Paths : LiveAt(q)' = LiveAt(q) /\ \A f : Scanned(f)' <=> Scanned(f)
    BY <2>1 DEF LiveAt, Scanned
  <2> QED BY <1>0, <2>1, <2>2 DEF Undecided
<1>7. ASSUME EnsureFileRow PROVE Undecided'
  <2>1. PICK g \in Files : ~Used(g) /\ {h \in Files : file'[h] # file[h]} = {g}
    BY <1>7, EnsureStep
  <2>2. /\ scan'.pc = "work" /\ scan'.todo = scan.todo \ {scan.path}
        /\ scan'.refs = scan.refs \cup {h \in Files : file'[h] # file[h]} /\ UNCHANGED decision
    BY <1>7 DEF EnsureFileRow, ScanType
  <2>3. ~Scanned(g)
    BY <2>1 DEF IInv, Rows, Scanned
  <2>4. scan'.refs = scan.refs \cup {g} /\ \A f : Scanned(f)' <=> Scanned(f)
    BY <2>1, <2>2 DEF Scanned
  <2>5. \A q \in Paths : \A f \in LiveAt(q)' : f \in LiveAt(q) \/ ~Scanned(f)
    BY ScannedAfter
  <2> QED BY <1>0, <2>2, <2>3, <2>4, <2>5 DEF Undecided
<1>8. ASSUME NEW f, NEW ref, Match(f, ref) PROVE Undecided'
  <2>1. /\ scan'.pc = "supersede" /\ scan'.todo = {} /\ scan'.refs = scan.refs \ {f}
    BY <1>8 DEF Match, ScanType
  <2>2. ASSUME NEW g, NEW r, Match(g, r) PROVE g = f
    <3>1. /\ decision' = Append(decision, [file |-> g, ref |-> r, by |-> "auto",
                                           superseded |-> FALSE, settled |-> FALSE])
          /\ decision' = Append(decision, [file |-> f, ref |-> ref, by |-> "auto",
                                           superseded |-> FALSE, settled |-> FALSE])
      BY <1>8, <2>2 DEF Match, InsertMatchDecision
    <3>2. decision'[Len(decision) + 1].file = g /\ decision'[Len(decision) + 1].file = f
      BY <3>1
    <3> QED BY <3>2
  <2>3. \A g \in scan'.refs : ~Scanned(g)'
    BY <1>0, <2>1, <2>2, ScannedAfter
  <2> QED BY <2>1, <2>3 DEF Undecided
<1>9. ASSUME MatchSupersede \/ PersistCommit \/ PersistFails PROVE Undecided'
  <2>1. /\ scan'.pc = "work" /\ scan'.todo = {} /\ scan'.refs = scan.refs
        /\ scan.pc \in {"supersede", "commit"}
    BY <1>0, <1>9 DEF MatchSupersede, PersistCommit, PersistFails, ScanType
  <2>2. ~\E f, ref : Match(f, ref)
    BY <2>1 DEF Match
  <2> QED BY <1>0, <1>1, <2>1, <2>2 DEF Undecided
<1>10. ASSUME NEW o, Persist(o) PROVE Undecided'
  <2>1. scan'.pc = "commit" /\ scan'.todo = {} /\ scan'.refs = scan.refs /\ UNCHANGED decision
    BY <1>10 DEF Persist, ScanType
  <2>2. \A f : Scanned(f)' <=> Scanned(f)
    BY <2>1 DEF Scanned
  <2> QED BY <1>0, <2>1, <2>2 DEF Undecided
<1> QED BY <1>2, <1>3, <1>4, <1>5, <1>6, <1>7, <1>8, <1>9, <1>10, ScanSteps DEF ScanStep

-----------------------------------------------------------------------------
LEMMA Inductive == Spec => []IInv
<1>1. IInv /\ [Next]_vars => IInv'
  BY TypesStep, AimedStep, RowsStep, AuditedStep, BackedStep, SettledStep, UndecidedStep,
     DecidedOnceStep DEF IInv
<1> QED BY <1>1, InitInv, PTL DEF Spec

\* The tables, the scan and the requests keep their shapes, and the library is
\* free for another scan whenever none is going on, however the last one ended.
THEOREM LibraryTyped == Spec => []TypeOK
<1>1. ASSUME IInv PROVE TypeOK
  <2> USE <1>1, InvTypes
  <2>1. /\ scan.known \subseteq Paths /\ scan.todo \subseteq Paths /\ scan.refs \subseteq Files
        /\ scan.out \subseteq [file : Files, ref : Refs]
    BY DEF ScanType
  <2>2. req \in [Operators -> [pc : {"idle", "insert", "supersede", "match", "unmatch", "detach",
                                     "commit"},
                               kind : {"match", "unmatch", "detach"}, file : Files \cup {None},
                               ref : Refs \cup {None}, d : 0..Len(decision), needs : BOOLEAN]]
    <3>1. \A u \in Operators : req[u].d \in 0..Len(decision)
      BY DEF IInv, Aimed, ReqType
    <3> QED BY <3>1 DEF ReqType
  <2> QED BY <2>1, <2>2 DEF TypeOK, Types, FileType, ImpType
<1> QED BY <1>1, Inductive, PTL

\* Whatever fails or crashes, an identity that the import did not give a file
\* was chosen by a decision about it ("the decision row is the audit anchor").
THEOREM EveryIdentityAudited == Spec => []Audited
<1>1. IInv => Audited
  BY DEF IInv
<1> QED BY <1>1, Inductive, PTL

\* Once a decision has superseded the others, every older one of its file is
\* superseded, for any number of operators deciding at once with a scan.
THEOREM DecisionsSettle == Spec => []Settled
<1>1. IInv => Settled
  BY DEF IInv
<1> QED BY <1>1, Inductive, PTL

\* No file is decided by scans twice, so none undoes what an operator decided
\* after the first (loadKnownPaths).
THEOREM FileDecidedOnce == Spec => []DecidedOnce
<1>1. IInv => DecidedOnce
  BY DEF IInv
<1> QED BY <1>1, Inductive, PTL

\* A detached row stays detached, also under a match or a scan in progress.
THEOREM DetachedRowStays == Spec => StaysDetached
<1>1. ASSUME IInv, [Next]_vars
      PROVE  [\A f \in Files : file[f].path /= None /\ ~file[f].live => ~file'[f].live]_file
  BY <1>1, DetachedStep
<1> QED BY <1>1, Inductive, PTL DEF Spec, StaysDetached

-----------------------------------------------------------------------------
\* A behaviour of the deciders is one of each of them.
LEMMA EachDecides == DecideSpec => SelectSpec /\ MatchSpec /\ Spec
<1>1. DecideInit => SelectInit /\ MatchInit /\ Init
  BY DEF DecideInit
<1>2. [DecideNext]_<<selectVars, matchVars, vars>> => /\ [SelectNext]_selectVars
                                                      /\ [MatchNext]_matchVars
                                                      /\ [Next]_vars
  BY DEF DecideNext, SelectionRests, MatcherRests, LibraryRests
<1> QED BY <1>1, <1>2, PTL DEF DecideSpec, SelectSpec, MatchSpec, Spec

\* Beside each other the deciders keep what each keeps.
THEOREM DecidersHold ==
    DecideSpec => [](BestSeen /\ VerdictsStand /\ OrderFree /\ Settled /\ DecidedOnce)
BY EachDecides, OpenIsBest, VerdictsHold, IdOrderFree, DecisionsSettle, FileDecidedOnce, PTL
=============================================================================
