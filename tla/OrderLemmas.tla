----------------------------- MODULE OrderLemmas -----------------------------
(***************************************************************************)
(* Numbers and finite sets: least and greatest elements, induction and     *)
(* recursion up to a bound, and sums over the elements of a set. A          *)
(* recursive function reaches the provers as a CHOOSE, so what is shown    *)
(* first is that there is such a function.                                 *)
(***************************************************************************)
EXTENDS FiniteSetsExt, FiniteSetTheorems, WellFoundedInduction, TLAPS

(* A set of natural numbers that is not empty has a least element.         *)
LEMMA LeastExists ==
  ASSUME NEW T, T \subseteq Nat, T # {}
  PROVE  \E x \in T : \A y \in T : x <= y
<1>1. PICK x \in T : \A y \in T : ~ (<<y, x>> \in OpToRel(<, Nat))
  BY NatLessThanWellFounded, WFMin
<1>2. \A y \in T : ~ (y < x)
  BY <1>1, Zenon DEF OpToRel
<1>3. x \in Nat /\ \A y \in T : y \in Nat
  OBVIOUS
<1>4. \A y \in T : x <= y
  <2> HIDE <1>1
  <2> QED BY <1>2, <1>3, SMT
<1> QED
  BY <1>4

(* Min is such an element.                                                 *)
LEMMA MinIsLeast ==
  ASSUME NEW T, T \subseteq Nat, T # {}
  PROVE  Min(T) \in T /\ \A y \in T : Min(T) <= y
BY LeastExists DEF Min

(* A bounded set of natural numbers has a greatest element, which is Max:  *)
(* it is the least of its upper bounds.                                    *)
LEMMA MaxIsGreatest ==
  ASSUME NEW T, T \subseteq Nat, T # {}, NEW n \in Nat, \A y \in T : y <= n
  PROVE  Max(T) \in T /\ \A y \in T : y <= Max(T)
<1> DEFINE B == {b \in Nat : \A y \in T : y <= b}
<1>1. B \subseteq Nat /\ B # {}
  OBVIOUS
<1>2. PICK b \in B : \A c \in B : b <= c
  BY <1>1, LeastExists
<1>3. b \in T
  <2>1. SUFFICES ASSUME b \notin T PROVE FALSE
    OBVIOUS
  <2>2. PICK t \in T : TRUE
    OBVIOUS
  <2>3. t \in Nat /\ b \in Nat /\ t <= b /\ t # b
    BY <2>1
  <2>4. b - 1 \in Nat /\ \A y \in T : y <= b - 1
    BY <2>1, <2>3
  <2>5. b <= b - 1
    BY <1>2, <2>4
  <2> QED
    BY <2>3, <2>5
<1>4. \A y \in T : b >= y
  BY <1>1
<1>5. Max(T) \in T /\ \A y \in T : Max(T) >= y
  BY <1>3, <1>4 DEF Max
<1>6. \A y \in T : Max(T) \in Nat /\ y \in Nat
  BY <1>5
<1> QED
  BY <1>5, <1>6

(* There is only one.                                                      *)
LEMMA MinIs ==
  ASSUME NEW T, T \subseteq Nat, NEW x \in T, \A y \in T : x <= y
  PROVE  Min(T) = x
<1>1. Min(T) \in T /\ \A y \in T : Min(T) <= y
  BY MinIsLeast
<1>2. x <= Min(T) /\ Min(T) <= x
  BY <1>1
<1>3. x \in Nat /\ Min(T) \in Nat
  BY <1>1
<1> QED
  BY <1>2, <1>3

LEMMA MaxIs ==
  ASSUME NEW T, T \subseteq Nat, NEW x \in T, \A y \in T : y <= x
  PROVE  Max(T) = x
<1>1. x \in Nat
  OBVIOUS
<1>2. Max(T) \in T /\ \A y \in T : y <= Max(T)
  BY <1>1, MaxIsGreatest
<1>3. x <= Max(T) /\ Max(T) <= x
  BY <1>2
<1>4. Max(T) \in Nat
  BY <1>2
<1> QED
  BY <1>1, <1>3, <1>4

(* Two different elements make a finite set of at least two.               *)
LEMMA TwoElements ==
  ASSUME NEW S, IsFiniteSet(S), NEW x \in S, NEW y \in S, x # y
  PROVE  Cardinality(S) >= 2
<1>1. IsFiniteSet({x}) /\ Cardinality({x}) = 1
  BY FS_Singleton
<1>2. Cardinality({x} \cup {y}) = Cardinality({x}) + 1
  <2>1. y \notin {x}
    OBVIOUS
  <2>2. Cardinality({x} \cup {y}) =
           IF y \in {x} THEN Cardinality({x}) ELSE Cardinality({x}) + 1
    BY <1>1, FS_AddElement, Zenon
  <2> QED
    BY <2>1, <2>2, Zenon
<1>3. {x} \cup {y} \in SUBSET S
  OBVIOUS
<1>4. Cardinality({x} \cup {y}) <= Cardinality(S)
  BY <1>3, FS_Subset
<1>5. Cardinality(S) \in Nat
  BY FS_CardinalityType
<1> QED
  BY <1>1, <1>2, <1>4, <1>5

-----------------------------------------------------------------------------
(* Induction, and recursion, up to a bound and down from it. Sets stand    *)
(* for predicates and functions for operators.                             *)

LEMMA UpwardInduction ==
  ASSUME NEW n \in Nat, NEW T,
         0 \in T, \A i \in 0..(n - 1) : i \in T => i + 1 \in T
  PROVE  \A i \in 0..n : i \in T
<1> SUFFICES ASSUME NEW k \in 0..n, k \notin T PROVE FALSE
  OBVIOUS
<1> DEFINE U == {i \in 0..n : i \notin T}
<1>1. PICK i \in U : \A j \in U : i <= j
  <2>1. U \subseteq Nat /\ U # {}
    OBVIOUS
  <2> QED  BY <2>1, LeastExists
<1>2. i # 0 /\ i - 1 \in 0..(n - 1) /\ i - 1 \in 0..n
  OBVIOUS
<1>3. i - 1 \in T
  BY <1>1, <1>2
<1> QED  BY <1>2, <1>3

LEMMA DownwardInduction ==
  ASSUME NEW n \in Nat, NEW T,
         n \in T, \A i \in 0..(n - 1) : i + 1 \in T => i \in T
  PROVE  \A i \in 0..n : i \in T
<1> DEFINE U == {i \in 0..n : n - i \in T}
<1>1. 0 \in U
  OBVIOUS
<1>2. \A i \in 0..(n - 1) : i \in U => i + 1 \in U
  <2> SUFFICES ASSUME NEW i \in 0..(n - 1), i \in U PROVE i + 1 \in U
    OBVIOUS
  <2>1. n - (i + 1) \in 0..(n - 1) /\ (n - (i + 1)) + 1 = n - i /\ i + 1 \in 0..n
    OBVIOUS
  <2> QED  BY <2>1
<1>3. \A i \in 0..n : i \in U
  <2> HIDE DEF U
  <2> QED  BY <1>1, <1>2, UpwardInduction
<1> SUFFICES ASSUME NEW i \in 0..n PROVE i \in T
  OBVIOUS
<1>4. n - i \in 0..n /\ n - (n - i) = i
  OBVIOUS
<1> QED  BY <1>3, <1>4

(* A function may be defined from its own values at smaller numbers.       *)
Steps(f, n, a, g) == f[0] = a /\ \A i \in 1..n : f[i] = g[i][f[i - 1]]

LEMMA DropRecursion ==
  ASSUME NEW D, NEW n \in Nat, NEW a \in D, NEW g \in [1..n -> [D -> D]]
  PROVE  \E f \in [0..n -> D] : Steps(f, n, a, g)
<1> DEFINE Good(f, k) == \A i \in 0..k : f[i] = IF i = 0 THEN a ELSE g[i][f[i - 1]]
           T == {k \in 0..n : \E f \in [0..n -> D] : Good(f, k)}
<1>1. 0 \in T
  <2> DEFINE f == [i \in 0..n |-> a]
  <2>1. f \in [0..n -> D]
    OBVIOUS
  <2>2. Good(f, 0)
    OBVIOUS
  <2>3. 0 \in 0..n
    OBVIOUS
  <2> HIDE DEF Good, f
  <2> QED  BY <2>1, <2>2, <2>3
<1>2. \A k \in 0..(n - 1) : k \in T => k + 1 \in T
  <2> SUFFICES ASSUME NEW k \in 0..(n - 1), k \in T PROVE k + 1 \in T
    OBVIOUS
  <2>1. PICK f \in [0..n -> D] : Good(f, k)
    OBVIOUS
  <2> DEFINE h == [i \in 0..n |-> IF i = k + 1 THEN g[k + 1][f[k]] ELSE f[i]]
  <2>2. k \in 0..n /\ k + 1 \in 1..n /\ k + 1 \in 0..n
    OBVIOUS
  <2>3. h \in [0..n -> D]
    BY <2>2
  <2>4. \A i \in 0..(k + 1) : h[i] = IF i = 0 THEN a ELSE g[i][h[i - 1]]
    <3> SUFFICES ASSUME NEW i \in 0..(k + 1)
                 PROVE  h[i] = IF i = 0 THEN a ELSE g[i][h[i - 1]]
      OBVIOUS
    <3>1. CASE i = k + 1
      <4>1. h[i - 1] = f[k] /\ h[i] = g[k + 1][f[k]]
        BY <3>1, <2>2
      <4> QED  BY <3>1, <4>1
    <3>2. CASE i # k + 1
      <4>1. i \in 0..k /\ i \in 0..n /\ (i # 0 => i - 1 \in 0..n /\ i - 1 # k + 1)
        BY <3>2
      <4>2. h[i] = f[i] /\ (i # 0 => h[i - 1] = f[i - 1])
        BY <3>2, <4>1
      <4> QED  BY <4>1, <4>2, <2>1
    <3> QED  BY <3>1, <3>2
  <2> QED  BY <2>2, <2>3, <2>4
<1>3. n \in T
  <2> HIDE DEF T
  <2>1. \A i \in 0..n : i \in T
    BY <1>1, <1>2, UpwardInduction
  <2> QED  BY <2>1
<1>4. PICK f \in [0..n -> D] : Good(f, n)
  BY <1>3
<1> QED  BY <1>4 DEF Steps

(* Or from its value further up, if that stops somewhere.                  *)
Jumps(f, S, R, next, base, g) ==
  \A o \in S : f[o] = IF o \in R THEN g[o][f[next[o]]] ELSE base[o]

LEMMA JumpRecursion ==
  ASSUME NEW D, NEW S, S \subseteq Nat, NEW n \in Nat,
         NEW R, R \subseteq S, \A o \in R : o <= n,
         NEW next \in [R -> S], \A o \in R : o < next[o],
         NEW base \in [S -> D], NEW g \in [R -> [D -> D]]
  PROVE  \E f \in [S -> D] : Jumps(f, S, R, next, base, g)
<1> DEFINE Value(f, o) == IF o \in R THEN g[o][f[next[o]]] ELSE base[o]
           T == {k \in 0..(n + 1) :
                   \E f \in [S -> D] : \A o \in S : o >= k => f[o] = Value(f, o)}
<1>1. n + 1 \in T
  <2>1. \A o \in S : o >= n + 1 => base[o] = Value(base, o)
    OBVIOUS
  <2> QED  BY <2>1
<1>2. \A k \in 0..((n + 1) - 1) : k + 1 \in T => k \in T
  <2> SUFFICES ASSUME NEW k \in 0..n, k + 1 \in T PROVE k \in T
    OBVIOUS
  <2>1. PICK f \in [S -> D] : \A o \in S : o >= k + 1 => f[o] = Value(f, o)
    OBVIOUS
  <2> DEFINE h == [o \in S |-> IF o = k THEN Value(f, k) ELSE f[o]]
  <2>2. h \in [S -> D]
    <3>1. k \in S => Value(f, k) \in D
      <4>1. k \in R => next[k] \in S /\ g[k] \in [D -> D]
        OBVIOUS
      <4> QED  BY <4>1
    <3> QED  BY <3>1
  <2>3. ASSUME NEW o \in S, o >= k PROVE h[o] = Value(h, o)
    <3>1. Value(h, o) = Value(f, o)
      <4>1. o \in R => next[o] \in S /\ next[o] # k
        BY <2>3
      <4>2. o \in R => h[next[o]] = f[next[o]]
        BY <4>1
      <4> QED  BY <4>2
    <3>2. o # k => o >= k + 1
      BY <2>3
    <3>3. h[o] = IF o = k THEN Value(f, k) ELSE f[o]
      OBVIOUS
    <3> HIDE DEF Value, h
    <3> QED  BY <2>1, <3>1, <3>2, <3>3
  <2>4. k \in 0..(n + 1)
    OBVIOUS
  <2> HIDE DEF Value, h
  <2> QED  BY <2>2, <2>3, <2>4
<1>3. 0 \in T
  <2> HIDE DEF T
  <2>1. n + 1 \in Nat
    OBVIOUS
  <2>2. \A i \in 0..(n + 1) : i \in T
    BY <1>1, <1>2, <2>1, DownwardInduction
  <2> QED  BY <2>2
<1>4. PICK f \in [S -> D] : \A o \in S : o >= 0 => f[o] = Value(f, o)
  BY <1>3
<1>5. \A o \in S : o >= 0
  OBVIOUS
<1> QED  BY <1>4, <1>5 DEF Jumps

-----------------------------------------------------------------------------
(* The sum over a finite set, one element chosen after another as the folds *)
(* of the community modules do, does not depend on the choice.             *)
Pick(s) == CHOOSE x \in s : TRUE
AddsUp(f, e, S) ==
  f = [s \in SUBSET S |-> IF s = {} THEN 0 ELSE e[Pick(s)] + f[s \ {Pick(s)}]]

LEMMA PickIsElement == ASSUME NEW s, s # {} PROVE Pick(s) \in s
BY DEF Pick

(* Taking an element off a finite set makes it smaller by one.             *)
LEMMA OneLess ==
  ASSUME NEW S, IsFiniteSet(S), NEW s \in SUBSET S, NEW x \in s
  PROVE  /\ s \ {x} \in SUBSET S
         /\ Cardinality(s) \in Nat /\ Cardinality(s \ {x}) = Cardinality(s) - 1
         /\ Cardinality(s \ {x}) \in Nat
<1>1. IsFiniteSet(s)
  BY FS_Subset
<1>2. IsFiniteSet(s \ {x}) /\ Cardinality(s \ {x}) = Cardinality(s) - 1
  BY <1>1, FS_RemoveElement
<1> QED  BY <1>1, <1>2, FS_CardinalityType

LEMMA SumExists ==
  ASSUME NEW S, IsFiniteSet(S), NEW e \in [S -> Nat]
  PROVE  \E f \in [SUBSET S -> Nat] : AddsUp(f, e, S)
<1> DEFINE Value(f, s) == IF s = {} THEN 0 ELSE e[Pick(s)] + f[s \ {Pick(s)}]
           Good(f, c) == \A s \in SUBSET S : Cardinality(s) <= c => f[s] = Value(f, s)
           T == {c \in Nat : \E f \in [SUBSET S -> Nat] : Good(f, c)}
<1>1. \A s \in SUBSET S :
        /\ IsFiniteSet(s) /\ Cardinality(s) \in Nat
        /\ Cardinality(s) <= Cardinality(S)
        /\ Cardinality(s) = 0 <=> s = {}
  BY FS_Subset, FS_CardinalityType, FS_EmptySet
<1>2. 0 \in T
  <2> DEFINE f == [s \in SUBSET S |-> 0]
  <2>1. f \in [SUBSET S -> Nat]
    OBVIOUS
  <2>2. Good(f, 0)
    BY <1>1
  <2> HIDE DEF Good, f
  <2> QED  BY <2>1, <2>2
<1>3. \A c \in 0..(Cardinality(S) - 1) : c \in T => c + 1 \in T
  <2> SUFFICES ASSUME NEW c \in 0..(Cardinality(S) - 1), c \in T PROVE c + 1 \in T
    OBVIOUS
  <2>1. PICK f \in [SUBSET S -> Nat] : Good(f, c)
    OBVIOUS
  <2> DEFINE h == [s \in SUBSET S |-> IF Cardinality(s) = c + 1 THEN Value(f, s) ELSE f[s]]
  <2>2. \A s \in SUBSET S :
          s # {} => /\ Pick(s) \in S /\ s \ {Pick(s)} \in SUBSET S
                    /\ Cardinality(s \ {Pick(s)}) = Cardinality(s) - 1
    BY PickIsElement, OneLess
  <2>3. h \in [SUBSET S -> Nat]
    <3>1. ASSUME NEW s \in SUBSET S PROVE Value(f, s) \in Nat
      <4>1. CASE s = {}
        BY <4>1
      <4>2. CASE s # {}
        <5>1. e[Pick(s)] \in Nat /\ f[s \ {Pick(s)}] \in Nat
          BY <2>2, <4>2
        <5> QED  BY <5>1
      <4> QED  BY <4>1, <4>2
    <3> HIDE DEF Value
    <3> QED  BY <3>1
  <2>4. ASSUME NEW s \in SUBSET S, Cardinality(s) <= c + 1
        PROVE  h[s] = Value(h, s)
    <3>1. Value(h, s) = Value(f, s)
      <4>1. s # {} => Cardinality(s \ {Pick(s)}) # c + 1 /\ s \ {Pick(s)} \in SUBSET S
        BY <2>2, <2>4, <1>1
      <4>2. s # {} => h[s \ {Pick(s)}] = f[s \ {Pick(s)}]
        BY <4>1
      <4> HIDE DEF h
      <4> QED  BY <4>2
    <3>2. Cardinality(s) # c + 1 => Cardinality(s) <= c
      BY <2>4, <1>1
    <3>3. h[s] = IF Cardinality(s) = c + 1 THEN Value(f, s) ELSE f[s]
      OBVIOUS
    <3> HIDE DEF Value, h
    <3> QED  BY <2>1, <3>1, <3>2, <3>3
  <2>5. Good(h, c + 1)
    BY <2>4
  <2> HIDE DEF Good, h
  <2> QED  BY <2>3, <2>5
<1>4. Cardinality(S) \in T
  <2> HIDE DEF T
  <2>1. Cardinality(S) \in Nat
    BY FS_CardinalityType
  <2>2. \A c \in 0..Cardinality(S) : c \in T
    BY <1>2, <1>3, <2>1, UpwardInduction
  <2> QED  BY <2>1, <2>2
<1>5. PICK f \in [SUBSET S -> Nat] : Good(f, Cardinality(S))
  BY <1>4
<1>6. f = [s \in SUBSET S |-> Value(f, s)]
  <2> HIDE DEF Value
  <2> QED  BY <1>1, <1>5
<1> QED  BY <1>6 DEF AddsUp

(* Any element may be the first, and only the elements' values count.      *)
LEMMA SumSplits ==
  ASSUME NEW S, IsFiniteSet(S), NEW e \in [S -> Nat], NEW f, AddsUp(f, e, S)
  PROVE  /\ f[{}] = 0
         /\ \A s \in SUBSET S : f[s] \in Nat
         /\ \A s \in SUBSET S : \A y \in s : f[s] = e[y] + f[s \ {y}]
<1> DEFINE Fine(s) == f[s] \in Nat /\ \A y \in s : f[s] = e[y] + f[s \ {y}]
           T == {c \in Nat : \A s \in SUBSET S : Cardinality(s) <= c => Fine(s)}
<1>1. \A s \in SUBSET S :
        /\ IsFiniteSet(s) /\ Cardinality(s) \in Nat
        /\ Cardinality(s) <= Cardinality(S)
        /\ Cardinality(s) = 0 <=> s = {}
  BY FS_Subset, FS_CardinalityType, FS_EmptySet
<1>2. f[{}] = 0
  BY DEF AddsUp
<1>3. 0 \in T
  BY <1>1, <1>2
<1>4. ASSUME NEW c \in 0..(Cardinality(S) - 1), c \in T,
             NEW s \in SUBSET S, Cardinality(s) = c + 1
      PROVE  Fine(s)
  <2> DEFINE x == Pick(s)
  <2>1. \A t \in SUBSET S : Cardinality(t) <= c => Fine(t)
    BY <1>4
  <2>2. s # {} /\ c \in Nat
    BY <1>1, <1>4
  <2>3. x \in s /\ x \in S
    BY <2>2, PickIsElement
  <2>4. f[s] = e[x] + f[s \ {x}]
    BY <2>2 DEF AddsUp
  <2> HIDE DEF x
  <2>5. \A y \in s : s \ {y} \in SUBSET S /\ Cardinality(s \ {y}) = c
    <3>1. \A y \in s : /\ s \ {y} \in SUBSET S /\ Cardinality(s) \in Nat
                     /\ Cardinality(s \ {y}) = Cardinality(s) - 1
      BY OneLess
    <3>2. Cardinality(s) = c + 1
      BY <1>4
    <3> QED  BY <2>2, <3>1, <3>2
  <2>6. \A y \in s : Fine(s \ {y})
    <3> HIDE DEF Fine
    <3> QED  BY <2>1, <2>2, <2>5
  <2>7. f[s] \in Nat
    <3>1. e[x] \in Nat /\ f[s \ {x}] \in Nat
      BY <2>3, <2>6
    <3> QED  BY <2>4, <3>1
  <2>8. ASSUME NEW y \in s PROVE f[s] = e[y] + f[s \ {y}]
    <3>1. CASE y = x
      BY <3>1, <2>4
    <3>2. CASE y # x
      <4> DEFINE u == (s \ {x}) \ {y}
      <4>1. f[s \ {x}] = e[y] + f[u]
        BY <2>6, <2>3, <3>2
      <4>2. f[s \ {y}] = e[x] + f[u]
        <5>1. f[s \ {y}] = e[x] + f[(s \ {y}) \ {x}]
          BY <2>6, <2>3, <3>2
        <5>2. (s \ {y}) \ {x} = u
          OBVIOUS
        <5> QED  BY <5>1, <5>2
      <4>3. f[u] \in Nat
        <5>1. s \ {x} \in SUBSET S /\ y \in s \ {x} /\ Cardinality(s \ {x}) = c
          BY <2>3, <2>5, <3>2
        <5>2. u \in SUBSET S /\ Cardinality(u) = c - 1 /\ Cardinality(u) \in Nat
          BY <5>1, OneLess
        <5> QED  BY <5>2, <2>1, <2>2
      <4>4. e[x] \in Nat /\ e[y] \in Nat
        BY <2>3
      <4> HIDE DEF u
      <4> QED  BY <2>4, <4>1, <4>2, <4>3, <4>4
    <3> QED  BY <3>1, <3>2
  <2> QED  BY <2>7, <2>8
<1>5. Cardinality(S) \in Nat
  BY FS_CardinalityType
<1>6. \A c \in 0..Cardinality(S) : c \in T
  <2>1. ASSUME NEW c \in 0..(Cardinality(S) - 1), c \in T PROVE c + 1 \in T
    <3>1. \A s \in SUBSET S : Cardinality(s) <= c => Fine(s)
      BY <2>1
    <3>2. \A s \in SUBSET S : Cardinality(s) <= c + 1 => Cardinality(s) <= c \/ Cardinality(s) = c + 1
      BY <1>1
    <3>3. \A s \in SUBSET S : Cardinality(s) <= c + 1 => Fine(s)
      <4> HIDE DEF Fine, T
      <4> QED  BY <1>4, <2>1, <3>1, <3>2
    <3> HIDE DEF Fine
    <3> QED  BY <3>3
  <2> HIDE DEF T
  <2> QED  BY <1>3, <2>1, <1>5, UpwardInduction
<1>7. \A s \in SUBSET S : Fine(s)
  BY <1>1, <1>5, <1>6
<1> QED  BY <1>2, <1>7

(* Sums of the same values are the same, whatever the sets were part of.   *)
LEMMA SumsAgree ==
  ASSUME NEW S, IsFiniteSet(S), NEW e \in [S -> Nat], NEW f, AddsUp(f, e, S),
         NEW U \in SUBSET S, NEW d \in [U -> Nat], NEW h, AddsUp(h, d, U),
         \A x \in U : d[x] = e[x]
  PROVE  h[U] = f[U]
<1> DEFINE T == {c \in Nat : \A s \in SUBSET U : Cardinality(s) = c => h[s] = f[s]}
<1>1. /\ IsFiniteSet(U) /\ Cardinality(U) \in Nat
      /\ \A s \in SUBSET U :
           /\ s \in SUBSET S /\ Cardinality(s) \in Nat
           /\ Cardinality(s) = 0 <=> s = {}
  <2>1. IsFiniteSet(U)
    BY FS_Subset
  <2> QED  BY <2>1, FS_Subset, FS_CardinalityType, FS_EmptySet
<1>2. /\ h[{}] = 0 /\ f[{}] = 0
      /\ \A s \in SUBSET U : \A y \in s :
           h[s] = d[y] + h[s \ {y}] /\ f[s] = e[y] + f[s \ {y}]
  <2>1. h[{}] = 0 /\ \A s \in SUBSET U : \A y \in s : h[s] = d[y] + h[s \ {y}]
    BY <1>1, SumSplits
  <2>2. f[{}] = 0 /\ \A s \in SUBSET S : \A y \in s : f[s] = e[y] + f[s \ {y}]
    BY SumSplits
  <2> QED  BY <2>1, <2>2
<1>3. 0 \in T
  BY <1>1, <1>2
<1>4. ASSUME NEW c \in 0..(Cardinality(U) - 1), c \in T PROVE c + 1 \in T
  <2> SUFFICES ASSUME NEW s \in SUBSET U, Cardinality(s) = c + 1 PROVE h[s] = f[s]
    BY <1>1
  <2>1. PICK y \in s : TRUE
    BY <1>1
  <2>2. s \ {y} \in SUBSET U /\ Cardinality(s \ {y}) = c
    <3>1. s \ {y} \in SUBSET U /\ Cardinality(s \ {y}) = Cardinality(s) - 1
      BY <1>1, OneLess
    <3> QED  BY <1>1, <3>1
  <2>3. h[s \ {y}] = f[s \ {y}]
    BY <1>4, <2>2
  <2>4. h[s] = d[y] + h[s \ {y}] /\ f[s] = e[y] + f[s \ {y}]
    BY <1>2, <2>1
  <2>5. d[y] = e[y]
    BY <2>1
  <2> QED  BY <2>3, <2>4, <2>5
<1>5. \A c \in 0..Cardinality(U) : c \in T
  <2> HIDE DEF T
  <2> QED  BY <1>1, <1>3, <1>4, UpwardInduction
<1> QED  BY <1>1, <1>5

=============================================================================
