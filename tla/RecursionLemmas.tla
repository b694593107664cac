--------------------------- MODULE RecursionLemmas ---------------------------
(***************************************************************************)
(* Numbers, lists and recursion: induction over a set of numbers, that a   *)
(* definition by recursion has the value its text says, and the operators  *)
(* on finite sets and lists that the proofs meet.                          *)
(***************************************************************************)
EXTENDS Naturals, Sequences, FiniteSets, FiniteSetsExt, SequencesExt, FiniteSetTheorems,
        SequenceTheorems, NaturalsInduction, WellFoundedInduction, TLAPS

(* Induction and recursion.                                                *)

(* The least number of a set: what induction on numbers rests on here.     *)
LEMMA LeastNumber ==
    ASSUME NEW T, T \subseteq Nat, T # {}
    PROVE  \E n \in T: \A m \in T: n <= m
<1>. DEFINE R == OpToRel(<, Nat)
<1>1. IsWellFoundedOn(R, Nat)
  BY NatLessThanWellFounded
<1>2. \A m, n \in Nat: <<m, n>> \in R <=> m < n
  BY DEF OpToRel
<1>. HIDE DEF R
<1>3. PICK n \in T: \A m \in T: ~ (<<m, n>> \in R)
  BY <1>1, WFMin
<1>4. \A m \in T: ~ (m < n)
  BY <1>2, <1>3
<1>5. \A m \in T: n <= m
  BY <1>4
<1>. QED  BY <1>5

(* A set of numbers that has each whose lower ones it has, has them all.   *)
LEMMA Inductively ==
    ASSUME NEW D, D \subseteq Nat, NEW S, S \subseteq D,
           \A i \in D: (\A j \in D: j < i => j \in S) => i \in S
    PROVE  S = D
<1>. SUFFICES ASSUME D \ S # {} PROVE FALSE
  OBVIOUS
<1>1. PICK n \in D \ S: \A m \in D \ S: n <= m
  BY LeastNumber
<1>2. \A j \in D: j < n => j \in S
  BY <1>1
<1>. QED  BY <1>1, <1>2

(* A definition by recursion has a solution: step is what makes the value  *)
(* of d from the values of lower rank.                                     *)
Solves(f, step, D) == \A d \in D: f[d] = step[<<f, d>>]
SolvesBelow(f, step, D, rank, n) == \A d \in D: rank[d] < n => f[d] = step[<<f, d>>]

Progresses(step, D, V, rank) ==
    \A f, g \in [D -> V], d \in D:
        (\A e \in D: rank[e] < rank[d] => f[e] = g[e]) => step[<<f, d>>] = step[<<g, d>>]

LEMMA SolutionsAgree ==
    ASSUME NEW D, NEW V, NEW rank \in [D -> Nat], NEW step,
           Progresses(step, D, V, rank),
           NEW f \in [D -> V], NEW g \in [D -> V], NEW n \in Nat, NEW m \in Nat,
           SolvesBelow(f, step, D, rank, n), SolvesBelow(g, step, D, rank, m)
    PROVE  \A d \in D: rank[d] < n /\ rank[d] < m => f[d] = g[d]
<1>. DEFINE Bad == {d \in D: rank[d] < n /\ rank[d] < m /\ f[d] # g[d]}
            T == {rank[d]: d \in Bad}
<1>. SUFFICES ASSUME Bad # {} PROVE FALSE
  OBVIOUS
<1>1. T \subseteq Nat /\ T # {}
  OBVIOUS
<1>2. PICK k \in T: \A j \in T: k <= j
  BY <1>1, LeastNumber
<1>3. PICK d \in Bad: k = rank[d]
  BY <1>2
<1>4. \A e \in D: rank[e] < rank[d] => f[e] = g[e]
  BY <1>2, <1>3
<1>5. step[<<f, d>>] = step[<<g, d>>]
  BY <1>4 DEF Progresses
<1>. QED  BY <1>3, <1>5 DEF SolvesBelow

LEMMA Recursion ==
    ASSUME NEW D, NEW V, V # {}, NEW rank \in [D -> Nat], NEW step \in [[D -> V] \X D -> V],
           Progresses(step, D, V, rank)
    PROVE  \E f \in [D -> V]: Solves(f, step, D)
<1>. DEFINE Q(n) == \E f \in [D -> V]: SolvesBelow(f, step, D, rank, n)
<1>1. Q(0)
  <2>1. PICK v \in V: TRUE
    OBVIOUS
  <2>2. [d \in D |-> v] \in [D -> V]
    BY <2>1
  <2>3. \A d \in D: ~ (rank[d] < 0)
    OBVIOUS
  <2>. QED  BY <2>2, <2>3 DEF SolvesBelow
<1>2. ASSUME NEW n \in Nat, Q(n)
      PROVE  Q(n + 1)
  <2>1. PICK f \in [D -> V]: SolvesBelow(f, step, D, rank, n)
    BY <1>2
  <2>. DEFINE g == [d \in D |-> IF rank[d] = n THEN step[<<f, d>>] ELSE f[d]]
  <2>2. g \in [D -> V]
    OBVIOUS
  <2>3. ASSUME NEW d \in D, rank[d] < n + 1
        PROVE  g[d] = step[<<g, d>>]
    <3>. HIDE DEF g
    <3>0. g[d] = IF rank[d] = n THEN step[<<f, d>>] ELSE f[d]
      BY DEF g
    <3>1. \A e \in D: rank[e] < rank[d] => f[e] = g[e]
      BY <2>3 DEF g
    <3>2. step[<<f, d>>] = step[<<g, d>>]
      BY <2>2, <3>1 DEF Progresses
    <3>3. CASE rank[d] = n
      BY <3>0, <3>2, <3>3
    <3>4. CASE rank[d] < n
      BY <2>1, <3>0, <3>2, <3>4 DEF SolvesBelow
    <3>5. rank[d] = n \/ rank[d] < n
      <4>1. rank[d] \in Nat /\ n \in Nat
        BY <2>3
      <4>. QED  BY <2>3, <4>1
    <3>. QED  BY <3>3, <3>4, <3>5
  <2>. HIDE DEF g
  <2>. QED  BY <2>2, <2>3 DEF SolvesBelow
<1>3. \A n \in Nat: Q(n)
  <2>. DEFINE T == {n \in Nat: ~Q(n)}
  <2>. SUFFICES ASSUME T # {} PROVE FALSE
    OBVIOUS
  <2>. HIDE DEF Q
  <2>0. T \subseteq Nat /\ T # {}
    OBVIOUS
  <2>1. PICK n \in T: \A m \in T: n <= m
    BY <2>0, LeastNumber
  <2>2. n # 0
    BY <1>1, <2>1
  <2>3. n - 1 \in Nat /\ n - 1 \notin T /\ (n - 1) + 1 = n
    BY <2>1, <2>2
  <2>4. Q(n - 1)
    BY <2>3
  <2>5. Q((n - 1) + 1)
    BY <1>2, <2>3, <2>4
  <2>6. Q(n)
    BY <2>3, <2>5
  <2>. QED  BY <2>1, <2>6
<1>. DEFINE part == [n \in Nat |-> CHOOSE f \in [D -> V]: SolvesBelow(f, step, D, rank, n)]
            whole == [d \in D |-> part[rank[d] + 1][d]]
<1>4. \A n \in Nat: part[n] \in [D -> V] /\ SolvesBelow(part[n], step, D, rank, n)
  BY <1>3
<1>. HIDE DEF part
<1>5. whole \in [D -> V]
  BY <1>4
<1>6. ASSUME NEW d \in D
      PROVE  whole[d] = step[<<whole, d>>]
  <2>. DEFINE f == part[rank[d] + 1]
  <2>1. f \in [D -> V] /\ SolvesBelow(f, step, D, rank, rank[d] + 1)
    BY <1>4
  <2>2. \A e \in D: rank[e] < rank[d] => f[e] = whole[e]
    <3>. SUFFICES ASSUME NEW e \in D, rank[e] < rank[d]
                  PROVE  f[e] = part[rank[e] + 1][e]
      OBVIOUS
    <3>1. /\ rank[e] + 1 \in Nat /\ rank[d] + 1 \in Nat
          /\ rank[e] < rank[e] + 1 /\ rank[e] < rank[d] + 1
      OBVIOUS
    <3>. DEFINE g == part[rank[e] + 1]
    <3>2. g \in [D -> V] /\ SolvesBelow(g, step, D, rank, rank[e] + 1)
      BY <1>4, <3>1
    <3>. HIDE DEF f, g
    <3>3. \A k \in D: rank[k] < rank[d] + 1 /\ rank[k] < rank[e] + 1 => f[k] = g[k]
      BY <2>1, <3>1, <3>2, SolutionsAgree
    <3>4. f[e] = g[e]
      BY <3>1, <3>3
    <3>. QED  BY <3>4 DEF g
  <2>3. step[<<f, d>>] = step[<<whole, d>>]
    BY <1>5, <2>1, <2>2 DEF Progresses
  <2>4. f[d] = step[<<f, d>>]
    <3>1. rank[d] < rank[d] + 1
      OBVIOUS
    <3>. HIDE DEF f
    <3>. QED  BY <2>1, <3>1 DEF SolvesBelow
  <2>5. whole[d] = f[d]
    OBVIOUS
  <2>. HIDE DEF f, whole
  <2>. QED  BY <2>3, <2>4, <2>5
<1>. HIDE DEF whole
<1>. QED  BY <1>5, <1>6 DEF Solves

(* A climb: below its ends, a value made from the one a step up.           *)
CanClimb(D, V, ends, up, base, join) ==
    /\ D \subseteq Nat /\ V # {} /\ ends \in SUBSET D
    /\ up \in [D \ ends -> D] /\ \A i \in D \ ends: up[i] < i
    /\ base \in [ends -> V] /\ join \in [(D \ ends) \X V -> V]

Climbed(f, D, ends, up, base, join) ==
    \A i \in D: f[i] = IF i \in ends THEN base[i] ELSE join[<<i, f[up[i]]>>]

LEMMA Climbing ==
    ASSUME NEW D, NEW V, NEW ends, NEW up, NEW base, NEW join,
           CanClimb(D, V, ends, up, base, join)
    PROVE  \E f \in [D -> V]: Climbed(f, D, ends, up, base, join)
<1>. DEFINE rank == [i \in D |-> i]
            step == [x \in [D -> V] \X D |->
                        IF x[2] \in ends THEN base[x[2]] ELSE join[<<x[2], x[1][up[x[2]]]>>]]
<1>. USE DEF CanClimb
<1>1. rank \in [D -> Nat]
  OBVIOUS
<1>2. \A f \in [D -> V], i \in D:
        step[<<f, i>>] = IF i \in ends THEN base[i] ELSE join[<<i, f[up[i]]>>]
  OBVIOUS
<1>3. step \in [[D -> V] \X D -> V]
  <2>. SUFFICES ASSUME NEW f \in [D -> V], NEW i \in D
                PROVE  (IF i \in ends THEN base[i] ELSE join[<<i, f[up[i]]>>]) \in V
    OBVIOUS
  <2>1. CASE i \in ends
    BY <2>1
  <2>2. CASE i \notin ends
    <3>1. up[i] \in D /\ f[up[i]] \in V
      BY <2>2
    <3>2. <<i, f[up[i]]>> \in (D \ ends) \X V
      BY <2>2, <3>1
    <3>. QED  BY <2>2, <3>2
  <2>. QED  BY <2>1, <2>2
<1>4. Progresses(step, D, V, rank)
  <2>. SUFFICES ASSUME NEW f \in [D -> V], NEW g \in [D -> V], NEW i \in D,
                       \A e \in D: rank[e] < rank[i] => f[e] = g[e]
                PROVE  step[<<f, i>>] = step[<<g, i>>]
    BY DEF Progresses
  <2>1. i \notin ends => f[up[i]] = g[up[i]]
    OBVIOUS
  <2>. HIDE DEF step
  <2>2. /\ step[<<f, i>>] = IF i \in ends THEN base[i] ELSE join[<<i, f[up[i]]>>]
        /\ step[<<g, i>>] = IF i \in ends THEN base[i] ELSE join[<<i, g[up[i]]>>]
    BY <1>2
  <2>. QED  BY <2>1, <2>2
<1>. HIDE DEF step, rank
<1>5. PICK f \in [D -> V]: Solves(f, step, D)
  BY <1>1, <1>3, <1>4, Recursion
<1>. QED  BY <1>2, <1>5 DEF Solves, Climbed

(* The closure of a relation that goes down: what a node has of its own    *)
(* and what those below it have.                                           *)
IsClosure(f, D, own, up) == f = [i \in D |-> own[i] \cup UNION {f[p]: p \in up[i]}]

CanClose(D, own, up) ==
    /\ D \subseteq Nat /\ own \in [D -> SUBSET D] /\ up \in [D -> SUBSET D]
    /\ \A i \in D: \A p \in up[i]: p < i

LEMMA Closure ==
    ASSUME NEW D, NEW own, NEW up, CanClose(D, own, up)
    PROVE  /\ \E f \in [D -> SUBSET D]: IsClosure(f, D, own, up)
           /\ \A f: IsClosure(f, D, own, up) => f \in [D -> SUBSET D]
<1>. DEFINE V == SUBSET D
            rank == [i \in D |-> i]
            step == [x \in [D -> V] \X D |-> own[x[2]] \cup UNION {x[1][p]: p \in up[x[2]]}]
<1>0. /\ D \subseteq Nat
      /\ \A i \in D: own[i] \subseteq D /\ up[i] \subseteq D /\ \A p \in up[i]: p \in D /\ p < i
  BY DEF CanClose
<1>1. \A f \in [D -> V], i \in D: step[<<f, i>>] = own[i] \cup UNION {f[p]: p \in up[i]}
  OBVIOUS
<1>2. rank \in [D -> Nat] /\ V # {}
  BY <1>0
<1>3. step \in [[D -> V] \X D -> V]
  <2>. SUFFICES ASSUME NEW f \in [D -> V], NEW i \in D
                PROVE  own[i] \cup UNION {f[p]: p \in up[i]} \in V
    OBVIOUS
  <2>1. \A p \in up[i]: f[p] \subseteq D
    BY <1>0
  <2>2. own[i] \cup UNION {f[p]: p \in up[i]} \subseteq D
    BY <1>0, <2>1
  <2>. QED  BY <2>2
<1>4. Progresses(step, D, V, rank)
  <2>. SUFFICES ASSUME NEW f \in [D -> V], NEW g \in [D -> V], NEW i \in D,
                       \A e \in D: rank[e] < rank[i] => f[e] = g[e]
                PROVE  step[<<f, i>>] = step[<<g, i>>]
    BY DEF Progresses
  <2>1. \A p \in up[i]: f[p] = g[p]
    BY <1>0
  <2>2. {f[p]: p \in up[i]} = {g[p]: p \in up[i]}
    BY <2>1
  <2>. HIDE DEF step
  <2>3. /\ step[<<f, i>>] = own[i] \cup UNION {f[p]: p \in up[i]}
        /\ step[<<g, i>>] = own[i] \cup UNION {g[p]: p \in up[i]}
    BY <1>1
  <2>. QED  BY <2>2, <2>3
<1>. HIDE DEF step, rank
<1>5. PICK f \in [D -> V]: Solves(f, step, D)
  BY <1>2, <1>3, <1>4, Recursion
<1>6. IsClosure(f, D, own, up)
  <2>1. \A i \in D: f[i] = own[i] \cup UNION {f[p]: p \in up[i]}
    BY <1>1, <1>5 DEF Solves
  <2>2. f = [i \in D |-> f[i]]
    BY <1>5
  <2>. QED  BY <2>1, <2>2 DEF IsClosure
<1>7. ASSUME NEW g, IsClosure(g, D, own, up)
      PROVE  g \in [D -> V]
  <2>1. \A i \in D: g[i] = own[i] \cup UNION {g[p]: p \in up[i]}
    BY <1>7 DEF IsClosure
  <2>2. g = [i \in D |-> g[i]]
    BY <1>7 DEF IsClosure
  <2>. DEFINE S == {i \in D: g[i] \in V}
  <2>3. ASSUME NEW i \in D, \A j \in D: j < i => j \in S
        PROVE  i \in S
    <3>1. \A p \in up[i]: g[p] \subseteq D
      BY <1>0, <2>3
    <3>2. g[i] \subseteq D
      BY <1>0, <2>1, <3>1
    <3>. QED  BY <3>2
  <2>4. S = D
    <3>. HIDE DEF S
    <3>1. S \subseteq D
      BY DEF S
    <3>. QED  BY <1>0, <2>3, <3>1, Inductively
  <2>. QED  BY <2>2, <2>4
<1>. QED  BY <1>5, <1>6, <1>7

(* What holds at the ends, and at a step if it holds a step up.            *)
Falls(S, D, ends, up) ==
    \A i \in D: \/ i \in ends /\ i \in S
                \/ i \notin ends /\ up[i] \in D /\ up[i] < i /\ (up[i] \in S => i \in S)

LEMMA ClimbsDown ==
    ASSUME NEW D, D \subseteq Nat, NEW S, S \subseteq D, NEW ends, NEW up, Falls(S, D, ends, up)
    PROVE  S = D
<1>1. \A i \in D: (\A j \in D: j < i => j \in S) => i \in S
  BY DEF Falls
<1>. QED  BY <1>1, Inductively

(* A finite set has a member where a number is greatest.                   *)
LEMMA GreatestOfList ==
    ASSUME NEW n \in Nat, n # 0, NEW h \in [1..n -> Nat]
    PROVE  \E k \in 1..n: \A j \in 1..n: h[j] <= h[k]
<1>. DEFINE S == {m \in 1..n: \E k \in 1..m: \A j \in 1..m: h[j] <= h[k]}
<1>1. ASSUME NEW m \in 1..n, \A i \in 1..n: i < m => i \in S
      PROVE  m \in S
  <2>0. m \in Nat /\ 1 <= m /\ m <= n
    OBVIOUS
  <2>1. CASE m = 1
    <3>1. 1 \in 1..m /\ h[1] \in Nat /\ \A j \in 1..m: j = 1
      BY <2>0, <2>1
    <3>2. h[1] <= h[1]
      BY <3>1
    <3>3. \A j \in 1..m: h[j] <= h[1]
      BY <3>1, <3>2
    <3>. QED  BY <3>1, <3>3
  <2>2. CASE m # 1
    <3>1. m - 1 \in S
      <4>1. m - 1 \in 1..n /\ m - 1 < m
        BY <2>0, <2>2
      <4>. QED  BY <1>1, <4>1
    <3>2. PICK k \in 1..(m - 1): \A j \in 1..(m - 1): h[j] <= h[k]
      BY <3>1
    <3>3. /\ \A j \in 1..m: j \in 1..(m - 1) \/ j = m
          /\ k \in 1..m /\ m \in 1..m /\ h[k] \in Nat /\ h[m] \in Nat
          /\ \A j \in 1..m: h[j] \in Nat
      BY <3>2
    <3>4. CASE h[m] <= h[k]
      <4>1. \A j \in 1..m: h[j] <= h[k]
        BY <3>2, <3>3, <3>4
      <4>. QED  BY <3>3, <4>1
    <3>5. CASE h[k] < h[m]
      <4>1. \A j \in 1..m: h[j] <= h[m]
        BY <3>2, <3>3, <3>5
      <4>. QED  BY <3>3, <4>1
    <3>. QED  BY <3>3, <3>4, <3>5
  <2>. QED  BY <2>1, <2>2
<1>2. S \subseteq 1..n /\ 1..n \subseteq Nat
  OBVIOUS
<1>3. n \in S
  <2>. DEFINE D == 1..n
  <2>1. D \subseteq Nat /\ S \subseteq D
    BY <1>2
  <2>2. \A i \in D: (\A j \in D: j < i => j \in S) => i \in S
    BY <1>1
  <2>. HIDE DEF S, D
  <2>3. S = D
    BY <2>1, <2>2, Inductively
  <2>. QED  BY <2>3 DEF D
<1>. QED  BY <1>3

LEMMA Greatest ==
    ASSUME NEW S, IsFiniteSet(S), S # {}, NEW h, \A s \in S: h[s] \in Nat
    PROVE  \E s \in S: \A r \in S: h[r] <= h[s]
<1>1. PICK n \in Nat: ExistsSurjection(1..n, S)
  BY FS_NatSurjection
<1>2. PICK f \in Surjection(1..n, S): TRUE
  BY <1>1 DEF ExistsSurjection
<1>3. f \in [1..n -> S] /\ \A s \in S: \E k \in 1..n: f[k] = s
  BY <1>2 DEF Surjection
<1>4. n # 0
  BY <1>3
<1>5. [k \in 1..n |-> h[f[k]]] \in [1..n -> Nat]
  BY <1>3
<1>6. PICK k \in 1..n: \A j \in 1..n: h[f[j]] <= h[f[k]]
  BY <1>4, <1>5, GreatestOfList
<1>. QED  BY <1>3, <1>6

LEMMA MaxIs ==
    ASSUME NEW S, IsFiniteSet(S), S # {}, S \subseteq Nat
    PROVE  Max(S) \in S /\ \A m \in S: m <= Max(S)
<1>. DEFINE h == [m \in S |-> m]
<1>1. \A m \in S: h[m] \in Nat
  OBVIOUS
<1>2. PICK s \in S: \A r \in S: h[r] <= h[s]
  BY <1>1, Greatest
<1>3. \A r \in S: s >= r
  BY <1>2
<1>. QED  BY <1>3 DEF Max

LEMMA MinIs ==
    ASSUME NEW S, S # {}, S \subseteq Nat
    PROVE  Min(S) \in S /\ \A m \in S: Min(S) <= m
<1>1. \E n \in S: \A m \in S: n <= m
  BY LeastNumber
<1>. QED  BY <1>1 DEF Min

LEMMA ImageIsFinite ==
    ASSUME NEW S, IsFiniteSet(S), NEW f
    PROVE  IsFiniteSet({f[s]: s \in S})
<1>. DEFINE h == [s \in S |-> f[s]]
            T == {f[s]: s \in S}
<1>1. h \in Surjection(S, T)
  BY DEF Surjection
<1>. HIDE DEF h, T
<1>2. IsFiniteSet(T)
  BY <1>1, FS_Surjection
<1>. QED  BY <1>2 DEF T

LEMMA ListIsFinite ==
    ASSUME NEW s, NEW n \in Nat, DOMAIN s = 1..n
    PROVE  IsFiniteSet(ToSet(s))
<1>1. IsFiniteSet(1..n)
  BY FS_Interval
<1>. QED  BY <1>1, ImageIsFinite DEF ToSet

LEMMA Appended ==
    ASSUME NEW m \in Nat, NEW s, s = [i \in 1..m |-> s[i]], NEW v
    PROVE  Append(s, v) = [i \in 1..(m + 1) |-> IF i = m + 1 THEN v ELSE s[i]]
<1>. DEFINE V == {s[i]: i \in 1..m} \cup {v}
<1>1. s \in [1..m -> V]
  OBVIOUS
<1>. HIDE DEF V
<1>2. s \in Seq(V) /\ Len(s) = m
  BY <1>1
<1>3. v \in V
  BY DEF V
<1>4. /\ Append(s, v) \in Seq(V) /\ Len(Append(s, v)) = m + 1
      /\ \A i \in 1..(m + 1): Append(s, v)[i] = IF i = m + 1 THEN v ELSE s[i]
  BY <1>2, <1>3
<1>5. Append(s, v) = [i \in 1..(m + 1) |-> Append(s, v)[i]]
  BY <1>4
<1>. QED  BY <1>4, <1>5
=============================================================================
