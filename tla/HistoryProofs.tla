---------------------------- MODULE HistoryProofs ----------------------------
(***************************************************************************)
(* History, for every graph of changesets and whatever is derived,         *)
(* quarantined and redacted in between: the skip lists, the blame, the     *)
(* pages and what they name are what the graph and the trees say.          *)
(***************************************************************************)
EXTENDS History, RecursionLemmas

-----------------------------------------------------------------------------
(* The graph.                                                              *)

GraphOk(P) ==
    /\ P \in Seq(Seq(Nat))
    /\ \A i \in DOMAIN P: ToSet(P[i]) \subseteq 1..(i - 1)

LEMMA GraphIs ==
    ASSUME NEW P, GraphOk(P)
    PROVE  /\ DOMAIN P = 1..Len(P) /\ Len(P) \in Nat /\ DOMAIN P \subseteq Nat
           /\ \A i \in DOMAIN P: \A p \in ToSet(P[i]): p \in DOMAIN P /\ p < i
           /\ \A i \in DOMAIN P: P[i] # <<>> => Head(P[i]) \in ToSet(P[i])
           /\ \A i \in DOMAIN P: ToSet(P[i]) = {} <=> P[i] = <<>>
           /\ \A i \in DOMAIN P: P[i] # <<>> =>
                ToSet(P[i]) = {Head(P[i])} \cup ToSet(Tail(P[i]))
<1>1. DOMAIN P = 1..Len(P) /\ Len(P) \in Nat /\ DOMAIN P \subseteq Nat
  BY DEF GraphOk
<1>2. ASSUME NEW i \in DOMAIN P, NEW p \in ToSet(P[i])
      PROVE  p \in DOMAIN P /\ p < i
  BY <1>1, <1>2 DEF GraphOk
<1>3. ASSUME NEW i \in DOMAIN P
      PROVE  /\ P[i] # <<>> => Head(P[i]) \in ToSet(P[i])
             /\ ToSet(P[i]) = {} <=> P[i] = <<>>
             /\ P[i] # <<>> => ToSet(P[i]) = {Head(P[i])} \cup ToSet(Tail(P[i]))
  <2>. DEFINE s == P[i]
  <2>1. s \in Seq(Nat)
    BY DEF GraphOk
  <2>. HIDE DEF s
  <2>2. CASE s = <<>>
    BY <2>2 DEF ToSet, s
  <2>3. CASE s # <<>>
    <3>1. 1 \in DOMAIN s /\ Head(s) = s[1]
      BY <2>1, <2>3
    <3>2. ASSUME NEW k \in DOMAIN s, k # 1
          PROVE  k - 1 \in DOMAIN Tail(s) /\ Tail(s)[k - 1] = s[k]
      BY <2>1, <2>3, <3>2
    <3>3. ASSUME NEW k \in DOMAIN Tail(s)
          PROVE  k + 1 \in DOMAIN s /\ Tail(s)[k] = s[k + 1]
      BY <2>1, <2>3, <3>3
    <3>4. ToSet(s) \subseteq {Head(s)} \cup ToSet(Tail(s))
      BY <3>1, <3>2 DEF ToSet
    <3>5. ToSet(Tail(s)) \subseteq ToSet(s)
      BY <3>3 DEF ToSet
    <3>6. Head(s) \in ToSet(s)
      BY <3>1 DEF ToSet
    <3>. QED  BY <2>3, <3>4, <3>5, <3>6 DEF s
  <2>. QED  BY <2>2, <2>3
<1>. QED  BY <1>1, <1>2, <1>3

(* What the walk over the parents reaches.                                 *)
AncOf(P) == CHOOSE f: f = [i \in DOMAIN P |-> {i} \cup UNION {f[p]: p \in ToSet(P[i])}]

LEMMA AncestorsOf == Ancestors = AncOf(parents)
BY DEF Ancestors, AncOf, Nodes

LEMMA AncestorsAre ==
    ASSUME NEW P, GraphOk(P)
    PROVE  /\ AncOf(P) \in [DOMAIN P -> SUBSET DOMAIN P]
           /\ \A i \in DOMAIN P: AncOf(P)[i] = {i} \cup UNION {AncOf(P)[p]: p \in ToSet(P[i])}
<1>. DEFINE D == DOMAIN P
            V == SUBSET DOMAIN P
            rank == [i \in D |-> i]
            step == [x \in [D -> V] \X D |-> {x[2]} \cup UNION {x[1][p]: p \in ToSet(P[x[2]])}]
            Walks(f) == f = [i \in D |-> {i} \cup UNION {f[p]: p \in ToSet(P[i])}]
<1>1. D \subseteq Nat /\ \A i \in D: \A p \in ToSet(P[i]): p \in D /\ p < i
  BY GraphIs
<1>2. \A f \in [D -> V], i \in D:
        step[<<f, i>>] = {i} \cup UNION {f[p]: p \in ToSet(P[i])}
  OBVIOUS
<1>3. rank \in [D -> Nat] /\ V # {}
  BY <1>1
<1>4. step \in [[D -> V] \X D -> V]
  <2>. SUFFICES ASSUME NEW f \in [D -> V], NEW i \in D
                PROVE  {i} \cup UNION {f[p]: p \in ToSet(P[i])} \in V
    OBVIOUS
  <2>. QED  BY <1>1
<1>5. Progresses(step, D, V, rank)
  <2>. SUFFICES ASSUME NEW f \in [D -> V], NEW g \in [D -> V], NEW i \in D,
                       \A e \in D: rank[e] < rank[i] => f[e] = g[e]
                PROVE  step[<<f, i>>] = step[<<g, i>>]
    BY DEF Progresses
  <2>1. \A p \in ToSet(P[i]): f[p] = g[p]
    BY <1>1
  <2>2. {f[p]: p \in ToSet(P[i])} = {g[p]: p \in ToSet(P[i])}
    BY <2>1
  <2>. HIDE DEF step
  <2>3. /\ step[<<f, i>>] = {i} \cup UNION {f[p]: p \in ToSet(P[i])}
        /\ step[<<g, i>>] = {i} \cup UNION {g[p]: p \in ToSet(P[i])}
    BY <1>2
  <2>. QED  BY <2>2, <2>3
<1>. HIDE DEF step, rank
<1>6. PICK f \in [D -> V]: Solves(f, step, D)
  BY <1>3, <1>4, <1>5, Recursion
<1>7. Walks(f)
  BY <1>2, <1>6 DEF Solves
<1>8. Walks(AncOf(P))
  BY <1>7 DEF AncOf
<1>9. \A i \in D: AncOf(P)[i] = {i} \cup UNION {AncOf(P)[p]: p \in ToSet(P[i])}
  BY <1>8
<1>10. \A i \in D: AncOf(P)[i] \in V
  <2>. DEFINE S == {i \in D: AncOf(P)[i] \in V}
  <2>1. ASSUME NEW i \in D, \A j \in D: j < i => j \in S
        PROVE  i \in S
    <3>1. \A p \in ToSet(P[i]): AncOf(P)[p] \in V
      BY <1>1, <2>1
    <3>. QED  BY <1>9, <3>1
  <2>2. S = D
    <3>. HIDE DEF S
    <3>1. S \subseteq D
      BY DEF S
    <3>. QED  BY <1>1, <2>1, <3>1, Inductively
  <2>. QED  BY <2>2
<1>11. AncOf(P) \in [D -> V]
  BY <1>8, <1>10
<1>. QED  BY <1>9, <1>11

(* Generations grow from parent to child.                                  *)
GenOk(P, g) ==
    /\ g \in [DOMAIN P -> Nat]
    /\ \A i \in DOMAIN P: \A p \in ToSet(P[i]): g[p] < g[i]

LEMMA AncestorsBelow ==
    ASSUME NEW P, GraphOk(P), NEW g, GenOk(P, g), NEW i \in DOMAIN P
    PROVE  /\ i \in AncOf(P)[i]
           /\ \A j \in AncOf(P)[i]: j \in DOMAIN P /\ AncOf(P)[j] \subseteq AncOf(P)[i]
           /\ \A j \in AncOf(P)[i]: j # i => j < i /\ g[j] < g[i]
           /\ \A p \in ToSet(P[i]): p \in AncOf(P)[i] /\ AncOf(P)[p] \subseteq AncOf(P)[i]
<1>. DEFINE D == DOMAIN P
            A == AncOf(P)
            Below(j, k) == j < k /\ g[j] < g[k]
            Good(k) == \A j \in A[k]: j \in D /\ A[j] \subseteq A[k] /\ (j = k \/ Below(j, k))
            S == {k \in D: Good(k)}
<1>1. /\ D \subseteq Nat
      /\ \A k \in D: \A p \in ToSet(P[k]): p \in D /\ p < k /\ g[p] < g[k]
      /\ \A k \in D: g[k] \in Nat
  BY GraphIs DEF GenOk
<1>2. \A k \in D: A[k] = {k} \cup UNION {A[p]: p \in ToSet(P[k])}
  BY AncestorsAre
<1>. HIDE DEF A
<1>3. ASSUME NEW k \in D, \A j \in D: j < k => j \in S
      PROVE  k \in S
  <2>. SUFFICES ASSUME NEW j \in A[k]
                PROVE  j \in D /\ A[j] \subseteq A[k] /\ (j = k \/ Below(j, k))
    OBVIOUS
  <2>1. CASE j = k
    BY <2>1
  <2>2. CASE j # k
    <3>1. PICK p \in ToSet(P[k]): j \in A[p]
      BY <1>2, <2>2
    <3>2. p \in D /\ p < k /\ g[p] < g[k] /\ Good(p)
      BY <1>1, <1>3
    <3>3. A[p] \subseteq A[k]
      BY <1>2
    <3>4. j \in D /\ A[j] \subseteq A[p] /\ (j = p \/ Below(j, p))
      BY <3>1, <3>2
    <3>5. j \in Nat /\ k \in Nat /\ p \in Nat /\ g[j] \in Nat /\ g[p] \in Nat /\ g[k] \in Nat
      BY <1>1, <3>2, <3>4
    <3>. QED  BY <3>2, <3>3, <3>4, <3>5
  <2>. QED  BY <2>1, <2>2
<1>4. S = D
  <2>. HIDE DEF S
  <2>1. S \subseteq D
    BY DEF S
  <2>. QED  BY <1>1, <1>3, <2>1, Inductively
<1>5. Good(i)
  BY <1>4
<1>6. i \in A[i] /\ \A p \in ToSet(P[i]): A[p] \subseteq A[i] /\ p \in A[p]
  BY <1>1, <1>2
<1>. QED  BY <1>5, <1>6 DEF A

(* New changesets do not change what an old one descends from.             *)
LEMMA AncestorsStay ==
    ASSUME NEW P, GraphOk(P), NEW Q, GraphOk(Q), DOMAIN P \subseteq DOMAIN Q,
           \A i \in DOMAIN P: Q[i] = P[i]
    PROVE  \A i \in DOMAIN P: AncOf(Q)[i] = AncOf(P)[i]
<1>. DEFINE D == DOMAIN P
            S == {i \in D: AncOf(Q)[i] = AncOf(P)[i]}
<1>1. D \subseteq Nat /\ \A i \in D: \A p \in ToSet(P[i]): p \in D /\ p < i
  BY GraphIs
<1>2. ASSUME NEW i \in D, \A j \in D: j < i => j \in S
      PROVE  i \in S
  <2>1. /\ AncOf(P)[i] = {i} \cup UNION {AncOf(P)[p]: p \in ToSet(P[i])}
        /\ AncOf(Q)[i] = {i} \cup UNION {AncOf(Q)[p]: p \in ToSet(P[i])}
    BY AncestorsAre
  <2>2. \A p \in ToSet(P[i]): AncOf(Q)[p] = AncOf(P)[p]
    BY <1>1, <1>2
  <2>3. {AncOf(Q)[p]: p \in ToSet(P[i])} = {AncOf(P)[p]: p \in ToSet(P[i])}
    BY <2>2
  <2>. QED  BY <2>1, <2>3
<1>3. S = D
  <2>. HIDE DEF S
  <2>1. S \subseteq D
    BY DEF S
  <2>. QED  BY <1>1, <1>2, <2>1, Inductively
<1>. QED  BY <1>3

(* The first parents above a changeset.                                    *)
ChainOf(P) == CHOOSE f: f = [i \in DOMAIN P |->
                                {i} \cup (IF P[i] = <<>> THEN {} ELSE f[Head(P[i])])]

LEMMA ChainsOf == Chain = ChainOf(parents)
BY DEF Chain, ChainOf, Nodes

LEMMA ChainsAre ==
    ASSUME NEW P, GraphOk(P)
    PROVE  /\ DOMAIN ChainOf(P) = DOMAIN P
           /\ \A i \in DOMAIN P:
                /\ ChainOf(P)[i] = {i} \cup (IF P[i] = <<>> THEN {} ELSE ChainOf(P)[Head(P[i])])
                /\ ChainOf(P)[i] \subseteq DOMAIN P
<1>. DEFINE D == DOMAIN P
            V == SUBSET D
            ends == {i \in D: P[i] = <<>>}
            up == [i \in D \ ends |-> Head(P[i])]
            base == [i \in ends |-> {i}]
            join == [x \in (D \ ends) \X V |-> {x[1]} \cup x[2]]
            Climbs(f) == f = [i \in D |-> {i} \cup (IF P[i] = <<>> THEN {} ELSE f[Head(P[i])])]
<1>1. D \subseteq Nat /\ \A i \in D: P[i] # <<>> => Head(P[i]) \in D /\ Head(P[i]) < i
  BY GraphIs
<1>2. /\ CanClimb(D, V, ends, up, base, join)
      /\ \A i \in D \ ends, v \in V: join[<<i, v>>] = {i} \cup v
  BY <1>1 DEF CanClimb
<1>3. \A i \in D: i \in ends <=> P[i] = <<>>
  OBVIOUS
<1>4. /\ \A i \in ends: base[i] = {i}
      /\ \A i \in D \ ends: up[i] = Head(P[i])
  OBVIOUS
<1>. HIDE DEF join, ends, base, up
<1>5. PICK f \in [D -> V]: Climbed(f, D, ends, up, base, join)
  BY <1>2, Climbing
<1>6. \A i \in D: f[i] = {i} \cup (IF P[i] = <<>> THEN {} ELSE f[Head(P[i])])
  <2>. SUFFICES ASSUME NEW i \in D
                PROVE  f[i] = {i} \cup (IF P[i] = <<>> THEN {} ELSE f[Head(P[i])])
    OBVIOUS
  <2>1. CASE i \in ends
    BY <1>3, <1>4, <1>5, <2>1 DEF Climbed
  <2>2. CASE i \notin ends
    <3>1. up[i] \in D /\ f[up[i]] \in V
      BY <1>1, <1>3, <1>4, <2>2
    <3>2. join[<<i, f[up[i]]>>] = {i} \cup f[up[i]]
      BY <1>2, <2>2, <3>1
    <3>. QED  BY <1>3, <1>4, <1>5, <2>2, <3>2 DEF Climbed
  <2>. QED  BY <2>1, <2>2
<1>7. Climbs(f)
  BY <1>6
<1>8. Climbs(ChainOf(P))
  BY <1>7 DEF ChainOf
<1>9. /\ DOMAIN ChainOf(P) = D
      /\ \A i \in D: ChainOf(P)[i] = {i} \cup (IF P[i] = <<>> THEN {} ELSE ChainOf(P)[Head(P[i])])
  BY <1>8
<1>. DEFINE S == {i \in D: ChainOf(P)[i] \subseteq D}
<1>10. Falls(S, D, ends, up)
  <2>1. \A i \in D: i \in ends => i \in S
    BY <1>3, <1>9
  <2>2. \A i \in D \ ends: ChainOf(P)[i] = {i} \cup ChainOf(P)[up[i]]
    BY <1>3, <1>4, <1>9
  <2>. QED  BY <1>1, <1>3, <1>4, <2>1, <2>2 DEF Falls
<1>11. S = D
  <2>1. S \subseteq D
    OBVIOUS
  <2>. HIDE DEF S
  <2>. QED  BY <1>1, <1>10, <2>1, ClimbsDown
<1>. QED  BY <1>9, <1>11

(* What a chain has below one of its changesets is that one's own chain.   *)
LEMMA ChainSplits ==
    ASSUME NEW P, GraphOk(P), NEW i \in DOMAIN P, NEW c \in ChainOf(P)[i]
    PROVE  /\ c \in DOMAIN P /\ c <= i
           /\ \A j \in ChainOf(P)[i]: j < c => P[c] # <<>> /\ j \in ChainOf(P)[Head(P[c])]
           /\ P[c] # <<>> => ChainOf(P)[Head(P[c])] \subseteq ChainOf(P)[i]
<1>. DEFINE D == DOMAIN P
            C == ChainOf(P)
            Up(k) == IF P[k] = <<>> THEN {} ELSE C[Head(P[k])]
            Good(k) == \A d \in C[k]: /\ d <= k
                                      /\ \A j \in C[k]: j < d => j \in Up(d)
                                      /\ Up(d) \subseteq C[k]
            S == {k \in D: Good(k)}
<1>1. /\ D \subseteq Nat
      /\ \A k \in D: P[k] # <<>> => Head(P[k]) \in D /\ Head(P[k]) < k
  BY GraphIs
<1>2. \A k \in D: C[k] = {k} \cup Up(k) /\ C[k] \subseteq D
  BY ChainsAre
<1>. HIDE DEF C
<1>3. ASSUME NEW k \in D, \A j \in D: j < k => j \in S
      PROVE  k \in S
  <2>1. CASE P[k] = <<>>
    <3>1. C[k] = {k} /\ Up(k) = {}
      BY <1>2, <2>1
    <3>. QED  BY <1>1, <3>1
  <2>2. CASE P[k] # <<>>
    <3>. DEFINE h == Head(P[k])
    <3>1. h \in D /\ h < k /\ Good(h) /\ Up(k) = C[h]
      BY <1>1, <1>3, <2>2
    <3>2. C[k] = {k} \cup C[h] /\ C[k] \subseteq D /\ C[h] \subseteq D
      BY <1>2, <3>1
    <3>. SUFFICES ASSUME NEW d \in C[k]
                  PROVE  /\ d <= k
                         /\ \A j \in C[k]: j < d => j \in Up(d)
                         /\ Up(d) \subseteq C[k]
      OBVIOUS
    <3>3. CASE d = k
      <4>1. \A j \in C[k]: j < d => j \in Up(d)
        BY <1>1, <3>1, <3>2, <3>3
      <4>. QED  BY <1>1, <3>1, <3>2, <3>3, <4>1
    <3>4. CASE d # k
      <4>1. d \in C[h] /\ d <= h
        BY <3>1, <3>2, <3>4
      <4>2. d \in Nat /\ h \in Nat /\ k \in Nat
        BY <1>1, <3>1, <3>2, <4>1
      <4>3. \A j \in C[k]: j < d => j \in C[h]
        BY <3>1, <3>2, <4>1, <4>2
      <4>4. d <= k
        BY <3>1, <4>1, <4>2
      <4>. QED  BY <3>1, <3>2, <4>1, <4>3, <4>4
    <3>. QED  BY <3>3, <3>4
  <2>. QED  BY <2>1, <2>2
<1>4. S = D
  <2>. HIDE DEF S
  <2>1. S \subseteq D
    BY DEF S
  <2>. QED  BY <1>1, <1>3, <2>1, Inductively
<1>5. Good(i)
  BY <1>4
<1>6. c \in D
  BY <1>2 DEF C
<1>. QED  BY <1>5, <1>6 DEF C

LEMMA ChainStays ==
    ASSUME NEW P, GraphOk(P), NEW Q, GraphOk(Q), DOMAIN P \subseteq DOMAIN Q,
           \A i \in DOMAIN P: Q[i] = P[i]
    PROVE  \A i \in DOMAIN P: ChainOf(Q)[i] = ChainOf(P)[i]
<1>. DEFINE D == DOMAIN P
            S == {i \in D: ChainOf(Q)[i] = ChainOf(P)[i]}
<1>1. D \subseteq Nat /\ \A i \in D: P[i] # <<>> => Head(P[i]) \in D /\ Head(P[i]) < i
  BY GraphIs
<1>2. ASSUME NEW i \in D, \A j \in D: j < i => j \in S
      PROVE  i \in S
  <2>1. /\ ChainOf(P)[i] = {i} \cup (IF P[i] = <<>> THEN {} ELSE ChainOf(P)[Head(P[i])])
        /\ ChainOf(Q)[i] = {i} \cup (IF P[i] = <<>> THEN {} ELSE ChainOf(Q)[Head(P[i])])
    BY ChainsAre
  <2>2. P[i] # <<>> => ChainOf(Q)[Head(P[i])] = ChainOf(P)[Head(P[i])]
    BY <1>1, <1>2
  <2>. QED  BY <2>1, <2>2
<1>3. S = D
  <2>. HIDE DEF S
  <2>1. S \subseteq D
    BY DEF S
  <2>. QED  BY <1>1, <1>2, <2>1, Inductively
<1>. QED  BY <1>3

-----------------------------------------------------------------------------
(* The inductive invariant.                                                *)

(* A jump that is marked pure misses nothing at or below its target.       *)
Straight(P, g, i, t) ==
    /\ t \in AncOf(P)[Head(P[i])]
    /\ \A j \in AncOf(P)[Head(P[i])]: j \in AncOf(P)[t] \/ g[j] > g[t]

EntryOk(P, g, i, e) ==
    /\ P[i] # <<>> /\ e.target \in DOMAIN P /\ e.target < i /\ e.hop \in Nat
    /\ e.pure => Straight(P, g, i, e.target)

EntriesOk(P, g, i, s) ==
    /\ IsFiniteSet(DOMAIN s) /\ DOMAIN s \subseteq Nat \ {0}
    /\ \A k \in DOMAIN s: EntryOk(P, g, i, s[k])

SkipInv ==
    /\ skips = [i \in Nodes |-> skips[i]]
    /\ \A i \in Nodes: EntriesOk(parents, gen, i, skips[i])

(* The blame state and the path index say what the trees say.              *)
BlameInv ==
    /\ state = [i \in Nodes |-> state[i]]
    /\ \A i \in Nodes: row[i].state = "done" => state[i] = BlameState(i)

TouchInv ==
    /\ touches \subseteq {i \in Nodes: Touched(i)}
    /\ \A i \in Nodes: row[i].state = "done" /\ Touched(i) => i \in touches

(* The order of the pages, and what a client that is not done was served:  *)
(* all that the answer has up to the cursor.                               *)
Before(i, j) == IF focus = "paths" THEN SortsBefore(i, j) ELSE i > j

Sorted(s) == \A k, l \in DOMAIN s: k < l => Before(s[k], s[l])

Missed == tombs \cup reader.poisoned

ServedTo(cursor) ==
    /\ \A k \in DOMAIN reader.seen: ~Before(cursor, reader.seen[k])
    /\ \A j \in reader.whole: ~Before(cursor, j) => j \in ToSet(reader.seen) \cup Missed

ReaderInv ==
    reader # None =>
        /\ focus \in {"log", "paths"}
        /\ reader = [from |-> reader.from, cursor |-> reader.cursor, seen |-> reader.seen,
                     more |-> reader.more, whole |-> reader.whole,
                     poisoned |-> reader.poisoned]
        /\ reader.from \in Nodes /\ reader.seen \in Seq(Nodes) /\ reader.more \in BOOLEAN
        /\ reader.cursor \in Nodes \cup {None} /\ reader.poisoned \subseteq Nodes
        /\ focus = "paths" => reader.whole \subseteq {i \in Nodes: Touched(i)}
        /\ focus # "paths" =>
             /\ reader.whole = ChainOf(parents)[reader.from]
             /\ reader.cursor # None => reader.cursor \in reader.whole
        /\ Sorted(reader.seen)
        /\ reader.more /\ reader.cursor = None => reader.seen = <<>>
        /\ reader.more /\ reader.cursor # None => ServedTo(reader.cursor)
        /\ ~reader.more => reader.whole \ Missed \subseteq ToSet(reader.seen)

HistoryInv ==
    /\ GraphOk(parents) /\ GenOk(parents, gen)
    /\ focus \in Foci
    /\ content \in [Nodes -> Contents[focus]]
    /\ tombs \subseteq Nodes /\ blobTombs \subseteq Contents[focus] \ {None}
    /\ row \in [Nodes -> Rows]
    /\ SkipInv /\ BlameInv /\ TouchInv /\ ReaderInv

LEMMA HistoryInit == Init => HistoryInv
<1>. SUFFICES ASSUME Init PROVE HistoryInv
  OBVIOUS
<1>1. /\ parents = <<>> /\ gen = <<>> /\ content = <<>> /\ row = <<>> /\ skips = <<>>
      /\ state = <<>> /\ tombs = {} /\ blobTombs = {} /\ touches = {} /\ reader = None
      /\ focus \in Foci
  BY DEF Init
<1>2. DOMAIN parents = {} /\ Nodes = {}
  BY <1>1 DEF Nodes
<1>3. GraphOk(parents)
  BY <1>1, <1>2 DEF GraphOk
<1>4. /\ GenOk(parents, gen) /\ content \in [Nodes -> Contents[focus]] /\ row \in [Nodes -> Rows]
      /\ skips = [i \in Nodes |-> skips[i]] /\ state = [i \in Nodes |-> state[i]]
  BY <1>1, <1>2 DEF GenOk
<1>. QED  BY <1>1, <1>2, <1>3, <1>4
          DEF HistoryInv, SkipInv, BlameInv, TouchInv, ReaderInv

LEMMA EntriesStay ==
    ASSUME NEW P, GraphOk(P), NEW Q, GraphOk(Q), DOMAIN P \subseteq DOMAIN Q,
           \A i \in DOMAIN P: Q[i] = P[i],
           NEW g, GenOk(P, g), NEW h, \A i \in DOMAIN P: h[i] = g[i],
           NEW i \in DOMAIN P, NEW s, EntriesOk(P, g, i, s)
    PROVE  EntriesOk(Q, h, i, s)
<1>1. \A j \in DOMAIN P: AncOf(Q)[j] = AncOf(P)[j]
  BY AncestorsStay
<1>2. \A j \in DOMAIN P: AncOf(P)[j] \subseteq DOMAIN P
  BY AncestorsBelow
<1>3. P[i] # <<>> => Head(P[i]) \in DOMAIN P
  BY GraphIs
<1>4. ASSUME NEW e, EntryOk(P, g, i, e)
      PROVE  EntryOk(Q, h, i, e)
  BY <1>1, <1>2, <1>3, <1>4 DEF EntryOk, Straight
<1>. QED  BY <1>4 DEF EntriesOk

(* A step that adds changesets or marks and leaves the reader as it is.    *)
Grows ==
    /\ focus' = focus /\ reader' = reader /\ Nodes \subseteq Nodes' /\ tombs \subseteq tombs'
    /\ \A i \in Nodes: /\ gen'[i] = gen[i] /\ (Touched(i)' <=> Touched(i))
                       /\ ChainOf(parents')[i] = ChainOf(parents)[i]

LEMMA ReaderStays ==
    ASSUME HistoryInv, Grows
    PROVE  ReaderInv'
<1>. USE DEF Grows
<1>. SUFFICES ASSUME reader # None PROVE ReaderInv'
  BY DEF ReaderInv
<1>1. ReaderInv
  BY DEF HistoryInv
<1>2. \A i, j \in Nodes: Before(i, j)' <=> Before(i, j)
  BY DEF Before, SortsBefore
<1>3. \A i \in Nodes: ChainOf(parents)[i] \subseteq Nodes
  BY ChainsAre DEF HistoryInv, Nodes
<1>4. reader.whole \subseteq Nodes
  BY <1>1, <1>3 DEF ReaderInv
<1>5. \A k \in DOMAIN reader.seen: reader.seen[k] \in Nodes
  BY <1>1 DEF ReaderInv
<1>6. Sorted(reader.seen)'
  BY <1>1, <1>2, <1>5 DEF ReaderInv, Sorted
<1>7. ServedTo(reader.cursor) /\ reader.cursor # None => ServedTo(reader.cursor)'
  <2>1. reader.cursor \in Nodes \cup {None}
    BY <1>1 DEF ReaderInv
  <2>2. Missed \subseteq Missed'
    BY DEF Missed
  <2>. QED  BY <1>2, <1>4, <1>5, <2>1, <2>2 DEF ServedTo
<1>8. ~reader.more => reader.whole \ Missed' \subseteq ToSet(reader.seen)
  BY <1>1 DEF ReaderInv, Missed
<1>. QED
  <2>1. reader.seen \in Seq(Nodes')
    BY <1>1 DEF ReaderInv
  <2>2. focus # "paths" => reader.whole = ChainOf(parents')[reader.from]
    BY <1>1 DEF ReaderInv
  <2>3. focus = "paths" => reader.whole \subseteq {i \in Nodes: Touched(i)}'
    BY <1>1 DEF ReaderInv
  <2>. QED  BY <1>1, <1>6, <1>7, <1>8, <2>1, <2>2, <2>3 DEF ReaderInv


LEMMA MarkSteps ==
    HistoryInv /\ (Quarantine \/ MarkChangeset \/ MarkBlob) => HistoryInv'
<1>. SUFFICES ASSUME HistoryInv, Quarantine \/ MarkChangeset \/ MarkBlob
              PROVE  HistoryInv'
  OBVIOUS
<1>. USE DEF HistoryInv
<1>1. /\ UNCHANGED <<focus, parents, gen, content, skips, state, touches, reader>>
      /\ Nodes' = Nodes /\ tombs \subseteq tombs' /\ tombs' \subseteq Nodes
      /\ blobTombs' \subseteq Contents[focus] \ {None}
  <2>1. CASE Quarantine
    BY <2>1 DEF Quarantine, repo, Nodes
  <2>2. CASE MarkChangeset
    BY <2>2 DEF MarkChangeset, Nodes
  <2>3. CASE MarkBlob
    BY <2>3 DEF MarkBlob, Nodes, ToSet
  <2>. QED  BY <2>1, <2>2, <2>3
<1>2. row' = row \/ \E i: row' = [row EXCEPT ![i] = [state |-> "poison", tainted |-> FALSE]]
  BY DEF Quarantine, MarkChangeset, MarkBlob
<1>3. /\ row' \in [Nodes -> Rows]
      /\ \A i \in Nodes: row'[i].state = "done" => row[i].state = "done"
  <2>1. CASE row' = row
    BY <2>1
  <2>2. CASE \E i: row' = [row EXCEPT ![i] = [state |-> "poison", tainted |-> FALSE]]
    <3>. DEFINE bad == [state |-> "poison", tainted |-> FALSE]
    <3>1. bad \in Rows /\ bad.state # "done"
      BY DEF Rows
    <3>. HIDE DEF bad
    <3>2. PICK i: row' = [row EXCEPT ![i] = bad]
      BY <2>2 DEF bad
    <3>. QED  BY <3>1, <3>2
  <2>. QED  BY <1>2, <2>1, <2>2
<1>4. \A i \in Nodes: (Touched(i)' <=> Touched(i)) /\ BlameState(i)' = BlameState(i)
  BY <1>1 DEF BlameState, Touched, ParentContent, Parent
<1>5. SkipInv'
  BY <1>1 DEF SkipInv
<1>6. BlameInv' /\ TouchInv'
  BY <1>1, <1>3, <1>4 DEF BlameInv, TouchInv
<1>7. ReaderInv'
  <2>1. Grows
    BY <1>1, <1>4 DEF Grows
  <2>. QED  BY <2>1, ReaderStays
<1>. QED  BY <1>1, <1>3, <1>5, <1>6, <1>7

(* What commit_graph makes of sound entries is sound.                      *)
LEMMA SkipsFound ==
    ASSUME HistoryInv, NEW i \in Nodes
    PROVE  EntriesOk(parents, gen, i, SkipEntries(i))
<1>. DEFINE p == Head(parents[i])
            mids == SkipsOf(p)
            fars(k) == SkipsOf(mids[k].target)
            joined == {k \in DOMAIN mids: \A j \in 1..k: j \in DOMAIN fars(j)}
            entry(k) ==
              LET mid == mids[k]  far == fars(k)[k]
              IN  [target |-> far.target, hop |-> 2 * far.hop + 1,
                   pure |-> Single(p) /\ Single(mid.target) /\ mid.pure /\ far.pure]
<1>1. /\ GraphOk(parents) /\ GenOk(parents, gen) /\ Nodes = DOMAIN parents /\ Nodes \subseteq Nat
      /\ \A j \in Nodes: gen[j] \in Nat
      /\ \A j \in Nodes: EntriesOk(parents, gen, j, skips[j])
  BY GraphIs DEF HistoryInv, SkipInv, Nodes, GenOk
<1>2. EntriesOk(parents, gen, i, <<>>)
  <2>1. DOMAIN <<>> = {} /\ IsFiniteSet({})
    BY FS_EmptySet
  <2>. QED  BY <2>1 DEF EntriesOk
<1>3. \A j \in Nodes: EntriesOk(parents, gen, j, SkipsOf(j))
  <2>1. DOMAIN <<>> = {} /\ IsFiniteSet({})
    BY FS_EmptySet
  <2>2. \A j \in Nodes: EntriesOk(parents, gen, j, <<>>)
    BY <2>1 DEF EntriesOk
  <2>. QED  BY <1>1, <2>2 DEF SkipsOf
<1>. SUFFICES ASSUME parents[i] # <<>>
              PROVE  EntriesOk(parents, gen, i, SkipEntries(i))
  BY <1>2 DEF SkipEntries
<1>4. p \in Nodes /\ p < i
  BY <1>1, GraphIs
<1>5. SkipEntries(i) = [k \in {1} \cup {j + 1: j \in joined} |->
                          IF k = 1 THEN [target |-> p, hop |-> 1, pure |-> TRUE] ELSE entry(k - 1)]
  BY DEF SkipEntries
<1>6. /\ joined \subseteq Nat \ {0} /\ IsFiniteSet(joined)
      /\ \A k \in joined: k \in DOMAIN mids /\ k \in DOMAIN fars(k)
  <2>1. EntriesOk(parents, gen, p, mids)
    BY <1>3, <1>4
  <2>. HIDE DEF mids
  <2>2. DOMAIN mids \subseteq Nat \ {0} /\ IsFiniteSet(DOMAIN mids)
    BY <2>1 DEF EntriesOk
  <2>3. joined \subseteq DOMAIN mids
    OBVIOUS
  <2>4. IsFiniteSet(joined)
    <3>. HIDE DEF joined
    <3>. QED  BY <2>2, <2>3, FS_Subset
  <2>5. \A k \in joined: k \in DOMAIN fars(k)
    BY <2>2
  <2>. QED  BY <2>2, <2>3, <2>4, <2>5
<1>. DEFINE dom == {1} \cup {j + 1: j \in joined}
<1>7. IsFiniteSet(dom) /\ dom \subseteq Nat \ {0}
  <2>. HIDE DEF joined
  <2>. DEFINE next == [j \in joined |-> j + 1]
  <2>1. IsFiniteSet({next[j]: j \in joined})
    BY <1>6, ImageIsFinite
  <2>2. {next[j]: j \in joined} = {j + 1: j \in joined}
    OBVIOUS
  <2>3. IsFiniteSet(dom)
    BY <2>1, <2>2, FS_AddElement
  <2>. QED  BY <1>6, <2>3
<1>8. EntryOk(parents, gen, i, [target |-> p, hop |-> 1, pure |-> TRUE])
  <2>1. \A j \in AncOf(parents)[p]: j \in AncOf(parents)[p]
    OBVIOUS
  <2>2. p \in AncOf(parents)[p]
    BY <1>1, <1>4, AncestorsBelow
  <2>. QED  BY <1>1, <1>4, <2>2 DEF EntryOk, Straight
<1>9. ASSUME NEW k \in joined
      PROVE  EntryOk(parents, gen, i, entry(k))
  <2>. DEFINE mid == mids[k]
              far == fars(k)[k]
              m == mid.target
              t == far.target
              A == AncOf(parents)
  <2>1. EntryOk(parents, gen, p, mid)
    BY <1>3, <1>4, <1>6 DEF EntriesOk
  <2>2. m \in Nodes /\ m < p
    BY <1>1, <2>1 DEF EntryOk
  <2>3. EntryOk(parents, gen, m, far)
    BY <1>3, <1>6, <2>2 DEF EntriesOk
  <2>4. t \in Nodes /\ t < m /\ far.hop \in Nat /\ parents[p] # <<>> /\ parents[m] # <<>>
    BY <1>1, <2>1, <2>3 DEF EntryOk
  <2>5. t < i /\ 2 * far.hop + 1 \in Nat
    <3>1. t \in Nat /\ m \in Nat /\ p \in Nat /\ i \in Nat
      BY <1>1, <1>4, <2>2, <2>4
    <3>. QED  BY <1>4, <2>2, <2>4, <3>1
  <2>6. /\ entry(k).target = t /\ entry(k).hop = 2 * far.hop + 1
        /\ entry(k).pure = (Single(p) /\ Single(m) /\ mid.pure /\ far.pure)
    OBVIOUS
  <2>. HIDE DEF entry, mid, far, m, t, fars, mids, joined, p, dom
  <2>7. ASSUME Single(p), Single(m), mid.pure, far.pure
        PROVE  Straight(parents, gen, i, t)
    <3>1. \A q \in Nodes: Single(q) /\ parents[q] # <<>> => A[q] = {q} \cup A[Head(parents[q])]
      <4>. SUFFICES ASSUME NEW q \in Nodes, Single(q), parents[q] # <<>>
                    PROVE  A[q] = {q} \cup A[Head(parents[q])]
        OBVIOUS
      <4>1. parents[q] \in Seq(Nat)
        BY <1>1 DEF GraphOk
      <4>2. ToSet(parents[q]) = {Head(parents[q])}
        BY <4>1 DEF Single, ToSet
      <4>3. A[q] = {q} \cup UNION {A[x]: x \in ToSet(parents[q])}
        BY <1>1, AncestorsAre
      <4>. QED  BY <4>2, <4>3
    <3>2. A[p] = {p} \cup A[Head(parents[p])] /\ A[m] = {m} \cup A[Head(parents[m])]
      BY <1>4, <2>2, <2>4, <2>7, <3>1
    <3>3. /\ m \in A[Head(parents[p])]
          /\ \A j \in A[Head(parents[p])]: j \in A[m] \/ gen[j] > gen[m]
      BY <2>1, <2>7 DEF EntryOk, Straight, m
    <3>4. /\ t \in A[Head(parents[m])]
          /\ \A j \in A[Head(parents[m])]: j \in A[t] \/ gen[j] > gen[t]
      BY <2>3, <2>7 DEF EntryOk, Straight, t
    <3>5. Head(parents[m]) \in Nodes /\ Head(parents[p]) \in Nodes
      BY <1>1, <1>4, <2>2, <2>4, GraphIs
    <3>6. \A j \in A[p]: j \in Nodes /\ gen[j] <= gen[p]
      BY <1>1, <1>4, AncestorsBelow
    <3>7. \A j \in A[Head(parents[p])]: j \in Nodes /\ gen[j] < gen[p]
      <4>1. Head(parents[p]) \in ToSet(parents[p])
        BY <1>1, <1>4, <2>4, GraphIs
      <4>2. gen[Head(parents[p])] < gen[p]
        BY <1>1, <1>4, <4>1 DEF GenOk
      <4>3. \A j \in A[Head(parents[p])]: j \in Nodes /\ gen[j] <= gen[Head(parents[p])]
        BY <1>1, <3>5, AncestorsBelow
      <4>. QED  BY <1>1, <1>4, <3>5, <4>2, <4>3
    <3>8. \A j \in A[Head(parents[m])]: j \in Nodes /\ gen[j] < gen[m]
      <4>1. Head(parents[m]) \in ToSet(parents[m])
        BY <1>1, <2>2, <2>4, GraphIs
      <4>2. gen[Head(parents[m])] < gen[m]
        BY <1>1, <2>2, <4>1 DEF GenOk
      <4>3. \A j \in A[Head(parents[m])]: j \in Nodes /\ gen[j] <= gen[Head(parents[m])]
        BY <1>1, <3>5, AncestorsBelow
      <4>. QED  BY <1>1, <2>2, <3>5, <4>2, <4>3
    <3>9. gen[t] < gen[m] /\ gen[m] < gen[p]
      BY <3>3, <3>4, <3>7, <3>8
    <3>10. t \in A[p]
      BY <3>2, <3>3, <3>4, <1>1, <3>5, AncestorsBelow
    <3>11. ASSUME NEW j \in A[p]
           PROVE  j \in A[t] \/ gen[j] > gen[t]
      <4>1. gen[j] \in Nat /\ gen[t] \in Nat /\ gen[m] \in Nat /\ gen[p] \in Nat
        BY <1>1, <1>4, <2>2, <2>4, <3>6
      <4>2. CASE j \in A[m]
        BY <3>2, <3>4, <3>9, <4>1, <4>2
      <4>3. CASE j \notin A[m]
        BY <3>2, <3>3, <3>9, <4>1, <4>3
      <4>. QED  BY <4>2, <4>3
    <3>. QED  BY <3>10, <3>11 DEF Straight, p
  <2>. QED  BY <1>1, <2>4, <2>5, <2>6, <2>7 DEF EntryOk
<1>10. ASSUME NEW k \in dom
       PROVE  EntryOk(parents, gen, i, SkipEntries(i)[k])
  <2>1. CASE k = 1
    <3>. HIDE DEF entry, joined
    <3>. QED  BY <1>5, <1>8, <2>1
  <2>2. CASE k # 1
    <3>. HIDE DEF entry, joined
    <3>1. PICK j \in joined: k = j + 1
      BY <2>2
    <3>2. k - 1 = j
      BY <1>6, <3>1
    <3>3. SkipEntries(i)[k] = entry(j)
      BY <1>5, <2>2, <3>2
    <3>. QED  BY <1>9, <3>3
  <2>. QED  BY <2>1, <2>2
<1>11. DOMAIN SkipEntries(i) = dom
  BY <1>5
<1>. HIDE DEF dom
<1>. QED  BY <1>7, <1>10, <1>11 DEF EntriesOk


LEMMA DeriveStep ==
    HistoryInv /\ Derive => HistoryInv'
<1>. SUFFICES ASSUME HistoryInv, NEW i \in PickNext,
                     row' = [row EXCEPT ![i] = [state |-> "done", tainted |-> CollapseTaint(i)]],
                     skips' = [skips EXCEPT ![i] = SkipEntries(i)],
                     state' = [state EXCEPT ![i] = BlameState(i)],
                     touches' = IF Touched(i) THEN touches \cup {i} ELSE touches,
                     UNCHANGED <<repo, reader, ref>>
              PROVE  HistoryInv'
  BY DEF Derive
<1>1. UNCHANGED <<focus, parents, gen, content, tombs, blobTombs, reader>> /\ Nodes' = Nodes
  BY DEF repo, Nodes
<1>2. i \in Nodes
  <2>. DEFINE waiting == {j \in Nodes: row[j].state = "pending"}
  <2>1. waiting \subseteq Nat /\ waiting # {} /\ i = Min(waiting)
    BY GraphIs DEF PickNext, Nodes, HistoryInv
  <2>. HIDE DEF waiting
  <2>2. i \in waiting
    BY <2>1, MinIs
  <2>. QED  BY <2>2 DEF waiting
<1>3. row' \in [Nodes -> Rows]
  <2>. DEFINE new == [state |-> "done", tainted |-> CollapseTaint(i)]
  <2>1. CollapseTaint(i) \in BOOLEAN
    BY DEF CollapseTaint
  <2>2. new \in Rows
    <3>. HIDE DEF CollapseTaint
    <3>. QED  BY <2>1 DEF Rows
  <2>. HIDE DEF new
  <2>. QED  BY <1>2, <2>2 DEF HistoryInv, new
<1>4. \A j \in Nodes: j # i => row'[j] = row[j]
  BY DEF HistoryInv
<1>5. \A j \in Nodes: (Touched(j)' <=> Touched(j)) /\ BlameState(j)' = BlameState(j)
  BY <1>1 DEF BlameState, Touched, ParentContent, Parent
<1>6. SkipInv'
  <2>1. EntriesOk(parents, gen, i, SkipEntries(i))
    BY <1>2, SkipsFound
  <2>. QED  BY <1>1, <2>1 DEF HistoryInv, SkipInv
<1>7. BlameInv'
  BY <1>1, <1>2, <1>4, <1>5 DEF HistoryInv, BlameInv
<1>8. TouchInv'
  BY <1>1, <1>2, <1>4, <1>5 DEF HistoryInv, TouchInv
<1>9. ReaderInv'
  <2>1. Grows
    BY <1>1, <1>5 DEF Grows
  <2>. QED  BY <2>1, ReaderStays
<1>. QED  BY <1>1, <1>3, <1>6, <1>7, <1>8, <1>9 DEF HistoryInv

LEMMA CreateStep ==
    HistoryInv /\ HistoryAssumption /\ Create => HistoryInv'
<1>. DEFINE n == Len(parents) + 1
<1>. SUFFICES ASSUME HistoryInv, HistoryAssumption, Create
              PROVE  HistoryInv'
  OBVIOUS
<1>0. PICK ps \in UNION {[1..k -> Nodes \ tombs]: k \in 0..Branching[focus]},
           c \in Contents[focus] \ blobTombs:
         /\ parents' = Append(parents, ps)
         /\ gen' = Append(gen, IF ps = <<>> THEN 0 ELSE 1 + Max({gen[p]: p \in ToSet(ps)}))
         /\ content' = Append(content, c)
  BY DEF Create
<1>1. /\ row' = Append(row, [state |-> "pending", tainted |-> FALSE])
      /\ skips' = Append(skips, <<>>) /\ state' = Append(state, None)
      /\ UNCHANGED <<focus, tombs, blobTombs, touches, reader>>
  BY DEF Create
<1>2. /\ Nodes = 1..Len(parents) /\ Len(parents) \in Nat /\ n \in Nat /\ Nodes \subseteq Nat
      /\ GraphOk(parents) /\ GenOk(parents, gen) /\ gen \in [Nodes -> Nat]
  BY GraphIs DEF HistoryInv, Nodes, GenOk
<1>3. PICK k \in Nat: ps \in [1..k -> Nodes]
  <2>1. Branching[focus] \in Nat
    BY DEF HistoryInv, HistoryAssumption
  <2>. QED  BY <2>1
<1>4. ps \in Seq(Nat) /\ ToSet(ps) \subseteq Nodes /\ DOMAIN ps = 1..k
  BY <1>2, <1>3 DEF ToSet
<1>5. /\ Nodes' = 1..n /\ Nodes' = Nodes \cup {n} /\ n \notin Nodes
      /\ parents'[n] = ps /\ \A i \in Nodes: parents'[i] = parents[i]
      /\ parents' \in Seq(Seq(Nat))
  <2>1. parents \in Seq(Seq(Nat))
    BY <1>2 DEF GraphOk
  <2>. QED  BY <1>0, <1>2, <1>4, <2>1 DEF Nodes
<1>6. GraphOk(parents')
  <2>1. DOMAIN parents' = Nodes' /\ DOMAIN parents = Nodes
    BY DEF Nodes
  <2>2. \A i \in Nodes: ToSet(parents'[i]) \subseteq 1..(i - 1)
    BY <1>2, <1>5, <2>1 DEF GraphOk
  <2>3. ToSet(parents'[n]) \subseteq 1..(n - 1)
    <3>1. n - 1 = Len(parents)
      BY <1>2
    <3>. QED  BY <1>2, <1>4, <1>5, <3>1
  <2>. QED  BY <1>5, <2>1, <2>2, <2>3 DEF GraphOk
<1>. DEFINE top == IF ps = <<>> THEN 0 ELSE 1 + Max({gen[p]: p \in ToSet(ps)})
<1>7. top \in Nat /\ \A p \in ToSet(ps): gen[p] < top
  <2>1. CASE ps = <<>>
    BY <2>1 DEF ToSet
  <2>2. CASE ps # <<>>
    <3>. DEFINE G == {gen[p]: p \in ToSet(ps)}
    <3>1. IsFiniteSet(ToSet(ps))
      BY <1>4, ListIsFinite
    <3>2. IsFiniteSet(G) /\ G \subseteq Nat
      <4>1. IsFiniteSet({gen[p]: p \in ToSet(ps)})
        BY <3>1, ImageIsFinite
      <4>. QED  BY <1>2, <1>4, <4>1
    <3>3. G # {}
      <4>1. k # 0
        BY <1>3, <2>2
      <4>2. ps[1] \in ToSet(ps)
        BY <1>3, <1>4, <4>1 DEF ToSet
      <4>3. gen[ps[1]] \in G
        BY <4>2
      <4>. QED  BY <4>3
    <3>. HIDE DEF G
    <3>4. Max(G) \in G /\ \A m \in G: m <= Max(G)
      BY <3>2, <3>3, MaxIs
    <3>5. top = 1 + Max(G)
      BY <2>2 DEF G
    <3>6. \A p \in ToSet(ps): gen[p] \in G
      BY DEF G
    <3>7. PICK x \in Nat: x = Max(G)
      BY <3>2, <3>4
    <3>8. \A m \in G: m \in Nat /\ m < 1 + x
      <4>1. \A m \in G: m <= x
        BY <3>4, <3>7
      <4>. SUFFICES ASSUME NEW m \in G PROVE m \in Nat /\ m < 1 + x
        OBVIOUS
      <4>2. m \in Nat /\ m <= x
        BY <3>2, <4>1
      <4>. QED  BY <4>2
    <3>. HIDE DEF top
    <3>. QED  BY <3>5, <3>6, <3>7, <3>8
  <2>. QED  BY <2>1, <2>2
<1>. HIDE DEF top
<1>8. /\ gen' = [i \in Nodes' |-> IF i = n THEN top ELSE gen[i]]
      /\ content' = [i \in Nodes' |-> IF i = n THEN c ELSE content[i]]
      /\ row' = [i \in Nodes' |->
                    IF i = n THEN [state |-> "pending", tainted |-> FALSE] ELSE row[i]]
      /\ skips' = [i \in Nodes' |-> IF i = n THEN <<>> ELSE skips[i]]
      /\ state' = [i \in Nodes' |-> IF i = n THEN None ELSE state[i]]
  <2>. DEFINE m == Len(parents)
  <2>1. /\ gen = [i \in 1..m |-> gen[i]] /\ content = [i \in 1..m |-> content[i]]
        /\ row = [i \in 1..m |-> row[i]] /\ skips = [i \in 1..m |-> skips[i]]
        /\ state = [i \in 1..m |-> state[i]]
    BY <1>2 DEF HistoryInv, SkipInv, BlameInv
  <2>2. gen' = Append(gen, top) /\ content' = Append(content, c)
    BY <1>0 DEF top
  <2>3. m \in Nat /\ Nodes' = 1..(m + 1) /\ n = m + 1
    BY <1>2, <1>5
  <2>. HIDE DEF m, n
  <2>. QED  BY <1>1, <2>1, <2>2, <2>3, Appended
<1>. HIDE DEF n
<1>9. GenOk(parents', gen')
  <2>1. gen' \in [Nodes' -> Nat]
    BY <1>2, <1>5, <1>7, <1>8
  <2>2. \A p \in ToSet(ps): gen'[p] < gen'[n]
    BY <1>4, <1>5, <1>7, <1>8
  <2>3. \A i \in Nodes: \A p \in ToSet(parents[i]): p \in Nodes /\ gen[p] < gen[i]
    BY <1>2, GraphIs DEF GenOk, Nodes
  <2>4. \A i \in Nodes: \A p \in ToSet(parents'[i]): gen'[p] < gen'[i]
    BY <1>5, <1>8, <2>3
  <2>. QED  BY <1>5, <2>1, <2>2, <2>4 DEF GenOk, Nodes
<1>10. \A i \in Nodes: /\ gen'[i] = gen[i] /\ content'[i] = content[i] /\ row'[i] = row[i]
                       /\ skips'[i] = skips[i] /\ state'[i] = state[i]
  BY <1>5, <1>8
<1>11. \A i \in Nodes: (Touched(i)' <=> Touched(i)) /\ BlameState(i)' = BlameState(i)
  <2>1. \A i \in Nodes: parents[i] # <<>> => Head(parents[i]) \in Nodes
    BY <1>2, GraphIs DEF Nodes
  <2>2. \A i \in Nodes: ParentContent(i)' = ParentContent(i)
    BY <1>5, <1>10, <2>1 DEF ParentContent, Parent
  <2>. QED  BY <1>10, <2>2 DEF BlameState, Touched
<1>12. content' \in [Nodes' -> Contents[focus]] /\ row' \in [Nodes' -> Rows]
  <2>1. [state |-> "pending", tainted |-> FALSE] \in Rows
    BY DEF Rows
  <2>. QED  BY <1>0, <1>5, <1>8, <2>1 DEF HistoryInv
<1>13. SkipInv'
  <2>1. DOMAIN <<>> = {} /\ IsFiniteSet({})
    BY FS_EmptySet
  <2>2. EntriesOk(parents', gen', n, skips'[n])
    BY <1>5, <1>8, <2>1 DEF EntriesOk
  <2>3. ASSUME NEW i \in Nodes
        PROVE  EntriesOk(parents', gen', i, skips'[i])
    <3>1. EntriesOk(parents, gen, i, skips[i])
      BY DEF HistoryInv, SkipInv
    <3>2. EntriesOk(parents', gen', i, skips[i])
      <4>1. DOMAIN parents \subseteq DOMAIN parents' /\ i \in DOMAIN parents
        BY <1>5 DEF Nodes
      <4>2. /\ \A j \in DOMAIN parents: parents'[j] = parents[j]
            /\ \A j \in DOMAIN parents: gen'[j] = gen[j]
        BY <1>5, <1>10 DEF Nodes
      <4>. QED  BY <1>2, <1>6, <3>1, <4>1, <4>2, EntriesStay
    <3>. QED  BY <1>10, <3>2
  <2>. QED  BY <1>5, <1>8, <2>2, <2>3 DEF SkipInv
<1>14. BlameInv'
  <2>1. row'[n].state # "done"
    BY <1>5, <1>8
  <2>. QED  BY <1>5, <1>8, <1>10, <1>11, <2>1 DEF HistoryInv, BlameInv
<1>15. TouchInv'
  <2>1. row'[n].state # "done"
    BY <1>5, <1>8
  <2>. QED  BY <1>1, <1>5, <1>8, <1>10, <1>11, <2>1 DEF HistoryInv, TouchInv
<1>16. ReaderInv'
  <2>1. \A i \in Nodes: ChainOf(parents')[i] = ChainOf(parents)[i]
    <3>1. DOMAIN parents \subseteq DOMAIN parents'
      BY <1>5 DEF Nodes
    <3>2. \A j \in DOMAIN parents: parents'[j] = parents[j]
      BY <1>5 DEF Nodes
    <3>. QED  BY <1>2, <1>6, <3>1, <3>2, ChainStays DEF Nodes
  <2>2. Grows
    BY <1>1, <1>5, <1>10, <1>11, <2>1 DEF Grows
  <2>. QED  BY <2>2, ReaderStays
<1>. QED  BY <1>1, <1>5, <1>6, <1>9, <1>12, <1>13, <1>14, <1>15, <1>16 DEF HistoryInv


-----------------------------------------------------------------------------
(* Pages.                                                                  *)

LEMMA Orders ==
    ASSUME HistoryInv
    PROVE  /\ \A i \in Nodes: i \in Nat /\ gen[i] \in Nat
           /\ \A i \in Nodes: ~Before(i, i)
           /\ \A i, j \in Nodes: i = j \/ Before(i, j) \/ Before(j, i)
           /\ \A i, j, k \in Nodes: Before(i, j) /\ Before(j, k) => Before(i, k)
<1>1. \A i \in Nodes: i \in Nat /\ gen[i] \in Nat
  BY GraphIs DEF HistoryInv, GenOk, Nodes
<1>2. \A i \in Nodes: ~Before(i, i)
  BY <1>1 DEF Before, SortsBefore
<1>3. \A i, j \in Nodes: i = j \/ Before(i, j) \/ Before(j, i)
  BY <1>1 DEF Before, SortsBefore
<1>4. \A i, j, k \in Nodes: Before(i, j) /\ Before(j, k) => Before(i, k)
  BY <1>1 DEF Before, SortsBefore
<1>. QED  BY <1>1, <1>2, <1>3, <1>4

(* A page of H: its first n, in order.                                     *)
PageOk(rows, H, n) ==
    /\ rows \in Seq(H) /\ Len(rows) <= n /\ Sorted(rows)
    /\ \A j \in H \ ToSet(rows): Len(rows) = n /\ \A k \in DOMAIN rows: Before(rows[k], j)

LEMMA FirstRows ==
    ASSUME NEW H, NEW s \in Seq(H), NEW n \in Nat
    PROVE  /\ FirstOf(s, n) \in Seq(H)
           /\ Len(FirstOf(s, n)) = IF n <= Len(s) THEN n ELSE Len(s)
           /\ \A k \in 1..Len(FirstOf(s, n)): FirstOf(s, n)[k] = s[k]
<1>. DEFINE m == IF n <= Len(s) THEN n ELSE Len(s)
<1>1. Min({n, Len(s)}) = m
  <2>1. {n, Len(s)} # {} /\ {n, Len(s)} \subseteq Nat
    OBVIOUS
  <2>2. Min({n, Len(s)}) \in {n, Len(s)} /\ \A x \in {n, Len(s)}: Min({n, Len(s)}) <= x
    BY <2>1, MinIs
  <2>. QED  BY <2>2
<1>2. m \in 0..Len(s)
  OBVIOUS
<1>. HIDE DEF m
<1>3. FirstOf(s, n) = SubSeq(s, 1, m)
  BY <1>1 DEF FirstOf
<1>4. /\ SubSeq(s, 1, m) \in Seq(H) /\ Len(SubSeq(s, 1, m)) = m
      /\ \A k \in 1..m: SubSeq(s, 1, m)[k] = s[k]
  BY <1>2
<1>. QED  BY <1>3, <1>4 DEF m

LEMMA FirstIsPage ==
    ASSUME NEW H, NEW s \in Seq(H), H = ToSet(s), Sorted(s), NEW n \in Nat
    PROVE  PageOk(FirstOf(s, n), H, n)
<1>. DEFINE f == FirstOf(s, n)
<1>1. /\ f \in Seq(H) /\ Len(f) = IF n <= Len(s) THEN n ELSE Len(s)
      /\ \A k \in 1..Len(f): f[k] = s[k]
  BY FirstRows
<1>2. DOMAIN f = 1..Len(f) /\ DOMAIN s = 1..Len(s) /\ Len(f) \in Nat /\ Len(s) \in Nat
  BY <1>1
<1>. HIDE DEF f
<1>3. PICK p \in Nat: p = Len(f)
  BY <1>2
<1>4. PICK q \in Nat: q = Len(s)
  BY <1>2
<1>5. p = IF n <= q THEN n ELSE q
  BY <1>1, <1>3, <1>4
<1>6. DOMAIN f = 1..p /\ DOMAIN s = 1..q /\ \A k \in 1..p: f[k] = s[k]
  BY <1>1, <1>2, <1>3, <1>4
<1>7. Sorted(f)
  BY <1>5, <1>6 DEF Sorted
<1>8. ASSUME NEW j \in H \ ToSet(f)
      PROVE  p = n /\ \A k \in DOMAIN f: Before(f[k], j)
  <2>1. PICK l \in 1..q: j = s[l]
    BY <1>6 DEF ToSet
  <2>2. l \notin 1..p
    BY <1>6, <2>1 DEF ToSet
  <2>3. p = n /\ \A k \in 1..p: k < l /\ k \in 1..q
    BY <1>5, <2>2
  <2>. QED  BY <1>6, <2>1, <2>3 DEF Sorted
<1>9. p <= n
  BY <1>5
<1>10. PageOk(f, H, n)
  BY <1>1, <1>3, <1>7, <1>8, <1>9 DEF PageOk
<1>. QED  BY <1>10 DEF f

LEMMA LogRowsAre ==
    ASSUME HistoryInv, NEW i \in Nodes
    PROVE  /\ LogRows[i] \in Seq(Nodes)
           /\ LogRows[i] = (IF i \in tombs THEN <<>> ELSE <<i>>)
                              \o (IF parents[i] = <<>> THEN <<>> ELSE LogRows[Head(parents[i])])
<1>. DEFINE V == Seq(Nodes)
            own(k) == IF k \in tombs THEN <<>> ELSE <<k>>
            ends == {k \in Nodes: parents[k] = <<>>}
            up == [k \in Nodes \ ends |-> Head(parents[k])]
            base == [k \in ends |-> own(k) \o <<>>]
            join == [x \in (Nodes \ ends) \X V |-> own(x[1]) \o x[2]]
            Climbs(f) == f = [k \in Nodes |-> own(k) \o (IF parents[k] = <<>> THEN <<>>
                                                         ELSE f[Head(parents[k])])]
<1>1. /\ Nodes \subseteq Nat
      /\ \A k \in Nodes: parents[k] # <<>> =>
           Head(parents[k]) \in Nodes /\ Head(parents[k]) < k
  BY GraphIs DEF HistoryInv, Nodes
<1>2. \A k \in Nodes: own(k) \o <<>> \in V /\ \A v \in V: own(k) \o v \in V
  <2>1. <<>> \in V /\ \A k \in Nodes: own(k) \in V
    OBVIOUS
  <2>. HIDE DEF own
  <2>. QED  BY <2>1
<1>. HIDE DEF own
<1>3. CanClimb(Nodes, V, ends, up, base, join)
  <2>1. V # {}
    <3>1. <<>> \in V
      OBVIOUS
    <3>. QED  BY <3>1
  <2>2. base \in [ends -> V] /\ join \in [(Nodes \ ends) \X V -> V]
    BY <1>2
  <2>. QED  BY <1>1, <2>1, <2>2 DEF CanClimb
<1>4. /\ \A k \in Nodes: k \in ends <=> parents[k] = <<>>
      /\ \A k \in ends: base[k] = own(k) \o <<>>
      /\ \A k \in Nodes \ ends: up[k] = Head(parents[k])
      /\ \A k \in Nodes \ ends, v \in V: join[<<k, v>>] = own(k) \o v
  OBVIOUS
<1>. HIDE DEF ends, up, base, join
<1>5. PICK f \in [Nodes -> V]: Climbed(f, Nodes, ends, up, base, join)
  BY <1>3, Climbing
<1>6. ASSUME NEW k \in Nodes
      PROVE  f[k] = own(k) \o (IF parents[k] = <<>> THEN <<>> ELSE f[Head(parents[k])])
  <2>1. CASE k \in ends
    BY <1>4, <1>5, <2>1 DEF Climbed
  <2>2. CASE k \notin ends
    <3>1. up[k] \in Nodes /\ f[up[k]] \in V
      BY <1>1, <1>4, <2>2
    <3>2. join[<<k, f[up[k]]>>] = own(k) \o f[up[k]]
      BY <1>4, <2>2, <3>1
    <3>. QED  BY <1>4, <1>5, <2>2, <3>2 DEF Climbed
  <2>. QED  BY <2>1, <2>2
<1>7. Climbs(f)
  BY <1>6
<1>8. Climbs(LogRows)
  BY <1>7 DEF LogRows, own
<1>9. \A k \in Nodes: LogRows[k] = own(k) \o (IF parents[k] = <<>> THEN <<>>
                                             ELSE LogRows[Head(parents[k])])
  BY <1>8
<1>. DEFINE S == {k \in Nodes: LogRows[k] \in V}
<1>10. Falls(S, Nodes, ends, up)
  <2>. SUFFICES ASSUME NEW k \in Nodes
                PROVE  \/ k \in ends /\ k \in S
                       \/ k \notin ends /\ up[k] \in Nodes /\ up[k] < k /\ (up[k] \in S => k \in S)
    BY DEF Falls
  <2>1. CASE k \in ends
    <3>1. LogRows[k] = own(k) \o <<>>
      BY <1>4, <1>9, <2>1
    <3>. QED  BY <1>2, <2>1, <3>1
  <2>2. CASE k \notin ends
    <3>1. LogRows[k] = own(k) \o LogRows[up[k]] /\ up[k] \in Nodes /\ up[k] < k
      BY <1>1, <1>4, <1>9, <2>2
    <3>. QED  BY <1>2, <2>2, <3>1
  <2>. QED  BY <2>1, <2>2
<1>11. S = Nodes
  <2>1. S \subseteq Nodes
    OBVIOUS
  <2>. HIDE DEF S
  <2>. QED  BY <1>1, <1>10, <2>1, ClimbsDown
<1>. QED  BY <1>9, <1>11 DEF own

(* The log from a changeset is its chain, newest first, without the        *)
(* tombstoned.                                                             *)
LEMMA LogIsChain ==
    ASSUME HistoryInv, NEW i \in Nodes
    PROVE  /\ ToSet(LogRows[i]) = ChainOf(parents)[i] \ tombs
           /\ \A k, l \in DOMAIN LogRows[i]: k < l => LogRows[i][k] > LogRows[i][l]
<1>. DEFINE C == ChainOf(parents)
            Good(k) == /\ ToSet(LogRows[k]) = C[k] \ tombs
                       /\ \A x, y \in DOMAIN LogRows[k]: x < y => LogRows[k][x] > LogRows[k][y]
            S == {k \in Nodes: Good(k)}
<1>1. /\ Nodes \subseteq Nat /\ GraphOk(parents) /\ Nodes = DOMAIN parents
      /\ \A k \in Nodes: parents[k] # <<>> => Head(parents[k]) \in Nodes /\ Head(parents[k]) < k
  BY GraphIs DEF HistoryInv, Nodes
<1>2. \A k \in Nodes: C[k] = {k} \cup (IF parents[k] = <<>> THEN {} ELSE C[Head(parents[k])])
  BY <1>1, ChainsAre
<1>3. \A k \in Nodes: \A c \in C[k]: c \in Nat /\ c <= k
  BY <1>1, ChainSplits
<1>. HIDE DEF C
<1>4. ASSUME NEW k \in Nodes, \A j \in Nodes: j < k => j \in S
      PROVE  k \in S
  <2>. DEFINE own == IF k \in tombs THEN <<>> ELSE <<k>>
              rest == IF parents[k] = <<>> THEN <<>> ELSE LogRows[Head(parents[k])]
              up == IF parents[k] = <<>> THEN {} ELSE C[Head(parents[k])]
  <2>1. LogRows[k] = own \o rest
    BY LogRowsAre
  <2>2. rest \in Seq(Nodes)
    <3>1. CASE parents[k] = <<>>
      BY <3>1
    <3>2. CASE parents[k] # <<>>
      <4>1. LogRows[Head(parents[k])] \in Seq(Nodes)
        BY <1>1, <3>2, LogRowsAre
      <4>. QED  BY <3>2, <4>1
    <3>. QED  BY <3>1, <3>2
  <2>3. own \in Seq(Nodes) /\ ToSet(own) = {k} \ tombs /\ Len(own) <= 1
    <3>1. CASE k \in tombs
      BY <3>1 DEF ToSet
    <3>2. CASE k \notin tombs
      <4>1. own = <<k>> /\ DOMAIN own = {1} /\ own[1] = k
        BY <3>2
      <4>. QED  BY <3>2, <4>1 DEF ToSet
    <3>. QED  BY <3>1, <3>2
  <2>4. /\ ToSet(rest) = up \ tombs
        /\ \A x, y \in DOMAIN rest: x < y => rest[x] > rest[y]
        /\ \A c \in up: c < k
    <3>1. CASE parents[k] = <<>>
      BY <3>1 DEF ToSet
    <3>2. CASE parents[k] # <<>>
      <4>1. Head(parents[k]) \in Nodes /\ Head(parents[k]) < k
        BY <1>1, <3>2
      <4>2. Good(Head(parents[k]))
        BY <1>4, <4>1
      <4>3. \A c \in C[Head(parents[k])]: c < k
        BY <1>1, <1>3, <4>1
      <4>. QED  BY <3>2, <4>2, <4>3
    <3>. QED  BY <3>1, <3>2
  <2>5. C[k] = {k} \cup up
    BY <1>2
  <2>. HIDE DEF own, rest, up
  <2>6. /\ Len(own \o rest) = Len(own) + Len(rest) /\ own \o rest \in Seq(Nodes)
        /\ \A x \in 1..(Len(own) + Len(rest)):
             (own \o rest)[x] = IF x <= Len(own) THEN own[x] ELSE rest[x - Len(own)]
    BY <2>2, <2>3
  <2>7. ToSet(own \o rest) = ToSet(own) \cup ToSet(rest)
    <3>1. /\ DOMAIN own = 1..Len(own) /\ DOMAIN rest = 1..Len(rest)
          /\ Len(own) \in Nat /\ Len(rest) \in Nat
          /\ DOMAIN (own \o rest) = 1..(Len(own) + Len(rest))
      BY <2>2, <2>3, <2>6
    <3>2. ASSUME NEW x \in DOMAIN own PROVE own[x] \in ToSet(own \o rest)
      BY <2>6, <3>1 DEF ToSet
    <3>3. ASSUME NEW x \in DOMAIN rest PROVE rest[x] \in ToSet(own \o rest)
      <4>1. x + Len(own) \in DOMAIN (own \o rest) /\ (own \o rest)[x + Len(own)] = rest[x]
        BY <2>6, <3>1
      <4>. QED  BY <4>1 DEF ToSet
    <3>4. ASSUME NEW x \in DOMAIN (own \o rest)
          PROVE  (own \o rest)[x] \in ToSet(own) \cup ToSet(rest)
      BY <2>6, <3>1 DEF ToSet
    <3>. QED  BY <3>2, <3>3, <3>4 DEF ToSet
  <2>8. ASSUME NEW x \in DOMAIN (own \o rest), NEW y \in DOMAIN (own \o rest), x < y
        PROVE  (own \o rest)[x] > (own \o rest)[y]
    <3>1. /\ DOMAIN own = 1..Len(own) /\ DOMAIN rest = 1..Len(rest)
          /\ Len(own) \in Nat /\ Len(rest) \in Nat
          /\ DOMAIN (own \o rest) = 1..(Len(own) + Len(rest))
      BY <2>2, <2>3, <2>6
    <3>2. y > Len(own) /\ y - Len(own) \in DOMAIN rest /\ (own \o rest)[y] = rest[y - Len(own)]
      BY <2>3, <2>6, <2>8, <3>1
    <3>3. CASE x <= Len(own)
      <4>1. (own \o rest)[x] \in ToSet(own)
        BY <2>6, <3>1, <3>3 DEF ToSet
      <4>2. (own \o rest)[x] = k
        BY <2>3, <4>1
      <4>3. rest[y - Len(own)] \in ToSet(rest)
        BY <3>2 DEF ToSet
      <4>4. rest[y - Len(own)] < k /\ rest[y - Len(own)] \in Nat /\ k \in Nat
        BY <1>1, <2>2, <2>4, <3>2, <4>3
      <4>. QED  BY <3>2, <4>2, <4>4
    <3>4. CASE ~(x <= Len(own))
      <4>1. /\ x - Len(own) \in DOMAIN rest /\ x - Len(own) < y - Len(own)
            /\ (own \o rest)[x] = rest[x - Len(own)]
        BY <2>6, <2>8, <3>1, <3>4
      <4>. QED  BY <2>4, <3>2, <4>1
    <3>. QED  BY <3>3, <3>4
  <2>9. ToSet(LogRows[k]) = C[k] \ tombs
    BY <2>1, <2>3, <2>4, <2>5, <2>7
  <2>. QED  BY <2>1, <2>8, <2>9
<1>5. S = Nodes
  <2>. HIDE DEF S
  <2>1. S \subseteq Nodes
    BY DEF S
  <2>. QED  BY <1>1, <1>4, <2>1, Inductively
<1>6. Good(i)
  BY <1>5
<1>. QED  BY <1>6 DEF C


(* The index's order has a first.                                          *)
FirstIn(S) == CHOOSE i \in S: \A j \in S \ {i}: SortsBefore(i, j)

LEMMA FirstThereIs ==
    ASSUME HistoryInv, NEW S, S \subseteq Nodes, S # {}
    PROVE  FirstIn(S) \in S /\ \A j \in S \ {FirstIn(S)}: SortsBefore(FirstIn(S), j)
<1>1. \A i \in Nodes: i \in Nat /\ gen[i] \in Nat
  BY Orders
<1>2. IsFiniteSet(S)
  <2>1. Nodes = 1..Len(parents) /\ Len(parents) \in Nat
    BY GraphIs DEF HistoryInv, Nodes
  <2>2. IsFiniteSet(Nodes)
    BY <2>1, FS_Interval
  <2>. QED  BY <2>2, FS_Subset
<1>3. PICK t \in S: \A j \in S: gen[j] <= gen[t]
  BY <1>1, <1>2, Greatest
<1>. DEFINE T == {j \in S: gen[j] = gen[t]}
<1>4. T # {} /\ T \subseteq Nat
  BY <1>1
<1>5. PICK i \in T: \A j \in T: i <= j
  BY <1>4, LeastNumber
<1>6. \A j \in S \ {i}: SortsBefore(i, j)
  <2>. SUFFICES ASSUME NEW j \in S \ {i} PROVE SortsBefore(i, j)
    OBVIOUS
  <2>1. i \in Nat /\ j \in Nat /\ gen[i] \in Nat /\ gen[j] \in Nat /\ gen[j] <= gen[i]
    BY <1>1, <1>3, <1>5
  <2>2. CASE gen[j] = gen[t]
    BY <1>5, <2>1, <2>2 DEF SortsBefore
  <2>3. CASE gen[j] # gen[t]
    BY <1>5, <2>1, <2>3 DEF SortsBefore
  <2>. QED  BY <2>2, <2>3
<1>. QED  BY <1>5, <1>6 DEF FirstIn

LEMMA PathPageOk ==
    ASSUME HistoryInv, focus = "paths", NEW after, NEW n \in Nat
    PROVE  PageOk(PathHistoryPage(after, n),
                  {i \in touches \ tombs: after # None => SortsBefore(after, i)}, n)
<1>. DEFINE H == {i \in touches \ tombs: after # None => SortsBefore(after, i)}
            D == 0..n
            V == Seq(H)
            more(v) == IF H \ ToSet(v) = {} THEN v ELSE Append(v, FirstIn(H \ ToSet(v)))
            ends == {0}
            up == [k \in D \ ends |-> k - 1]
            base == [k \in ends |-> <<>>]
            join == [x \in (D \ ends) \X V |-> more(x[2])]
            Fills(f) == f = [k \in D |-> IF k = 0 THEN <<>> ELSE more(f[k - 1])]
            page == CHOOSE f: Fills(f)
<1>1. H \subseteq Nodes
  BY DEF HistoryInv, TouchInv
<1>2. PathHistoryPage(after, n) = page[n]
  BY DEF PathHistoryPage, FirstIn
<1>. HIDE DEF H
<1>3. \A v \in V: more(v) \in V
  <2>. SUFFICES ASSUME NEW v \in V, H \ ToSet(v) # {} PROVE Append(v, FirstIn(H \ ToSet(v))) \in V
    OBVIOUS
  <2>1. FirstIn(H \ ToSet(v)) \in H
    BY <1>1, FirstThereIs
  <2>. QED  BY <2>1
<1>. HIDE DEF more
<1>4. CanClimb(D, V, ends, up, base, join)
  <2>1. <<>> \in V
    OBVIOUS
  <2>2. base \in [ends -> V] /\ join \in [(D \ ends) \X V -> V]
    BY <1>3, <2>1
  <2>3. D \subseteq Nat /\ 0 \in D /\ \A k \in D \ ends: k - 1 \in D /\ k - 1 < k
    OBVIOUS
  <2>4. up \in [D \ ends -> D] /\ \A k \in D \ ends: up[k] < k
    BY <2>3
  <2>5. V # {} /\ ends \in SUBSET D
    BY <2>1, <2>3
  <2>. HIDE DEF D, V, ends, up, base, join
  <2>. QED  BY <2>2, <2>3, <2>4, <2>5 DEF CanClimb
<1>5. /\ base[0] = <<>> /\ 0 \in D /\ n \in D /\ D \subseteq Nat
      /\ \A k \in D: k \in ends <=> k = 0
      /\ \A k \in D \ ends: up[k] = k - 1 /\ k - 1 \in D
      /\ \A k \in D \ ends, v \in V: join[<<k, v>>] = more(v)
  OBVIOUS
<1>. HIDE DEF ends, up, base, join, D
<1>6. PICK f \in [D -> V]: Climbed(f, D, ends, up, base, join)
  BY <1>4, Climbing
<1>7. Fills(f)
  <2>1. ASSUME NEW k \in D PROVE f[k] = IF k = 0 THEN <<>> ELSE more(f[k - 1])
    <3>1. CASE k = 0
      BY <1>5, <1>6, <3>1 DEF Climbed
    <3>2. CASE k # 0
      <4>1. k \in D \ ends /\ up[k] = k - 1 /\ k - 1 \in D /\ f[k - 1] \in V
        BY <1>5, <3>2
      <4>2. f[k] = join[<<k, f[k - 1]>>]
        BY <1>6, <4>1 DEF Climbed
      <4>3. join[<<k, f[k - 1]>>] = more(f[k - 1])
        BY <1>5, <4>1
      <4>. QED  BY <3>2, <4>2, <4>3
    <3>. QED  BY <3>1, <3>2
  <2>. QED  BY <2>1
<1>8. Fills(page)
  BY <1>7
<1>. HIDE DEF page
<1>9. page[0] = <<>> /\ \A k \in D \ ends: page[k] = more(page[up[k]])
  BY <1>5, <1>8
<1>. DEFINE S == {k \in D: PageOk(page[k], H, k)}
<1>10. 0 \in S
  <2>1. /\ <<>> \in Seq(H) /\ Len(<<>>) = 0 /\ DOMAIN <<>> = {} /\ Sorted(<<>>)
    BY DEF Sorted
  <2>2. PageOk(<<>>, H, 0)
    BY <2>1 DEF PageOk
  <2>. QED  BY <1>5, <1>9, <2>2
<1>11. ASSUME NEW k \in D \ ends, up[k] \in S
       PROVE  k \in S
  <2>. DEFINE v == page[up[k]]
              rest == H \ ToSet(v)
              x == FirstIn(rest)
  <2>1. k \in Nat /\ k - 1 \in Nat /\ up[k] = k - 1 /\ page[k] = more(v)
    <3>1. k \in Nat /\ k - 1 \in D /\ up[k] = k - 1
      BY <1>5
    <3>. QED  BY <1>5, <1>9, <3>1
  <2>2. PageOk(v, H, k - 1)
    BY <1>11, <2>1
  <2>. HIDE DEF v
  <2>3. v \in Seq(H) /\ DOMAIN v = 1..Len(v) /\ Len(v) \in Nat
    BY <2>2 DEF PageOk
  <2>4. CASE rest = {}
    <3>1. page[k] = v
      BY <2>1, <2>4 DEF more
    <3>2. Len(v) <= k
      BY <2>1, <2>2, <2>3 DEF PageOk
    <3>3. PageOk(v, H, k)
      BY <2>2, <2>4, <3>2 DEF PageOk
    <3>. QED  BY <3>1, <3>3
  <2>5. CASE rest # {}
    <3>1. page[k] = Append(v, x)
      BY <2>1, <2>5 DEF more
    <3>2. x \in rest /\ \A j \in rest \ {x}: SortsBefore(x, j)
      <4>1. rest \subseteq Nodes
        BY <1>1
      <4>. HIDE DEF rest
      <4>. QED  BY <2>5, <4>1, FirstThereIs
    <3>3. Len(v) = k - 1 /\ \A j \in rest: \A m \in DOMAIN v: Before(v[m], j)
      BY <2>2, <3>2 DEF PageOk
    <3>. HIDE DEF x
    <3>4. /\ Append(v, x) \in Seq(H) /\ Len(Append(v, x)) = k /\ DOMAIN Append(v, x) = 1..k
          /\ DOMAIN v = 1..(k - 1)
          /\ Append(v, x)[k] = x /\ \A m \in 1..(k - 1): Append(v, x)[m] = v[m]
      BY <2>1, <2>3, <3>2, <3>3
    <3>5. Sorted(Append(v, x))
      <4>. SUFFICES ASSUME NEW m \in 1..k, NEW l \in 1..k, m < l
                    PROVE  Before(Append(v, x)[m], Append(v, x)[l])
        BY <3>4 DEF Sorted
      <4>1. m \in 1..(k - 1)
        BY <2>1
      <4>2. CASE l = k
        BY <3>2, <3>3, <3>4, <4>1, <4>2
      <4>3. CASE l # k
        <5>1. l \in 1..(k - 1)
          BY <2>1, <4>3
        <5>2. Before(v[m], v[l])
          BY <2>2, <3>4, <4>1, <5>1 DEF PageOk, Sorted
        <5>. QED  BY <3>4, <4>1, <5>1, <5>2
      <4>. QED  BY <4>2, <4>3
    <3>6. ASSUME NEW j \in H \ ToSet(Append(v, x)), NEW m \in 1..k
          PROVE  Before(Append(v, x)[m], j)
      <4>1. j # x
        <5>1. k \in 1..k
          BY <2>1
        <5>. QED  BY <3>4, <3>6, <5>1 DEF ToSet
      <4>2. j \in rest
        <5>1. \A l \in DOMAIN v: l \in 1..k /\ Append(v, x)[l] = v[l]
          BY <2>1, <3>4
        <5>. QED  BY <3>4, <3>6, <5>1 DEF ToSet
      <4>3. CASE m = k
        BY <3>2, <3>4, <4>1, <4>2, <4>3 DEF Before
      <4>4. CASE m # k
        <5>1. m \in 1..(k - 1)
          BY <2>1, <4>4
        <5>. QED  BY <3>3, <3>4, <4>2, <5>1
      <4>. QED  BY <4>3, <4>4
    <3>7. PageOk(Append(v, x), H, k)
      <4>1. Len(Append(v, x)) <= k
        BY <2>1, <3>4
      <4>. QED  BY <3>4, <3>5, <3>6, <4>1 DEF PageOk
    <3>. QED  BY <3>1, <3>7
  <2>. QED  BY <2>4, <2>5
<1>12. S = D
  <2>1. S \subseteq D /\ D \subseteq Nat
    BY <1>5
  <2>2. \A k \in D \ ends: up[k] \in D /\ up[k] < k
    BY <1>5
  <2>. HIDE DEF S
  <2>3. Falls(S, D, ends, up)
    BY <1>5, <1>10, <1>11, <2>2 DEF Falls
  <2>. QED  BY <2>1, <2>3, ClimbsDown
<1>13. PageOk(page[n], H, n)
  BY <1>5, <1>12
<1>. QED  BY <1>2, <1>13 DEF H


(* A page has everything after the cursor that is neither redacted nor     *)
(* named as quarantined, as far as it goes.                                *)
Named == tombs \cup reader.poisoned \cup PoisonTouching

PageCovers(H, n) ==
    /\ H \subseteq Nodes /\ PageOk(LogPage(reader.cursor, n), H, n)
    /\ \A h \in H: reader.cursor # None => Before(reader.cursor, h)
    /\ focus # "paths" => H \subseteq reader.whole
    /\ \A j \in reader.whole \ Named:
         (reader.cursor # None => Before(reader.cursor, j)) => j \in H

LEMMA PageIs ==
    ASSUME HistoryInv, HistoryAssumption, reader # None, reader.more,
           focus = "paths" => ~PathPending, NEW n \in Nat
    PROVE  \E H: PageCovers(H, n)
<1>0. /\ focus \in {"log", "paths"} /\ reader.from \in Nodes /\ reader.cursor \in Nodes \cup {None}
      /\ focus = "paths" => reader.whole \subseteq {i \in Nodes: Touched(i)}
      /\ focus # "paths" =>
            /\ reader.whole = ChainOf(parents)[reader.from]
            /\ reader.cursor # None => reader.cursor \in reader.whole
  BY DEF HistoryInv, ReaderInv
<1>. DEFINE cur == reader.cursor
<1>1. CASE focus = "paths"
  <2>. DEFINE H == {i \in touches \ tombs: cur # None => SortsBefore(cur, i)}
  <2>1. PageOk(LogPage(cur, n), H, n)
    BY <1>1, PathPageOk DEF LogPage
  <2>2. H \subseteq Nodes /\ \A h \in H: cur # None => Before(cur, h)
    BY <1>1 DEF HistoryInv, TouchInv, Before
  <2>3. ASSUME NEW j \in reader.whole \ Named, cur # None => Before(cur, j)
        PROVE  j \in H
    <3>1. j \in Nodes /\ Touched(j) /\ row[j] \in Rows
      BY <1>0, <1>1 DEF HistoryInv
    <3>2. row[j].state # "pending"
      BY <1>1, <3>1 DEF PathPending
    <3>3. row[j].state # "poison"
      BY <2>3, <3>1 DEF Named, PoisonTouching
    <3>4. row[j].state = "done"
      BY <3>1, <3>2, <3>3 DEF Rows
    <3>5. j \in touches
      BY <3>1, <3>4 DEF HistoryInv, TouchInv
    <3>. QED  BY <1>1, <2>3, <3>5 DEF Named, Before
  <2>. HIDE DEF H
  <2>4. PageCovers(H, n)
    BY <1>1, <2>1, <2>2, <2>3 DEF PageCovers
  <2>. QED  BY <2>4
<1>2. CASE focus # "paths"
  <2>. DEFINE start == IF cur = None THEN reader.from ELSE Parent(cur)
              H == IF start = None THEN {} ELSE ChainOf(parents)[start] \ tombs
              C == reader.whole
  <2>1. LogPage(cur, n) = LogChain(start, n)
    BY <1>2 DEF LogPage
  <2>2. /\ Nodes = DOMAIN parents /\ GraphOk(parents) /\ None \notin Nodes
        /\ \A i \in Nodes: parents[i] # <<>> => Head(parents[i]) \in Nodes
    BY GraphIs DEF HistoryInv, HistoryAssumption, Nodes
  <2>3. C \subseteq Nodes
    BY <1>0, <1>2, <2>2, ChainsAre
  <2>4. start = None \/ start \in Nodes
    BY <1>0, <2>2 DEF Parent
  <2>5. \A i, j \in Nodes: Before(i, j) <=> j < i
    BY <1>2, Orders DEF Before
  <2>6. PageOk(LogPage(cur, n), H, n)
    <3>1. CASE start = None
      <4>1. LogPage(cur, n) = <<>> /\ H = {}
        BY <2>1, <3>1 DEF LogChain
      <4>2. <<>> \in Seq({}) /\ Len(<<>>) = 0 /\ DOMAIN <<>> = {} /\ Sorted(<<>>)
        BY DEF Sorted
      <4>. HIDE DEF H
      <4>. QED  BY <4>1, <4>2 DEF PageOk
    <3>2. CASE start # None
      <4>. DEFINE s == LogRows[start]
      <4>1. start \in Nodes /\ H = ChainOf(parents)[start] \ tombs
        BY <2>4, <3>2
      <4>. HIDE DEF start, H
      <4>2. /\ s \in Seq(Nodes) /\ ToSet(s) = H
            /\ \A k, l \in DOMAIN s: k < l => s[k] > s[l]
        BY <4>1, LogRowsAre, LogIsChain
      <4>3. LogPage(cur, n) = FirstOf(s, n)
        BY <2>1, <3>2 DEF LogChain
      <4>. HIDE DEF s
      <4>4. Sorted(s)
        BY <1>2, <4>2 DEF Sorted, Before
      <4>5. s \in Seq(H)
        <5>1. s \in [1..Len(s) -> H] /\ Len(s) \in Nat
          BY <4>2 DEF ToSet
        <5>. QED  BY <5>1
      <4>6. PageOk(FirstOf(s, n), H, n)
        BY <4>2, <4>4, <4>5, FirstIsPage
      <4>. QED  BY <4>3, <4>6
    <3>. QED  BY <3>1, <3>2
  <2>7. /\ H \subseteq C
        /\ \A h \in H: cur # None => Before(cur, h)
        /\ \A j \in C \ tombs: (cur # None => Before(cur, j)) => j \in H
    <3>1. CASE cur = None
      <4>1. start = reader.from /\ H = C \ tombs
        BY <1>0, <1>2, <2>2, <3>1
      <4>. QED  BY <3>1, <4>1
    <3>2. CASE cur # None
      <4>1. cur \in C /\ cur \in Nodes /\ C = ChainOf(parents)[reader.from]
        BY <1>0, <1>2, <3>2
      <4>2. /\ \A j \in C: j < cur =>
                 parents[cur] # <<>> /\ j \in ChainOf(parents)[Head(parents[cur])]
            /\ parents[cur] # <<>> => ChainOf(parents)[Head(parents[cur])] \subseteq C
        <5>. HIDE DEF cur, C
        <5>. QED  BY <1>0, <2>2, <4>1, ChainSplits
      <4>3. CASE parents[cur] = <<>>
        <5>1. start = None /\ H = {}
          BY <3>2, <4>3 DEF Parent
        <5>. QED  BY <2>3, <2>5, <4>1, <4>2, <4>3, <5>1, <3>2
      <4>4. CASE parents[cur] # <<>>
        <5>. DEFINE h == Head(parents[cur])
        <5>1. h \in Nodes /\ start = h /\ H = ChainOf(parents)[h] \ tombs
          BY <2>2, <3>2, <4>1, <4>4 DEF Parent
        <5>2. h < cur
          BY <2>2, <4>1, <4>4, GraphIs
        <5>3. \A j \in ChainOf(parents)[h]: j \in Nodes /\ j <= h
          BY <2>2, <5>1, ChainSplits
        <5>4. \A j \in ChainOf(parents)[h]: j < cur
          <6>1. h \in Nat /\ cur \in Nat /\ \A j \in ChainOf(parents)[h]: j \in Nat
            BY <4>1, <5>1, <5>3, Orders
          <6>. QED  BY <5>2, <5>3, <6>1
        <5>. QED  BY <2>3, <2>5, <3>2, <4>1, <4>2, <4>4, <5>1, <5>3, <5>4
      <4>. QED  BY <4>3, <4>4
    <3>. QED  BY <3>1, <3>2
  <2>. HIDE DEF H
  <2>8. PageCovers(H, n)
    BY <1>2, <2>3, <2>6, <2>7 DEF PageCovers, Named
  <2>. QED  BY <2>8
<1>. QED  BY <1>1, <1>2

LEMMA AskStep ==
    HistoryInv /\ Ask => HistoryInv'
<1>. SUFFICES ASSUME HistoryInv, focus \in {"log", "paths"}, NEW from \in Nodes,
                     reader' = [from |-> from, cursor |-> None, seen |-> <<>>, more |-> TRUE,
                                whole |-> Whole(from), poisoned |-> {}],
                     UNCHANGED <<repo, derived, ref>>
              PROVE  HistoryInv'
  BY DEF Ask
<1>1. UNCHANGED <<focus, parents, gen, content, tombs, blobTombs, row, skips, state, touches>>
      /\ Nodes' = Nodes
  BY DEF repo, derived, Nodes
<1>2. \A i \in Nodes: (Touched(i)' <=> Touched(i)) /\ BlameState(i)' = BlameState(i)
  BY <1>1 DEF BlameState, Touched, ParentContent, Parent
<1>3. SkipInv' /\ BlameInv' /\ TouchInv'
  BY <1>1, <1>2 DEF HistoryInv, SkipInv, BlameInv, TouchInv
<1>4. ReaderInv'
  <2>1. <<>> \in Seq(Nodes) /\ DOMAIN <<>> = {}
    OBVIOUS
  <2>2. Sorted(<<>>)'
    BY <2>1 DEF Sorted
  <2>3. focus = "paths" => reader'.whole \subseteq {i \in Nodes: Touched(i)}
    BY DEF Whole
  <2>4. focus # "paths" => reader'.whole = ChainOf(parents)[from]
    BY ChainsOf DEF Whole
  <2>. QED  BY <1>1, <1>2, <2>1, <2>2, <2>3, <2>4 DEF ReaderInv
<1>. QED  BY <1>1, <1>3, <1>4 DEF HistoryInv


LEMMA ReadStep ==
    HistoryInv /\ HistoryAssumption /\ ReadPage => HistoryInv'
<1>. SUFFICES ASSUME HistoryInv, HistoryAssumption, ReadPage
              PROVE  HistoryInv'
  OBVIOUS
<1>. DEFINE rows == LogPage(reader.cursor, Limit + 1)
            served == FirstOf(rows, Limit)
            old == reader.seen
            seen == old \o served
            cur == reader.cursor
            C == reader.whole
<1>1. /\ reader # None /\ reader.more /\ (focus = "paths" => ~PathPending)
      /\ UNCHANGED <<focus, parents, gen, content, tombs, blobTombs, row, skips, state, touches>>
      /\ Nodes' = Nodes
      /\ reader' = [reader EXCEPT
                      !.seen = seen,
                      !.more = Len(rows) > Limit,
                      !.cursor = IF Len(rows) > Limit THEN Last(served) ELSE @,
                      !.poisoned = @ \cup PoisonTouching]
  BY DEF ReadPage, repo, derived, Nodes
<1>2. \A i \in Nodes: (Touched(i)' <=> Touched(i)) /\ BlameState(i)' = BlameState(i)
  BY <1>1 DEF BlameState, Touched, ParentContent, Parent
<1>3. SkipInv' /\ BlameInv' /\ TouchInv'
  BY <1>1, <1>2 DEF HistoryInv, SkipInv, BlameInv, TouchInv
<1>4. Limit \in Nat /\ Limit # 0 /\ Limit + 1 \in Nat /\ None \notin Nat
  BY DEF HistoryAssumption
<1>5. PICK H: PageCovers(H, Limit + 1)
  BY <1>1, <1>4, PageIs
<1>6. /\ rows \in Seq(H) /\ Len(rows) <= Limit + 1 /\ Sorted(rows) /\ H \subseteq Nodes
      /\ \A j \in H \ ToSet(rows): Len(rows) = Limit + 1
                                     /\ \A k \in DOMAIN rows: Before(rows[k], j)
      /\ \A h \in H: cur # None => Before(cur, h)
      /\ focus # "paths" => H \subseteq C
      /\ \A j \in C \ Named: (cur # None => Before(cur, j)) => j \in H
  BY <1>5 DEF PageCovers, PageOk
<1>7. /\ focus \in {"log", "paths"} /\ reader.from \in Nodes /\ old \in Seq(Nodes)
      /\ reader = [from |-> reader.from, cursor |-> reader.cursor, seen |-> reader.seen,
                   more |-> reader.more, whole |-> reader.whole, poisoned |-> reader.poisoned]
      /\ cur \in Nodes \cup {None} /\ reader.poisoned \subseteq Nodes
      /\ focus = "paths" => C \subseteq {i \in Nodes: Touched(i)}
      /\ focus # "paths" =>
           /\ C = ChainOf(parents)[reader.from]
           /\ cur # None => cur \in C
      /\ Sorted(old)
      /\ cur = None => old = <<>>
      /\ cur # None => ServedTo(cur)
  BY <1>1 DEF HistoryInv, ReaderInv
<1>8. /\ \A i \in Nodes: i \in Nat /\ ~Before(i, i)
      /\ \A i, j \in Nodes: i = j \/ Before(i, j) \/ Before(j, i)
      /\ \A i, j, k \in Nodes: Before(i, j) /\ Before(j, k) => Before(i, k)
  BY Orders
<1>9. C \subseteq Nodes
  <2>1. \A i \in Nodes: ChainOf(parents)[i] \subseteq Nodes
    BY ChainsAre DEF HistoryInv, Nodes
  <2>. QED  BY <1>7, <2>1
<1>. HIDE DEF rows
<1>10. PICK q \in Nat: q = Len(rows)
  BY <1>6
<1>11. DOMAIN rows = 1..q /\ q <= Limit + 1 /\ \A k \in 1..q: rows[k] \in H
  BY <1>6, <1>10
<1>12. /\ served \in Seq(H) /\ Len(served) = IF Limit <= q THEN Limit ELSE q
       /\ \A k \in 1..Len(served): served[k] = rows[k]
  BY <1>4, <1>6, <1>10, FirstRows
<1>. HIDE DEF served
<1>13. PICK p \in Nat: p = Len(served)
  BY <1>12
<1>14. /\ p = (IF Limit <= q THEN Limit ELSE q) /\ p <= q
       /\ DOMAIN served = 1..p /\ \A k \in 1..p: served[k] = rows[k] /\ served[k] \in H
  <2>1. p = IF Limit <= q THEN Limit ELSE q
    BY <1>12, <1>13
  <2>. QED  BY <1>4, <1>11, <1>12, <1>13, <2>1
<1>15. PICK o \in Nat: o = Len(old) /\ DOMAIN old = 1..o
  BY <1>7
<1>16. /\ seen \in Seq(Nodes) /\ DOMAIN seen = 1..(o + p)
       /\ \A k \in 1..(o + p): seen[k] = IF k <= o THEN old[k] ELSE served[k - o]
  <2>1. served \in Seq(Nodes)
    BY <1>6, <1>14, <1>12, <1>13
  <2>. QED  BY <1>7, <1>13, <1>15, <2>1
<1>. HIDE DEF seen, old
<1>17. \A k \in 1..p: k + o \in 1..(o + p) /\ seen[k + o] = served[k]
  BY <1>16
<1>18. \A k \in 1..o: k \in 1..(o + p) /\ seen[k] = old[k] /\ old[k] \in Nodes
  BY <1>7, <1>15, <1>16
<1>19. ToSet(old) \cup ToSet(served) \subseteq ToSet(seen)
  BY <1>14, <1>15, <1>16, <1>17, <1>18 DEF ToSet
(* What was served comes before the page.                                  *)
<1>20. ASSUME NEW k \in 1..o, NEW h \in H
       PROVE  Before(old[k], h)
  <2>1. cur # None /\ cur \in Nodes
    BY <1>7, <1>15
  <2>2. ~Before(cur, old[k])
    BY <1>7, <1>15, <2>1 DEF ServedTo, old
  <2>. QED  BY <1>6, <1>8, <1>18, <2>1, <2>2
<1>21. Sorted(seen)
  <2>. SUFFICES ASSUME NEW k \in 1..(o + p), NEW l \in 1..(o + p), k < l
                PROVE  Before(seen[k], seen[l])
    BY <1>16 DEF Sorted
  <2>1. CASE l <= o
    <3>1. k \in 1..o /\ l \in 1..o
      BY <2>1
    <3>. QED  BY <1>7, <1>15, <1>18, <3>1 DEF Sorted
  <2>2. CASE ~(l <= o)
    <3>1. l - o \in 1..p /\ seen[l] = served[l - o]
      BY <1>16, <2>2
    <3>2. CASE k <= o
      BY <1>14, <1>18, <1>20, <3>1, <3>2
    <3>3. CASE ~(k <= o)
      <4>1. k - o \in 1..p /\ seen[k] = served[k - o] /\ k - o < l - o
        BY <1>16, <3>3
      <4>2. k - o \in 1..q /\ l - o \in 1..q
        BY <1>14, <3>1, <4>1
      <4>3. Before(rows[k - o], rows[l - o])
        BY <1>6, <1>11, <4>1, <4>2 DEF Sorted
      <4>. QED  BY <1>14, <3>1, <4>1, <4>3
    <3>. QED  BY <3>2, <3>3
  <2>. QED  BY <2>1, <2>2
(* What the answer has before the page was served.                         *)
<1>22. \A j \in C: cur # None /\ ~Before(cur, j) => j \in ToSet(old) \cup Named
  BY <1>7 DEF ServedTo, Missed, Named, old
<1>23. Missed' = Named
  BY <1>1, <1>7 DEF Missed, Named
<1>24. PoisonTouching \subseteq Nodes
  BY DEF PoisonTouching
<1>25. PICK z \in Seq(Nodes): z = seen /\ Sorted(z) /\ DOMAIN z = 1..(o + p)
  BY <1>16, <1>21
<1>26. PICK w: w = C
  OBVIOUS
<1>27. \A i, j: Before(i, j)' <=> Before(i, j)
  BY <1>1 DEF Before, SortsBefore
<1>28. Sorted(z)'
  BY <1>25, <1>27 DEF Sorted
<1>29. CASE q > Limit
  <2>0. p = Limit /\ q = Limit + 1 /\ Limit \in 1..p /\ Limit \in 1..q
    BY <1>4, <1>11, <1>14, <1>29
  <2>1. PICK c: c = rows[Limit]
    OBVIOUS
  <2>2. Last(served) = c /\ c \in H /\ c \in Nodes /\ c # None
    <3>1. Last(served) = served[p]
      BY <1>13 DEF Last
    <3>2. c \in H
      BY <1>11, <2>0, <2>1
    <3>. QED  BY <1>4, <1>6, <1>8, <1>14, <2>0, <2>1, <3>1, <3>2
  <2>3. /\ reader'.seen = seen /\ reader'.more = TRUE /\ reader'.cursor = c
        /\ reader'.from = reader.from /\ reader'.whole = C
        /\ reader'.poisoned = reader.poisoned \cup PoisonTouching
        /\ reader' = [from |-> reader'.from, cursor |-> reader'.cursor, seen |-> reader'.seen,
                      more |-> reader'.more, whole |-> reader'.whole, poisoned |-> reader'.poisoned]
    BY <1>1, <1>7, <1>10, <1>29, <2>2
  <2>4. ASSUME NEW k \in 1..(o + p)
        PROVE  ~Before(c, seen[k])
    <3>1. CASE k <= o
      <4>1. Before(seen[k], c) /\ seen[k] \in Nodes
        BY <1>18, <1>20, <2>2, <3>1
      <4>. QED  BY <1>8, <2>2, <4>1
    <3>2. CASE ~(k <= o)
      <4>1. k - o \in 1..p /\ seen[k] = rows[k - o] /\ k - o \in 1..q
        BY <1>14, <1>16, <3>2
      <4>2. rows[k - o] \in Nodes
        BY <1>6, <1>11, <4>1
      <4>3. rows[k - o] = c \/ Before(rows[k - o], c)
        <5>1. k - o = Limit \/ k - o < Limit
          BY <2>0, <4>1
        <5>. QED  BY <1>6, <1>11, <2>0, <2>1, <4>1, <5>1 DEF Sorted
      <4>. QED  BY <1>8, <2>2, <4>1, <4>2, <4>3
    <3>. QED  BY <3>1, <3>2
  <2>5. ASSUME NEW j \in C, ~Before(c, j)
        PROVE  j \in ToSet(seen) \cup Named
    <3>1. CASE cur # None /\ ~Before(cur, j)
      BY <1>19, <1>22, <3>1
    <3>2. CASE cur # None => Before(cur, j)
      <4>. SUFFICES ASSUME j \notin Named PROVE j \in ToSet(seen)
        OBVIOUS
      <4>1. j \in H
        BY <1>6, <3>2
      <4>2. j \in ToSet(rows)
        BY <1>6, <1>11, <2>0, <2>1, <2>5, <4>1
      <4>3. PICK m \in 1..q: j = rows[m]
        BY <1>11, <4>2 DEF ToSet
      <4>4. m <= Limit
        <5>. SUFFICES ASSUME ~(m <= Limit) PROVE FALSE
          OBVIOUS
        <5>1. Limit < m
          BY <1>4
        <5>. QED  BY <1>6, <1>11, <2>0, <2>1, <2>5, <4>3, <5>1 DEF Sorted
      <4>5. m \in 1..p /\ j = served[m]
        BY <1>14, <2>0, <4>3, <4>4
      <4>6. j \in ToSet(served)
        BY <1>14, <4>5 DEF ToSet
      <4>. QED  BY <1>19, <4>6
    <3>. QED  BY <3>1, <3>2
  <2>6. ServedTo(c)'
    <3>1. \A k \in DOMAIN z: ~Before(c, z[k])'
      BY <1>25, <1>27, <2>4
    <3>2. \A j \in w: ~Before(c, j)' => j \in ToSet(z) \cup Missed'
      BY <1>23, <1>25, <1>26, <1>27, <2>5
    <3>3. reader'.seen = z /\ reader'.whole = w
      BY <1>25, <1>26, <2>3
    <3>. QED  BY <3>1, <3>2, <3>3 DEF ServedTo
  <2>7. focus # "paths" => c \in C
    BY <1>6, <2>2
  <2>8. ReaderInv'
    BY <1>1, <1>2, <1>7, <1>24, <1>25, <1>28, <2>2, <2>3, <2>6, <2>7 DEF ReaderInv
  <2>. QED  BY <1>1, <1>3, <2>8 DEF HistoryInv
<1>30. CASE ~(q > Limit)
  <2>1. p = q /\ q # Limit + 1
    BY <1>4, <1>14, <1>30
  <2>2. /\ reader'.seen = seen /\ reader'.more = FALSE /\ reader'.cursor = cur
        /\ reader'.from = reader.from /\ reader'.whole = C
        /\ reader'.poisoned = reader.poisoned \cup PoisonTouching
        /\ reader' = [from |-> reader'.from, cursor |-> reader'.cursor, seen |-> reader'.seen,
                      more |-> reader'.more, whole |-> reader'.whole, poisoned |-> reader'.poisoned]
    <3>1. (Len(rows) > Limit) = FALSE
      BY <1>4, <1>10, <1>30
    <3>. QED  BY <1>1, <1>7, <3>1
  <2>3. H \subseteq ToSet(seen)
    <3>1. H \subseteq ToSet(rows)
      BY <1>6, <1>10, <2>1
    <3>2. ToSet(rows) \subseteq ToSet(served)
      BY <1>11, <1>14, <2>1 DEF ToSet
    <3>. QED  BY <1>19, <3>1, <3>2
  <2>4. C \ Named \subseteq ToSet(seen)
    BY <1>6, <1>19, <1>22, <2>3
  <2>5. ReaderInv'
    <3>1. w \ Missed' \subseteq ToSet(z)
      BY <1>23, <1>25, <1>26, <2>4
    <3>. QED  BY <1>1, <1>2, <1>7, <1>24, <1>25, <1>26, <1>28, <2>2, <3>1 DEF ReaderInv
  <2>. QED  BY <1>1, <1>3, <2>5 DEF HistoryInv
<1>. QED  BY <1>10, <1>29, <1>30

LEMMA HistoryNext ==
    HistoryInv /\ HistoryAssumption /\ [Next]_vars => HistoryInv'
<1>. SUFFICES ASSUME HistoryInv, HistoryAssumption, [Next]_vars
              PROVE  HistoryInv'
  OBVIOUS
<1>1. CASE UNCHANGED <<focus, parents, gen, content, tombs, blobTombs, row, skips, state, touches,
                       reader>>
  <2>1. Nodes' = Nodes
    BY <1>1 DEF Nodes
  <2>2. \A i \in Nodes: (Touched(i)' <=> Touched(i)) /\ BlameState(i)' = BlameState(i)
    BY <1>1 DEF BlameState, Touched, ParentContent, Parent
  <2>3. SkipInv' /\ BlameInv' /\ TouchInv'
    BY <1>1, <2>1, <2>2 DEF HistoryInv, SkipInv, BlameInv, TouchInv
  <2>4. Grows
    BY <1>1, <2>1, <2>2 DEF Grows
  <2>5. ReaderInv'
    BY <2>4, ReaderStays
  <2>. QED  BY <1>1, <2>1, <2>3, <2>5 DEF HistoryInv
<1>2. CASE CasRef
  BY <1>1, <1>2 DEF CasRef, repo, derived
<1>3. CASE UNCHANGED vars
  BY <1>1, <1>3 DEF vars
<1>. QED  BY <1>2, <1>3, CreateStep, DeriveStep, MarkSteps, AskStep, ReadStep DEF Next


-----------------------------------------------------------------------------
(* What the invariant implies.                                             *)

LEMMA PagesHold == HistoryInv => PagesCover
<1>. SUFFICES ASSUME HistoryInv, reader # None
              PROVE  /\ IsInjective(reader.seen)
                     /\ ~reader.more => reader.whole \ (tombs \cup reader.poisoned)
                                           \subseteq ToSet(reader.seen)
  BY DEF PagesCover
<1>1. /\ reader.seen \in Seq(Nodes) /\ Sorted(reader.seen)
      /\ ~reader.more => reader.whole \ Missed \subseteq ToSet(reader.seen)
  BY DEF HistoryInv, ReaderInv
<1>2. \A i \in Nodes: ~Before(i, i)
  BY Orders
<1>3. ASSUME NEW a \in DOMAIN reader.seen, NEW b \in DOMAIN reader.seen,
             reader.seen[a] = reader.seen[b], a # b
      PROVE  FALSE
  <2>1. a \in Nat /\ b \in Nat /\ reader.seen[a] \in Nodes
    BY <1>1
  <2>2. a < b \/ b < a
    BY <1>3, <2>1
  <2>. QED  BY <1>1, <1>2, <1>3, <2>1, <2>2 DEF Sorted
<1>. QED  BY <1>1, <1>3 DEF IsInjective, Missed

LEMMA NamesHold == HistoryInv /\ HistoryAssumption => NamesNothingRedacted
<1>. SUFFICES ASSUME HistoryInv, NEW a \in Nodes, NEW b \in 1..a
              PROVE  (Diff(a, b) \cup FileAt(a)
                        \cup FileEntry(content[a]) \cup DirEntry(content[a]))
                         \cap blobTombs = {}
  BY DEF NamesNothingRedacted
<1>1. None \notin blobTombs
  BY DEF HistoryInv
<1>2. \A x: UnlessRedacted(x) \notin blobTombs
  BY <1>1 DEF UnlessRedacted
<1>. QED  BY <1>2 DEF Diff, FileAt, FileEntry, DirEntry

(* The climb: its seeds are above the node, and what they reach of the     *)
(* lower side is all that the node reaches.                                *)
LEMMA StepClimbs ==
    ASSUME HistoryInv, NEW low \in Nat, NEW h \in Nodes, gen[h] > low, parents[h] # <<>>
    PROVE  /\ ClimbStep(h, low) \in Nodes /\ ClimbStep(h, low) < h
           /\ LET p == Head(parents[h])  t == ClimbStep(h, low)
              IN  \A j \in AncOf(parents)[p]: gen[j] <= low => j \in AncOf(parents)[t]
           /\ ClimbStep(h, low) \in AncOf(parents)[Head(parents[h])]
<1>. DEFINE p == Head(parents[h])
            A == AncOf(parents)
            J == Jump(h, low)
            hop(e) == e.hop
<1>1. /\ Nodes = DOMAIN parents /\ GraphOk(parents) /\ GenOk(parents, gen)
      /\ p \in Nodes /\ p < h /\ \A j \in Nodes: gen[j] \in Nat /\ j \in Nat
  BY GraphIs DEF HistoryInv, Nodes, GenOk
<1>2. p \in A[p] /\ \A j \in A[p]: j \in Nodes
  BY <1>1, AncestorsBelow
<1>. HIDE DEF A
<1>3. CASE J = {}
  <2>1. ClimbStep(h, low) = p
    BY <1>3 DEF ClimbStep, Parent
  <2>. QED  BY <1>1, <1>2, <2>1 DEF A
<1>4. CASE J # {}
  <2>1. EntriesOk(parents, gen, h, skips[h])
    BY DEF HistoryInv, SkipInv
  <2>2. \A e \in J: e.pure /\ gen[e.target] >= low /\ EntryOk(parents, gen, h, e)
    BY <2>1 DEF Jump, GraphSkips, ToSet, EntriesOk
  <2>3. IsFiniteSet(J)
    <3>1. IsFiniteSet(ToSet(skips[h]))
      BY <2>1, ImageIsFinite DEF EntriesOk, ToSet
    <3>2. J \subseteq ToSet(skips[h])
      BY DEF Jump, GraphSkips
    <3>. QED  BY <3>1, <3>2, FS_Subset
  <2>. HIDE DEF J
  <2>4. \E e \in J: \A f \in J: f.hop <= e.hop
    <3>. DEFINE g == [e \in J |-> e.hop]
    <3>1. \A e \in J: g[e] \in Nat
      BY <2>2 DEF EntryOk
    <3>2. PICK e \in J: \A f \in J: g[f] <= g[e]
      <4>. HIDE DEF g
      <4>. QED  BY <1>4, <2>3, <3>1, Greatest
    <3>. QED  BY <3>2
  <2>. DEFINE e == CHOOSE e \in J: \A f \in J: f.hop <= e.hop
  <2>5. e \in J
    BY <2>4
  <2>6. ClimbStep(h, low) = e.target
    BY <1>4 DEF ClimbStep, J
  <2>. HIDE DEF e
  <2>7. /\ e.target \in Nodes /\ e.target < h /\ gen[e.target] >= low
        /\ Straight(parents, gen, h, e.target)
    BY <1>1, <2>2, <2>5 DEF EntryOk
  <2>8. \A j \in A[p]: gen[j] <= low => j \in A[e.target]
    <3>. SUFFICES ASSUME NEW j \in A[p], gen[j] <= low
                  PROVE  j \in A[e.target]
      OBVIOUS
    <3>1. j \in A[e.target] \/ gen[j] > gen[e.target]
      BY <2>7 DEF Straight, A
    <3>2. gen[j] \in Nat /\ gen[e.target] \in Nat
      BY <1>1, <1>2, <2>7
    <3>. QED  BY <2>7, <3>1, <3>2
  <2>. QED  BY <2>6, <2>7, <2>8 DEF A, Straight
<1>. QED  BY <1>3, <1>4

LEMMA ParentIs ==
    ASSUME HistoryInv, HistoryAssumption, NEW i \in Nodes
    PROVE  /\ Parent(i) = None <=> parents[i] = <<>>
           /\ parents[i] # <<>> => /\ Parent(i) = Head(parents[i])
                                   /\ Head(parents[i]) \in Nodes /\ Head(parents[i]) < i
<1>1. parents[i] # <<>> => Head(parents[i]) \in Nodes /\ Head(parents[i]) < i
  BY GraphIs DEF HistoryInv, Nodes
<1>2. None \notin Nodes
  BY GraphIs DEF HistoryInv, HistoryAssumption, Nodes
<1>. QED  BY <1>1, <1>2 DEF Parent

LEMMA SeedsAre ==
    ASSUME HistoryInv, HistoryAssumption, NEW low \in Nat
    PROVE  \A h \in Nodes: Climb(low)[h] =
             IF gen[h] <= low \/ parents[h] = <<>> THEN {h}
             ELSE ToSet(Tail(parents[h])) \cup Climb(low)[ClimbStep(h, low)]
<1>. DEFINE End(h) == gen[h] <= low \/ Parent(h) = None
            ends == {h \in Nodes: End(h)}
            V == SUBSET Nodes
            others(h) == ToSet(Tail(parents[h]))
            up == [h \in Nodes \ ends |-> ClimbStep(h, low)]
            base == [h \in ends |-> {h}]
            join == [x \in (Nodes \ ends) \X V |-> others(x[1]) \cup x[2]]
            Climbs(f) == f = [h \in Nodes |-> IF gen[h] <= low \/ Parent(h) = None THEN {h}
                                ELSE ToSet(Tail(parents[h])) \cup f[ClimbStep(h, low)]]
            seeds == CHOOSE f: Climbs(f)
<1>1. Climb(low) = seeds
  BY DEF Climb
<1>2. /\ Nodes = DOMAIN parents /\ GraphOk(parents) /\ Nodes \subseteq Nat
      /\ \A h \in Nodes: gen[h] \in Nat
  BY GraphIs DEF HistoryInv, Nodes, GenOk
<1>3. ASSUME NEW h \in Nodes \ ends
      PROVE  ClimbStep(h, low) \in Nodes /\ ClimbStep(h, low) < h /\ others(h) \subseteq Nodes
  <2>1. gen[h] > low /\ parents[h] # <<>>
    BY <1>2, ParentIs
  <2>2. \A q \in ToSet(parents[h]): q \in Nodes
    BY <1>2, GraphIs
  <2>3. others(h) \subseteq ToSet(parents[h])
    BY <1>2, <2>1, GraphIs
  <2>. QED  BY <2>1, <2>2, <2>3, StepClimbs
<1>. HIDE DEF others
<1>4. CanClimb(Nodes, V, ends, up, base, join)
  <2>1. up \in [Nodes \ ends -> Nodes] /\ \A h \in Nodes \ ends: up[h] < h
    BY <1>3
  <2>2. join \in [(Nodes \ ends) \X V -> V] /\ base \in [ends -> V] /\ V # {}
    BY <1>3
  <2>. QED  BY <1>2, <2>1, <2>2 DEF CanClimb
<1>5. /\ \A h \in Nodes: h \in ends <=> End(h)
      /\ \A h \in ends: base[h] = {h}
      /\ \A h \in Nodes \ ends: up[h] = ClimbStep(h, low) /\ up[h] \in Nodes
      /\ \A h \in Nodes \ ends, v \in V: join[<<h, v>>] = others(h) \cup v
  BY <1>3
<1>. HIDE DEF ends, up, base, join
<1>6. PICK f \in [Nodes -> V]: Climbed(f, Nodes, ends, up, base, join)
  BY <1>4, Climbing
<1>7. ASSUME NEW h \in Nodes
      PROVE  f[h] = IF End(h) THEN {h} ELSE others(h) \cup f[ClimbStep(h, low)]
  <2>1. CASE h \in ends
    BY <1>5, <1>6, <2>1 DEF Climbed
  <2>2. CASE h \notin ends
    <3>1. up[h] = ClimbStep(h, low) /\ f[up[h]] \in V
      BY <1>5, <2>2
    <3>2. f[h] = join[<<h, f[up[h]]>>]
      BY <1>6, <2>2 DEF Climbed
    <3>3. join[<<h, f[up[h]]>>] = others(h) \cup f[up[h]]
      BY <1>5, <2>2, <3>1
    <3>. QED  BY <1>5, <2>2, <3>1, <3>2, <3>3
  <2>. QED  BY <2>1, <2>2
<1>8. Climbs(f)
  BY <1>7 DEF others
<1>9. Climbs(seeds)
  BY <1>8
<1>10. \A h \in Nodes: seeds[h] = IF gen[h] <= low \/ Parent(h) = None THEN {h}
                                  ELSE ToSet(Tail(parents[h])) \cup seeds[ClimbStep(h, low)]
  BY <1>9
<1>. HIDE DEF seeds
<1>. QED  BY <1>1, <1>10, ParentIs

LEMMA SeedsReach ==
    ASSUME HistoryInv, HistoryAssumption, NEW lo \in Nodes, NEW hi \in Nodes
    PROVE  AncOf(parents)[lo] \cap UNION {AncOf(parents)[s]: s \in Climb(gen[lo])[hi]}
             = AncOf(parents)[lo] \cap AncOf(parents)[hi]
<1>. DEFINE A == AncOf(parents)
            low == gen[lo]
            seeds == Climb(low)
            Reach(h) == UNION {A[s]: s \in seeds[h]}
            S == {h \in Nodes: A[lo] \cap Reach(h) = A[lo] \cap A[h]}
<1>1. /\ Nodes = DOMAIN parents /\ GraphOk(parents) /\ GenOk(parents, gen) /\ Nodes \subseteq Nat
      /\ \A h \in Nodes: gen[h] \in Nat
  BY GraphIs DEF HistoryInv, Nodes, GenOk
<1>2. \A j \in A[lo]: j \in Nodes /\ gen[j] <= low
  BY <1>1, AncestorsBelow
<1>3. \A h \in Nodes: seeds[h] = IF gen[h] <= low \/ parents[h] = <<>> THEN {h}
                                 ELSE ToSet(Tail(parents[h])) \cup seeds[ClimbStep(h, low)]
  BY <1>1, SeedsAre
<1>4. \A h \in Nodes: A[h] = {h} \cup UNION {A[p]: p \in ToSet(parents[h])}
  BY <1>1, AncestorsAre
<1>. HIDE DEF A, seeds
<1>5. ASSUME NEW h \in Nodes, \A j \in Nodes: j < h => j \in S
      PROVE  h \in S
  <2>1. CASE gen[h] <= low \/ parents[h] = <<>>
    <3>1. Reach(h) = A[h]
      BY <1>3, <2>1
    <3>. QED  BY <3>1
  <2>2. CASE ~(gen[h] <= low \/ parents[h] = <<>>)
    <3>. DEFINE p == Head(parents[h])
                t == ClimbStep(h, low)
                O == UNION {A[s]: s \in ToSet(Tail(parents[h]))}
    <3>1. gen[h] > low /\ parents[h] # <<>> /\ low \in Nat
      BY <1>1, <2>2
    <3>2. /\ t \in Nodes /\ t < h /\ t \in A[p] /\ p \in Nodes
          /\ \A j \in A[p]: gen[j] <= low => j \in A[t]
      BY <3>1, StepClimbs, ParentIs DEF A
    <3>3. h \notin A[lo]
      BY <1>1, <1>2, <3>1
    <3>4. A[h] = {h} \cup A[p] \cup O
      <4>1. ToSet(parents[h]) = {p} \cup ToSet(Tail(parents[h]))
        BY <1>1, <3>1, GraphIs
      <4>. QED  BY <1>4, <4>1
    <3>5. Reach(h) = O \cup Reach(t)
      <4>1. seeds[h] = ToSet(Tail(parents[h])) \cup seeds[t]
        BY <1>3, <2>2
      <4>. QED  BY <4>1
    <3>6. A[lo] \cap Reach(t) = A[lo] \cap A[t]
      BY <1>5, <3>2
    <3>7. A[t] \subseteq A[p]
      BY <1>1, <3>2, AncestorsBelow DEF A
    <3>8. A[lo] \cap A[t] = A[lo] \cap A[p]
      BY <1>2, <3>2, <3>7
    <3>. HIDE DEF Reach, O, p, t
    <3>9. A[lo] \cap Reach(h) = A[lo] \cap A[h]
      BY <3>3, <3>4, <3>5, <3>6, <3>8
    <3>. QED  BY <3>9
  <2>. QED  BY <2>1, <2>2
<1>6. S = Nodes
  <2>1. S \subseteq Nodes /\ Nodes \subseteq Nat
    BY <1>1
  <2>. HIDE DEF S
  <2>. QED  BY <1>5, <2>1, Inductively
<1>7. A[lo] \cap Reach(hi) = A[lo] \cap A[hi]
  BY <1>6
<1>. QED  BY <1>7 DEF A, seeds

LEMMA MergeBasesHold == HistoryInv /\ HistoryAssumption => MergeBaseExact
<1>. SUFFICES ASSUME HistoryInv, HistoryAssumption, NEW a \in Nodes, NEW b \in 1..(a - 1)
              PROVE  MergeBaseSkip(a, b) = MergeBaseWalkSeeded({a}, {b}, tombs)
  BY DEF MergeBaseExact
<1>. DEFINE A == AncOf(parents)
            Best(common) == {i \in common \ tombs: \A j \in common \ tombs: gen[j] <= gen[i]}
            lo == IF gen[a] >= gen[b] THEN b ELSE a
            hi == IF gen[a] >= gen[b] THEN a ELSE b
            seeds == Climb(gen[lo])[hi]
<1>1. a \in Nodes /\ b \in Nodes
  <2>1. Nodes = 1..Len(parents) /\ Len(parents) \in Nat
    BY GraphIs DEF HistoryInv, Nodes
  <2>. QED  BY <2>1
<1>2. lo \in Nodes /\ hi \in Nodes /\ {lo, hi} = {a, b}
  BY <1>1
<1>3. \A S, T: MergeBaseWalkSeeded(S, T, tombs)
                = Best((UNION {A[i]: i \in S}) \cap (UNION {A[i]: i \in T}))
  BY AncestorsOf DEF MergeBaseWalkSeeded
<1>4. MergeBaseSkip(a, b) = MergeBaseWalkSeeded({lo}, seeds, tombs)
  BY DEF MergeBaseSkip
<1>. HIDE DEF A, seeds, lo, hi
<1>5. A[lo] \cap UNION {A[s]: s \in seeds} = A[lo] \cap A[hi]
  BY <1>2, SeedsReach DEF A, seeds
<1>6. A[lo] \cap A[hi] = A[a] \cap A[b]
  BY <1>2
<1>7. \A x: UNION {A[i]: i \in {x}} = A[x]
  OBVIOUS
<1>. HIDE DEF Best
<1>8. MergeBaseSkip(a, b) = Best(A[lo] \cap UNION {A[s]: s \in seeds})
  BY <1>3, <1>4, <1>7
<1>9. MergeBaseWalkSeeded({a}, {b}, tombs) = Best(A[a] \cap A[b])
  BY <1>3, <1>7
<1>. QED  BY <1>5, <1>6, <1>8, <1>9


(* Blame: the walk, and who brought a line.                                *)
LEMMA EndsAre ==
    ASSUME HistoryInv, HistoryAssumption
    PROVE  \A i \in Nodes: ~BlameEnds(i) =>
             /\ i \notin tombs /\ row[i].state = "done" /\ state[i] = BlameState(i)
             /\ state[i] # None => state[i].parent # None
             /\ Parent(i) \in Nodes /\ Parent(i) < i /\ Parent(i) # None
BY ParentIs DEF BlameEnds, HistoryInv, BlameInv

LEMMA BlameEndIs ==
    ASSUME HistoryInv, HistoryAssumption
    PROVE  \A i \in Nodes: /\ BlameEnd[i] = IF BlameEnds(i) THEN i ELSE BlameEnd[Parent(i)]
                           /\ BlameEnd[i] \in Nodes
<1>. DEFINE ends == {i \in Nodes: BlameEnds(i)}
            up == [i \in Nodes \ ends |-> Parent(i)]
            base == [i \in ends |-> i]
            join == [x \in (Nodes \ ends) \X Nodes |-> x[2]]
            Climbs(f) == f = [i \in Nodes |-> IF BlameEnds(i) THEN i ELSE f[Parent(i)]]
<1>0. Nodes \subseteq Nat
  BY GraphIs DEF HistoryInv, Nodes
<1>. SUFFICES ASSUME Nodes # {}
              PROVE  \A i \in Nodes:
                       /\ BlameEnd[i] = IF BlameEnds(i) THEN i ELSE BlameEnd[Parent(i)]
                       /\ BlameEnd[i] \in Nodes
  OBVIOUS
<1>1. \A i \in Nodes \ ends: Parent(i) \in Nodes /\ Parent(i) < i
  BY EndsAre
<1>2. CanClimb(Nodes, Nodes, ends, up, base, join)
  BY <1>0, <1>1 DEF CanClimb
<1>3. /\ \A i \in Nodes: i \in ends <=> BlameEnds(i)
      /\ \A i \in ends: base[i] = i
      /\ \A i \in Nodes \ ends: up[i] = Parent(i)
      /\ \A i \in Nodes \ ends, v \in Nodes: join[<<i, v>>] = v
  OBVIOUS
<1>. HIDE DEF ends, up, base, join
<1>4. PICK f \in [Nodes -> Nodes]: Climbed(f, Nodes, ends, up, base, join)
  BY <1>2, Climbing
<1>5. ASSUME NEW i \in Nodes
      PROVE  f[i] = IF BlameEnds(i) THEN i ELSE f[Parent(i)]
  <2>1. CASE i \in ends
    BY <1>3, <1>4, <2>1 DEF Climbed
  <2>2. CASE i \notin ends
    <3>1. up[i] = Parent(i) /\ f[up[i]] \in Nodes
      BY <1>1, <1>3, <2>2
    <3>2. f[i] = join[<<i, f[up[i]]>>]
      BY <1>4, <2>2 DEF Climbed
    <3>3. join[<<i, f[up[i]]>>] = f[up[i]]
      BY <1>3, <2>2, <3>1
    <3>. QED  BY <1>3, <2>2, <3>1, <3>2, <3>3
  <2>. QED  BY <2>1, <2>2
<1>6. Climbs(f)
  BY <1>5
<1>7. Climbs(BlameEnd)
  BY <1>6 DEF BlameEnd
<1>8. \A i \in Nodes: BlameEnd[i] = IF BlameEnds(i) THEN i ELSE BlameEnd[Parent(i)]
  BY <1>7
<1>. DEFINE S == {i \in Nodes: BlameEnd[i] \in Nodes}
<1>9. S \subseteq Nodes /\ Falls(S, Nodes, ends, up)
  BY <1>1, <1>3, <1>8 DEF Falls
<1>10. S = Nodes
  <2>. HIDE DEF S
  <2>. QED  BY <1>0, <1>9, ClimbsDown
<1>. QED  BY <1>8, <1>10

LEMMA BlameNodesAre ==
    ASSUME HistoryInv, HistoryAssumption
    PROVE  \A i \in Nodes:
             /\ BlameNodes[i] = (IF BlameEnds(i) THEN <<>> ELSE BlameNodes[Parent(i)])
                                   \o (IF LookedAt(i) THEN <<i>> ELSE <<>>)
             /\ BlameNodes[i] \in Seq(Nodes)
<1>. DEFINE V == Seq(Nodes)
            own(i) == IF LookedAt(i) THEN <<i>> ELSE <<>>
            ends == {i \in Nodes: BlameEnds(i)}
            up == [i \in Nodes \ ends |-> Parent(i)]
            base == [i \in ends |-> <<>> \o own(i)]
            join == [x \in (Nodes \ ends) \X V |-> x[2] \o own(x[1])]
            Climbs(f) ==
                f = [i \in Nodes |-> (IF BlameEnds(i) THEN <<>> ELSE f[Parent(i)]) \o own(i)]
<1>0. Nodes \subseteq Nat
  BY GraphIs DEF HistoryInv, Nodes
<1>1. \A i \in Nodes \ ends: Parent(i) \in Nodes /\ Parent(i) < i
  BY EndsAre
<1>2. <<>> \in V /\ \A i \in Nodes: <<>> \o own(i) \in V /\ \A v \in V: v \o own(i) \in V
  <2>1. <<>> \in V /\ \A i \in Nodes: own(i) \in V
    OBVIOUS
  <2>. HIDE DEF own
  <2>. QED  BY <2>1
<1>. HIDE DEF own
<1>3. CanClimb(Nodes, V, ends, up, base, join)
  <2>1. V # {} /\ ends \in SUBSET Nodes
    BY <1>2
  <2>2. base \in [ends -> V] /\ join \in [(Nodes \ ends) \X V -> V]
    BY <1>2
  <2>3. up \in [Nodes \ ends -> Nodes] /\ \A i \in Nodes \ ends: up[i] < i
    BY <1>1
  <2>. HIDE DEF V, ends, up, base, join
  <2>. QED  BY <1>0, <2>1, <2>2, <2>3 DEF CanClimb
<1>4. /\ \A i \in Nodes: i \in ends <=> BlameEnds(i)
      /\ \A i \in ends: base[i] = <<>> \o own(i)
      /\ \A i \in Nodes \ ends: up[i] = Parent(i)
      /\ \A i \in Nodes \ ends, v \in V: join[<<i, v>>] = v \o own(i)
  OBVIOUS
<1>. HIDE DEF ends, up, base, join
<1>5. PICK f \in [Nodes -> V]: Climbed(f, Nodes, ends, up, base, join)
  BY <1>3, Climbing
<1>6. ASSUME NEW i \in Nodes
      PROVE  f[i] = (IF BlameEnds(i) THEN <<>> ELSE f[Parent(i)]) \o own(i)
  <2>1. CASE i \in ends
    BY <1>4, <1>5, <2>1 DEF Climbed
  <2>2. CASE i \notin ends
    <3>1. up[i] = Parent(i) /\ f[up[i]] \in V
      BY <1>1, <1>4, <2>2
    <3>2. f[i] = join[<<i, f[up[i]]>>]
      BY <1>5, <2>2 DEF Climbed
    <3>3. join[<<i, f[up[i]]>>] = f[up[i]] \o own(i)
      BY <1>4, <2>2, <3>1
    <3>. QED  BY <1>4, <2>2, <3>1, <3>2, <3>3
  <2>. QED  BY <2>1, <2>2
<1>7. Climbs(f)
  BY <1>6
<1>8. Climbs(BlameNodes)
  BY <1>7 DEF BlameNodes, own
<1>9. \A i \in Nodes:
        BlameNodes[i] = (IF BlameEnds(i) THEN <<>> ELSE BlameNodes[Parent(i)]) \o own(i)
  BY <1>8
<1>. DEFINE S == {i \in Nodes: BlameNodes[i] \in V}
<1>10. Falls(S, Nodes, ends, up)
  <2>. SUFFICES ASSUME NEW i \in Nodes
                PROVE  \/ i \in ends /\ i \in S
                       \/ i \notin ends /\ up[i] \in Nodes /\ up[i] < i /\ (up[i] \in S => i \in S)
    BY DEF Falls
  <2>1. CASE i \in ends
    <3>1. BlameNodes[i] = <<>> \o own(i)
      BY <1>4, <1>9, <2>1
    <3>. QED  BY <1>2, <2>1, <3>1
  <2>2. CASE i \notin ends
    <3>1. up[i] = Parent(i) /\ up[i] \in Nodes /\ up[i] < i /\ ~BlameEnds(i)
      BY <1>1, <1>4, <2>2
    <3>2. BlameNodes[i] = BlameNodes[up[i]] \o own(i)
      BY <1>9, <3>1
    <3>. QED  BY <1>2, <2>2, <3>1, <3>2
  <2>. QED  BY <2>1, <2>2
<1>11. S = Nodes
  <2>1. S \subseteq Nodes
    OBVIOUS
  <2>. HIDE DEF S
  <2>. QED  BY <1>0, <1>10, <2>1, ClimbsDown
<1>. QED  BY <1>9, <1>11 DEF own

LEMMA IntroducerIs ==
    ASSUME HistoryInv, HistoryAssumption, NEW line, NEW at \in Nodes
    PROVE  Introducer(at, line) =
             IF ParentContent(at) = None \/ line \notin ParentContent(at)
               THEN at ELSE Introducer(Parent(at), line)
<1>. DEFINE Brings(i) == ParentContent(i) = None \/ line \notin ParentContent(i)
            ends == {i \in Nodes: Brings(i)}
            up == [i \in Nodes \ ends |-> Parent(i)]
            base == [i \in ends |-> i]
            join == [x \in (Nodes \ ends) \X Nodes |-> x[2]]
            Climbs(f) ==
                f = [i \in Nodes |->
                        IF ParentContent(i) = None \/ line \notin ParentContent(i)
                          THEN i ELSE f[Parent(i)]]
            brought == CHOOSE f: Climbs(f)
<1>0. Nodes \subseteq Nat
  BY GraphIs DEF HistoryInv, Nodes
<1>1. \A i \in Nodes \ ends: Parent(i) \in Nodes /\ Parent(i) < i
  BY ParentIs DEF ParentContent
<1>2. CanClimb(Nodes, Nodes, ends, up, base, join)
  BY <1>0, <1>1 DEF CanClimb
<1>3. /\ \A i \in Nodes: i \in ends <=> Brings(i)
      /\ \A i \in ends: base[i] = i
      /\ \A i \in Nodes \ ends: up[i] = Parent(i)
      /\ \A i \in Nodes \ ends, v \in Nodes: join[<<i, v>>] = v
  OBVIOUS
<1>. HIDE DEF ends, up, base, join
<1>4. PICK f \in [Nodes -> Nodes]: Climbed(f, Nodes, ends, up, base, join)
  BY <1>2, Climbing
<1>5. ASSUME NEW i \in Nodes
      PROVE  f[i] = IF Brings(i) THEN i ELSE f[Parent(i)]
  <2>. HIDE DEF Brings
  <2>1. CASE i \in ends
    BY <1>3, <1>4, <2>1 DEF Climbed
  <2>2. CASE i \notin ends
    <3>1. up[i] = Parent(i) /\ f[up[i]] \in Nodes
      BY <1>1, <1>3, <2>2
    <3>2. f[i] = join[<<i, f[up[i]]>>]
      BY <1>4, <2>2 DEF Climbed
    <3>3. join[<<i, f[up[i]]>>] = f[up[i]]
      BY <1>3, <2>2, <3>1
    <3>. QED  BY <1>3, <2>2, <3>1, <3>2, <3>3
  <2>. QED  BY <2>1, <2>2
<1>6. Climbs(f)
  BY <1>5
<1>7. Climbs(brought)
  BY <1>6
<1>8. \A i \in Nodes: Introducer(i, line) = brought[i]
  BY DEF Introducer
<1>. HIDE DEF brought
<1>9. brought[at] = IF Brings(at) THEN at ELSE brought[Parent(at)]
  BY <1>7
<1>10. ~Brings(at) => Parent(at) \in Nodes
  BY <1>1, <1>3
<1>. QED  BY <1>8, <1>9, <1>10


(* The layers of a blame, oldest first: the boundary if there is one, then *)
(* the touched changesets of the walk.                                     *)
Offset(at) == IF BlameBoundary(at) THEN 1 ELSE 0
Height(at) == Len(BlameNodes[at]) + Offset(at)
BaseBlob(at) == IF BlameNodes[at] = <<>> THEN content[at] ELSE state[BlameNodes[at][1]].parent
LayerOf(at, k) ==
    IF k <= Offset(at) THEN [cs |-> BlameEnd[at], blob |-> BaseBlob(at)]
    ELSE LET n == BlameNodes[at][k - Offset(at)] IN [cs |-> n, blob |-> state[n].blob]

LEMMA LayersAre ==
    ASSUME HistoryInv, HistoryAssumption, NEW at \in Nodes
    PROVE  /\ Height(at) \in Nat
           /\ BlameLayers(at) = [k \in 1..Height(at) |-> LayerOf(at, k)]
<1>. DEFINE nodes == BlameNodes[at]
            m == Len(nodes)
            step(k) == [cs |-> nodes[k], blob |-> state[nodes[k]].blob]
            steps == [k \in DOMAIN nodes |-> step(k)]
            base == [cs |-> BlameEnd[at],
                     blob |-> IF nodes = <<>> THEN content[at] ELSE state[Head(nodes)].parent]
            All == {step(k): k \in DOMAIN nodes} \cup {base}
<1>1. nodes \in Seq(Nodes) /\ m \in Nat /\ DOMAIN nodes = 1..m
  <2>1. nodes \in Seq(Nodes)
    BY BlameNodesAre
  <2>. HIDE DEF nodes
  <2>. QED  BY <2>1
<1>2. BlameLayers(at) = IF BlameBoundary(at) THEN <<base>> \o steps ELSE steps
  BY DEF BlameLayers
<1>3. base = [cs |-> BlameEnd[at], blob |-> BaseBlob(at)]
  BY <1>1 DEF BaseBlob
<1>4. Offset(at) \in {0, 1} /\ Height(at) = m + Offset(at) /\ Height(at) \in Nat
  <2>1. Offset(at) \in {0, 1}
    BY DEF Offset
  <2>2. Height(at) = m + Offset(at)
    BY DEF Height
  <2>. HIDE DEF m
  <2>. QED  BY <1>1, <2>1, <2>2
<1>. DEFINE o == Offset(at)
            h == Height(at)
<1>5. \A k \in 1..h: LayerOf(at, k) = IF k <= o THEN base ELSE step(k - o)
  BY <1>3 DEF LayerOf
<1>. HIDE DEF nodes, step, base
<1>6. steps \in [1..m -> All]
  BY <1>1
<1>. HIDE DEF All
<1>7. steps \in Seq(All) /\ Len(steps) = m /\ base \in All
  BY <1>1, <1>6 DEF All
<1>8. \A k \in 1..m: steps[k] = step(k)
  BY <1>1
<1>. HIDE DEF steps, m, o, h
<1>9. CASE BlameBoundary(at)
  <2>1. o = 1 /\ h = m + 1 /\ m \in Nat
    BY <1>1, <1>4, <1>9 DEF Offset, o, h, m
  <2>2. /\ <<base>> \o steps \in Seq(All) /\ Len(<<base>> \o steps) = 1 + m
        /\ \A k \in 1..(m + 1): (<<base>> \o steps)[k] = IF k <= 1 THEN base ELSE steps[k - 1]
    BY <1>7, <2>1
  <2>3. \A k \in 1..h: (<<base>> \o steps)[k] = LayerOf(at, k)
    BY <1>5, <1>8, <2>1, <2>2
  <2>4. <<base>> \o steps = [k \in 1..h |-> LayerOf(at, k)]
    BY <2>1, <2>2, <2>3
  <2>. QED  BY <1>2, <1>4, <1>9, <2>4 DEF h
<1>10. CASE ~BlameBoundary(at)
  <2>1. o = 0 /\ h = m /\ m \in Nat
    BY <1>1, <1>4, <1>10 DEF Offset, o, h, m
  <2>2. \A k \in 1..h: steps[k] = LayerOf(at, k)
    BY <1>5, <1>8, <2>1
  <2>3. steps = [k \in 1..h |-> LayerOf(at, k)]
    BY <1>7, <2>1, <2>2
  <2>. QED  BY <1>2, <1>4, <1>10, <2>3 DEF h
<1>. QED  BY <1>9, <1>10


(* The owner of a line is the newest layer that has it anew.               *)
NewIn(at, line) ==
    {k \in 1..Height(at): /\ line \in LayerOf(at, k).blob
                          /\ k > 1 => line \notin LayerOf(at, k - 1).blob}

LEMMA OwnerIs ==
    ASSUME HistoryInv, HistoryAssumption, NEW at \in Nodes, NEW line,
           Height(at) >= 1, line \in LayerOf(at, Height(at)).blob
    PROVE  /\ Max(NewIn(at, line)) \in NewIn(at, line)
           /\ \A k \in NewIn(at, line): k <= Max(NewIn(at, line))
           /\ BlameOwner(at, line) = LayerOf(at, Max(NewIn(at, line))).cs
<1>. DEFINE N == NewIn(at, line)
            L == BlameLayers(at)
            has == {k \in 1..Height(at): line \in LayerOf(at, k).blob}
<1>1. Height(at) \in Nat /\ L = [k \in 1..Height(at) |-> LayerOf(at, k)]
  BY LayersAre
<1>2. N # {}
  <2>1. has # {} /\ has \subseteq Nat
    <3>1. Height(at) \in has
      BY <1>1
    <3>. QED  BY <3>1
  <2>2. PICK k \in has: \A j \in has: k <= j
    BY <2>1, LeastNumber
  <2>3. k > 1 => k - 1 \in 1..Height(at) /\ k - 1 < k
    BY <1>1
  <2>4. k > 1 => k - 1 \notin has
    <3>. SUFFICES ASSUME k > 1, k - 1 \in has PROVE FALSE
      OBVIOUS
    <3>1. k <= k - 1 /\ k \in Nat
      BY <2>1, <2>2
    <3>. QED  BY <3>1
  <2>5. k \in N
    BY <2>2, <2>3, <2>4 DEF NewIn
  <2>. QED  BY <2>5
<1>3. N \subseteq 1..Height(at) /\ IsFiniteSet(N) /\ N \subseteq Nat
  <2>1. N \subseteq 1..Height(at)
    BY DEF NewIn
  <2>2. IsFiniteSet(1..Height(at))
    BY <1>1, FS_Interval
  <2>. HIDE DEF N
  <2>3. IsFiniteSet(N)
    BY <2>1, <2>2, FS_Subset
  <2>. QED  BY <1>1, <2>1, <2>3
<1>4. N = {k \in DOMAIN L: line \in L[k].blob /\ (k > 1 => line \notin L[k - 1].blob)}
  <2>1. DOMAIN L = 1..Height(at) /\ \A k \in 1..Height(at): L[k] = LayerOf(at, k)
    BY <1>1
  <2>2. \A k \in 1..Height(at): k > 1 => k - 1 \in 1..Height(at)
    BY <1>1
  <2>. HIDE DEF L
  <2>. QED  BY <2>1, <2>2 DEF NewIn
<1>5. BlameOwner(at, line) = L[Max(N)].cs
  BY <1>4 DEF BlameOwner
<1>. HIDE DEF N, L
<1>6. Max(N) \in N /\ \A k \in N: k <= Max(N)
  BY <1>2, <1>3, MaxIs
<1>. QED  BY <1>1, <1>3, <1>5, <1>6 DEF N

OwnerOk(at, line) ==
    LET o == BlameOwner(at, line) IN
    /\ o \in Nodes /\ content[o] # None /\ line \in content[o]
    /\ o \in tombs => o = BlameEnd[at]
    /\ o = Introducer(at, line) \/ (BlameBoundary(at) /\ o = BlameEnd[at])

BlameOk(at) ==
    /\ Height(at) >= 1 /\ LayerOf(at, Height(at)).blob = content[at]
    /\ \A l \in content[at]: OwnerOk(at, l)

(* A walk that ends where it begins.                                       *)
LEMMA BlameAtEnd ==
    ASSUME HistoryInv, HistoryAssumption, NEW i \in Nodes, BlameEnds(i),
           content[i] # None, ~BlamePending(i)
    PROVE  BlameOk(i)
<1>1. BlameEnd[i] = i
  BY BlameEndIs
<1>2. BlameNodes[i] = IF LookedAt(i) THEN <<i>> ELSE <<>>
  <2>1. BlameNodes[i] = <<>> \o (IF LookedAt(i) THEN <<i>> ELSE <<>>)
    BY BlameNodesAre
  <2>2. <<>> \o <<i>> = <<i>> /\ <<>> \o <<>> = <<>>
    OBVIOUS
  <2>3. CASE LookedAt(i)
    BY <2>1, <2>2, <2>3
  <2>4. CASE ~LookedAt(i)
    BY <2>1, <2>2, <2>4
  <2>. QED  BY <2>3, <2>4
<1>3. row[i] \in Rows /\ row[i].state \in {"pending", "poison", "done"}
  BY DEF HistoryInv, Rows
<1>4. Touched(i) => BlameState(i) = [blob |-> content[i], parent |-> ParentContent(i)]
  BY DEF BlameState
<1>5. Height(i) = 1 /\ LayerOf(i, 1) = [cs |-> i, blob |-> content[i]]
      /\ (BlameBoundary(i) \/ ParentContent(i) = None)  /\ (i \in tombs => i = BlameEnd[i])
  <2>1. CASE LookedAt(i)
    <3>1. i \notin tombs /\ row[i].state = "done" /\ state[i] # None /\ state[i] = BlameState(i)
      BY <2>1 DEF LookedAt, HistoryInv, BlameInv
    <3>2. Touched(i)
      BY <3>1 DEF BlameState
    <3>3. state[i].blob = content[i] /\ state[i].parent = ParentContent(i)
      BY <1>4, <3>1, <3>2
    <3>4. ParentContent(i) = None
      BY <3>1, <3>3 DEF BlameEnds, ParentContent
    <3>5. ~BlameBoundary(i)
      BY <1>1, <3>1, <3>3, <3>4 DEF BlameBoundary
    <3>6. BlameNodes[i] = <<i>> /\ Len(<<i>>) = 1 /\ <<i>>[1] = i
      BY <1>2, <2>1
    <3>7. Offset(i) = 0 /\ Height(i) = 1
      BY <3>5, <3>6 DEF Offset, Height
    <3>8. LayerOf(i, 1) = [cs |-> i, blob |-> content[i]]
      BY <3>3, <3>6, <3>7 DEF LayerOf
    <3>. QED  BY <1>1, <3>4, <3>7, <3>8
  <2>2. CASE ~LookedAt(i)
    <3>1. BlameBoundary(i)
      BY <1>1, <1>3, <2>2 DEF BlameBoundary, LookedAt, BlamePending
    <3>2. BlameNodes[i] = <<>> /\ Len(<<>>) = 0
      BY <1>2, <2>2
    <3>3. Offset(i) = 1 /\ Height(i) = 1
      BY <3>1, <3>2 DEF Offset, Height
    <3>4. LayerOf(i, 1) = [cs |-> i, blob |-> content[i]]
      BY <1>1, <3>2, <3>3 DEF LayerOf, BaseBlob
    <3>. QED  BY <1>1, <3>1, <3>3, <3>4
  <2>. QED  BY <2>1, <2>2
<1>6. ASSUME NEW l \in content[i]
      PROVE  OwnerOk(i, l)
  <2>1. /\ Max(NewIn(i, l)) \in NewIn(i, l)
        /\ BlameOwner(i, l) = LayerOf(i, Max(NewIn(i, l))).cs
    BY <1>5, OwnerIs
  <2>2. Max(NewIn(i, l)) = 1
    BY <1>5, <2>1 DEF NewIn
  <2>3. BlameOwner(i, l) = i
    BY <1>5, <2>1, <2>2
  <2>4. ParentContent(i) = None => Introducer(i, l) = i
    BY IntroducerIs
  <2>. QED  BY <1>1, <1>5, <2>3, <2>4 DEF OwnerOk
<1>. QED  BY <1>5, <1>6 DEF BlameOk

(* A walk that goes on from a changeset that did not touch the file.       *)
LEMMA BlameUntouched ==
    ASSUME HistoryInv, HistoryAssumption, NEW i \in Nodes, ~BlameEnds(i), ~Touched(i),
           content[i] # None, BlameOk(Parent(i))
    PROVE  BlameOk(i)
<1>. DEFINE p == Parent(i)
<1>1. /\ i \notin tombs /\ row[i].state = "done" /\ state[i] = BlameState(i)
      /\ p \in Nodes /\ p # None
  BY EndsAre
<1>2. state[i] = None /\ content[i] = content[p] /\ ParentContent(i) = content[p]
  BY <1>1 DEF BlameState, Touched, ParentContent
<1>3. BlameEnd[i] = BlameEnd[p] /\ (BlameBoundary(i) <=> BlameBoundary(p))
  BY <1>1, BlameEndIs DEF BlameBoundary
<1>4. BlameNodes[i] = BlameNodes[p]
  <2>1. BlameNodes[i] = BlameNodes[p] \o <<>> /\ BlameNodes[p] \in Seq(Nodes)
    BY <1>1, <1>2, BlameNodesAre DEF LookedAt
  <2>. QED  BY <2>1
<1>. HIDE DEF p
<1>5. Offset(i) = Offset(p) /\ Height(i) = Height(p) /\ BaseBlob(i) = BaseBlob(p)
  BY <1>2, <1>3, <1>4 DEF Offset, Height, BaseBlob
<1>6. \A k: LayerOf(i, k) = LayerOf(p, k)
  BY <1>3, <1>4, <1>5 DEF LayerOf
<1>7. ASSUME NEW l \in content[i]
      PROVE  BlameOwner(i, l) = BlameOwner(p, l)
  <2>1. Height(p) >= 1 /\ l \in LayerOf(p, Height(p)).blob
    BY <1>2 DEF BlameOk, p
  <2>2. NewIn(i, l) = NewIn(p, l)
    BY <1>5, <1>6 DEF NewIn
  <2>3. BlameOwner(p, l) = LayerOf(p, Max(NewIn(p, l))).cs
    BY <1>1, <2>1, OwnerIs
  <2>4. BlameOwner(i, l) = LayerOf(i, Max(NewIn(i, l))).cs
    BY <1>5, <1>6, <2>1, OwnerIs
  <2>. QED  BY <1>6, <2>2, <2>3, <2>4
<1>8. ASSUME NEW l \in content[i]
      PROVE  Introducer(i, l) = Introducer(p, l)
  BY <1>2, IntroducerIs DEF p
<1>9. BlameOk(p)
  BY DEF p
<1>. QED  BY <1>2, <1>3, <1>5, <1>6, <1>7, <1>8, <1>9 DEF BlameOk, OwnerOk

(* A walk that goes on from one that did: a layer on top.                  *)
LEMMA BlameTouched ==
    ASSUME HistoryInv, HistoryAssumption, NEW i \in Nodes, ~BlameEnds(i), Touched(i),
           content[i] # None, BlameOk(Parent(i))
    PROVE  BlameOk(i) /\ ParentContent(i) # None
<1>. DEFINE p == Parent(i)
            n == Height(p)
<1>1. /\ i \notin tombs /\ row[i].state = "done" /\ state[i] = BlameState(i)
      /\ p \in Nodes /\ p # None
  BY EndsAre
<1>2. state[i] = [blob |-> content[i], parent |-> content[p]] /\ ParentContent(i) = content[p]
  BY <1>1 DEF BlameState, Touched, ParentContent
<1>3. state[i] # None
  <2>1. content[i] \in Contents[focus] /\ content[p] \in Contents[focus] /\ focus \in Foci
    BY <1>1 DEF HistoryInv
  <2>2. state[i] \in [blob: Contents[focus], parent: Contents[focus] \cup {None}]
    BY <1>2, <2>1
  <2>. QED  BY <2>1, <2>2 DEF HistoryAssumption
<1>4. content[p] # None
  BY <1>2, <1>3, EndsAre
<1>5. BlameEnd[i] = BlameEnd[p] /\ (BlameBoundary(i) <=> BlameBoundary(p))
  BY <1>1, BlameEndIs DEF BlameBoundary
<1>6. BlameNodes[i] = BlameNodes[p] \o <<i>> /\ BlameNodes[p] \in Seq(Nodes)
  BY <1>1, <1>3, BlameNodesAre DEF LookedAt
<1>. HIDE DEF p, n
<1>7. PICK m \in Nat: m = Len(BlameNodes[p]) /\ DOMAIN BlameNodes[p] = 1..m
  BY <1>6
<1>8. /\ Len(BlameNodes[i]) = m + 1 /\ BlameNodes[i][m + 1] = i /\ BlameNodes[i] # <<>>
      /\ \A k \in 1..m: BlameNodes[i][k] = BlameNodes[p][k]
      /\ BlameNodes[p] = <<>> <=> m = 0
  BY <1>6, <1>7
<1>9. PICK o \in {0, 1}: o = Offset(p) /\ o = Offset(i)
  BY <1>5 DEF Offset
<1>10. n = m + o /\ Height(i) = n + 1 /\ n \in Nat
  BY <1>7, <1>8, <1>9 DEF Height, n
<1>11. BaseBlob(i) = BaseBlob(p)
  <2>1. CASE m = 0
    <3>1. BlameNodes[i][1] = i
      BY <1>8, <2>1
    <3>2. BaseBlob(p) = content[p]
      BY <1>8, <2>1 DEF BaseBlob
    <3>. QED  BY <1>2, <1>8, <3>1, <3>2 DEF BaseBlob
  <2>2. CASE m # 0
    <3>1. 1 \in 1..m
      BY <2>2
    <3>. QED  BY <1>8, <2>2, <3>1 DEF BaseBlob
  <2>. QED  BY <2>1, <2>2
<1>12. ASSUME NEW k \in 1..n
       PROVE  LayerOf(i, k) = LayerOf(p, k)
  <2>1. CASE k <= o
    BY <1>5, <1>9, <1>11, <2>1 DEF LayerOf
  <2>2. CASE ~(k <= o)
    <3>1. k - o \in 1..m
      BY <1>10, <2>2
    <3>. QED  BY <1>8, <1>9, <2>2, <3>1 DEF LayerOf
  <2>. QED  BY <2>1, <2>2
<1>13. LayerOf(i, n + 1) = [cs |-> i, blob |-> content[i]]
  <2>1. ~(n + 1 <= o) /\ (n + 1) - o = m + 1
    BY <1>10
  <2>. QED  BY <1>2, <1>8, <1>9, <2>1 DEF LayerOf
<1>14. n >= 1 /\ LayerOf(p, n).blob = content[p] /\ \A l \in content[p]: OwnerOk(p, l)
  BY DEF BlameOk, p, n
<1>15. Height(i) >= 1 /\ LayerOf(i, Height(i)).blob = content[i]
  BY <1>10, <1>13, <1>14
<1>16. ASSUME NEW l \in content[i]
       PROVE  OwnerOk(i, l)
  <2>. DEFINE N == NewIn(i, l)
  <2>1. /\ Max(N) \in N /\ \A k \in N: k <= Max(N)
        /\ BlameOwner(i, l) = LayerOf(i, Max(N)).cs
    BY <1>15, OwnerIs
  <2>2. n \in 1..n /\ LayerOf(i, n).blob = content[p]
    BY <1>10, <1>12, <1>14
  <2>3. CASE l \notin content[p]
    <3>1. n + 1 \in N
      <4>1. n + 1 \in 1..Height(i) /\ (n + 1) - 1 = n
        BY <1>10
      <4>. QED  BY <1>13, <2>2, <2>3, <4>1 DEF NewIn
    <3>2. Max(N) = n + 1
      <4>1. N \subseteq 1..(n + 1)
        BY <1>10 DEF NewIn
      <4>2. Max(N) \in 1..(n + 1) /\ n + 1 <= Max(N)
        BY <2>1, <3>1, <4>1
      <4>. QED  BY <1>10, <4>2
    <3>3. BlameOwner(i, l) = i
      BY <1>13, <2>1, <3>2
    <3>4. Introducer(i, l) = i
      BY <1>2, <2>3, IntroducerIs
    <3>. QED  BY <1>1, <3>3, <3>4 DEF OwnerOk
  <2>4. CASE l \in content[p]
    <3>1. /\ Max(NewIn(p, l)) \in NewIn(p, l)
          /\ BlameOwner(p, l) = LayerOf(p, Max(NewIn(p, l))).cs
      BY <1>1, <1>14, <2>4, OwnerIs DEF n
    <3>2. N = NewIn(p, l)
      <4>1. n + 1 \notin N
        <5>1. n + 1 > 1 /\ (n + 1) - 1 = n
          BY <1>10, <1>14
        <5>. QED  BY <2>2, <2>4, <5>1 DEF NewIn
      <4>2. 1..Height(i) = 1..n \cup {n + 1} /\ \A k \in 1..n: k > 1 => k - 1 \in 1..n
        BY <1>10
      <4>3. \A k \in 1..n: k \in N <=> k \in NewIn(p, l)
        BY <1>12, <4>2 DEF NewIn, n
      <4>4. N \subseteq 1..n \cup {n + 1} /\ NewIn(p, l) \subseteq 1..n
        BY <4>2 DEF NewIn, n
      <4>. HIDE DEF N
      <4>. QED  BY <4>1, <4>3, <4>4
    <3>3. Max(N) \in 1..n
      BY <3>1, <3>2 DEF NewIn, n
    <3>4. BlameOwner(i, l) = BlameOwner(p, l)
      BY <1>12, <2>1, <3>1, <3>2, <3>3
    <3>5. Introducer(i, l) = Introducer(p, l)
      BY <1>2, <1>4, <2>4, IntroducerIs DEF p
    <3>6. OwnerOk(p, l)
      BY <1>14, <2>4
    <3>. QED  BY <1>5, <3>4, <3>5, <3>6 DEF OwnerOk
  <2>. QED  BY <2>3, <2>4
<1>17. BlameOk(i)
  BY <1>15, <1>16 DEF BlameOk
<1>. QED  BY <1>2, <1>4, <1>17

LEMMA BlameFound ==
    ASSUME HistoryInv, HistoryAssumption
    PROVE  \A i \in Nodes: content[i] # None /\ ~BlamePending(i) => BlameOk(i)
<1>. DEFINE S == {i \in Nodes: content[i] # None /\ ~BlamePending(i) => BlameOk(i)}
<1>1. ASSUME NEW i \in Nodes, \A j \in Nodes: j < i => j \in S
      PROVE  i \in S
  <2>. SUFFICES ASSUME content[i] # None, ~BlamePending(i) PROVE BlameOk(i)
    OBVIOUS
  <2>1. CASE BlameEnds(i)
    BY <2>1, BlameAtEnd
  <2>2. CASE ~BlameEnds(i)
    <3>. DEFINE p == Parent(i)
    <3>1. p \in Nodes /\ p < i /\ p # None /\ state[i] = BlameState(i)
          /\ (state[i] # None => state[i].parent # None)
      BY <2>2, EndsAre
    <3>2. ~BlamePending(p)
      BY <2>2, <3>1, BlameEndIs DEF BlamePending
    <3>3. content[p] # None
      <4>1. ParentContent(i) = content[p]
        BY <3>1 DEF ParentContent
      <4>2. CASE Touched(i)
        <5>1. state[i] = [blob |-> content[i], parent |-> content[p]]
          BY <3>1, <4>1, <4>2 DEF BlameState
        <5>2. content[i] \in Contents[focus] /\ content[p] \in Contents[focus] /\ focus \in Foci
          BY <3>1 DEF HistoryInv
        <5>3. state[i] \in [blob: Contents[focus], parent: Contents[focus] \cup {None}]
          BY <5>1, <5>2
        <5>4. state[i] # None
          BY <5>2, <5>3 DEF HistoryAssumption
        <5>. QED  BY <3>1, <5>1, <5>4
      <4>3. CASE ~Touched(i)
        BY <4>1, <4>3 DEF Touched
      <4>. QED  BY <4>2, <4>3
    <3>4. BlameOk(p)
      BY <1>1, <3>1, <3>2, <3>3
    <3>. HIDE DEF p
    <3>5. BlameOk(Parent(i))
      BY <3>4 DEF p
    <3>. QED  BY <2>2, <3>5, BlameUntouched, BlameTouched
  <2>. QED  BY <2>1, <2>2
<1>2. S = Nodes
  <2>1. S \subseteq Nodes /\ Nodes \subseteq Nat
    BY GraphIs DEF HistoryInv, Nodes
  <2>. HIDE DEF S
  <2>. QED  BY <1>1, <2>1, Inductively
<1>. QED  BY <1>2

LEMMA BlameHolds == HistoryInv /\ HistoryAssumption => BlameExact
<1>. SUFFICES ASSUME HistoryInv, HistoryAssumption, NEW at \in Nodes, BlameAnswered(at)
              PROVE  /\ \A l \in content[at]:
                          LET o == BlameOwner(at, l) IN
                          /\ o = Introducer(at, l) \/ (BlameDegraded(at) /\ o = BlameEnd[at])
                          /\ content[o] # None /\ l \in content[o]
                     /\ BlameAuthors(at) \cap tombs = {}
  BY DEF BlameExact
<1>1. \A l \in content[at]: OwnerOk(at, l)
  BY BlameFound DEF BlameAnswered, BlameOk
<1>. QED  BY <1>1 DEF OwnerOk, BlameDegraded, BlameAuthors

-----------------------------------------------------------------------------
(* The history.                                                            *)

LEMMA TypesHold == HistoryInv => TypeOK
<1>. SUFFICES ASSUME HistoryInv PROVE TypeOK
  OBVIOUS
<1>1. \A i \in Nodes: ToSet(parents[i]) \subseteq 1..(i - 1)
  BY DEF HistoryInv, GraphOk, Nodes
<1>2. \A i \in Nodes: \A k \in DOMAIN skips[i]: skips[i][k].target < i
  BY DEF HistoryInv, SkipInv, EntriesOk, EntryOk
<1>3. touches \subseteq Nodes
  BY DEF HistoryInv, TouchInv
<1>. QED  BY <1>1, <1>2, <1>3 DEF HistoryInv, TypeOK

LEMMA HistoryInvariance ==
    ASSUME HistoryAssumption
    PROVE  Spec => []HistoryInv
<1>1. Init => HistoryInv
  BY HistoryInit
<1>2. HistoryInv /\ [Next]_vars => HistoryInv'
  BY HistoryNext
<1>. QED  BY <1>1, <1>2, PTL DEF Spec

(* history.rs merge_base_skip, for every graph, whatever was derived,      *)
(* quarantined or redacted and whichever skip entries that left: it names  *)
(* exactly what the plain walk over the parents does.                      *)
THEOREM SkipsAreExact ==
    ASSUME HistoryAssumption
    PROVE  Spec => []MergeBaseExact
<1>1. HistoryInv => MergeBaseExact
  BY MergeBasesHold
<1>. QED  BY <1>1, HistoryInvariance, PTL

(* history.rs blame, for every history of a file: each line of an answer   *)
(* not flagged degraded is the changeset's that brought it, a degraded     *)
(* answer errs only at its boundary, and no tombstoned author is named.    *)
THEOREM BlameIsExact ==
    ASSUME HistoryAssumption
    PROVE  Spec => []BlameExact
<1>1. HistoryInv => BlameExact
  BY BlameHolds
<1>. QED  BY <1>1, HistoryInvariance, PTL

(* history.rs log and path history, while changesets come and are marked   *)
(* between the pages: nothing is served twice, and nothing missed but what *)
(* was redacted since or named as quarantined.                             *)
THEOREM PagesAreWhole ==
    ASSUME HistoryAssumption
    PROVE  Spec => []PagesCover
<1>1. HistoryInv => PagesCover
  BY PagesHold
<1>. QED  BY <1>1, HistoryInvariance, PTL
=============================================================================
