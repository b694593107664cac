---------------------------- MODULE ImportProofs ----------------------------
(***************************************************************************)
(* Import, for any source, whatever is rewritten, redacted and landed      *)
(* between its runs and wherever they die: the history is kept, the runs   *)
(* did what they say, and main moves to what descends from it.             *)
(***************************************************************************)
EXTENDS Import, RecursionLemmas

-----------------------------------------------------------------------------
(* The invariant.                                                          *)

(* The characters of the texts.                                            *)
Chars ==
    {Backslash, Offender, "u", "{", "7", "}", "?"}
    \cup UNION {ToSet(TextOf[i]): i \in 1..MaxCommits}

(* A commit names commits before it.                                       *)
GitOk(g) ==
    /\ g \in Seq([parents: Seq(Nat), tree: Trees, text: Seq(Chars)])
    /\ \A i \in DOMAIN g: ToSet(g[i].parents) \subseteq 1..(i - 1)

SourceInv ==
    /\ GitOk(git) /\ Len(git) <= MaxCommits
    /\ \A i \in Commits: git[i].text = TextOf[i]
    /\ head \in Commits \cup {None}
    /\ runs \in 0..MaxRuns

StoreInv ==
    /\ tombs \subseteq Blobs /\ csTombs \subseteq Commits /\ objects \subseteq Blobs
    /\ main \in Mapped \cup {None, Native}

(* A changeset is its commit's, on changesets of its commit's parents.     *)
Faithful(row, i) ==
    /\ row.parents = git[i].parents
    /\ row.tree = git[i].tree
    /\ \A p \in Paths: git[i].tree[p] # Link
    /\ ~offends_text_rule(row.text)
    /\ row.escaped => unescape_text_lossless(row.text) = git[i].text

RowsInv ==
    /\ Mapped \subseteq Commits
    /\ \A i \in Mapped:
         /\ rows[i].gen \in Nat
         /\ Faithful(rows[i], i)
         /\ Files(i) \subseteq objects
         /\ \A p \in ToSet(git[i].parents): p \in Mapped /\ rows[p].gen < rows[i].gen

(* A run has the commits between main and the head it was begun for, and   *)
(* has imported those it took, parents first.                              *)
RunType ==
    [pc: {"blobs", "rows"}, head: Commits, opts: Options, importable: SUBSET Commits,
     todo: SUBSET Commits, skipped: SUBSET Commits, main: Mapped \cup {None, Native}]

Takes(r) ==
    /\ r.todo \subseteq r.importable
    /\ r.importable \subseteq Ancestors[r.head]
    /\ r.importable \ r.todo \subseteq Mapped
    /\ r.todo \cap Mapped = {}
    /\ \A i \in r.todo: /\ ~Unsupported(i)
                       /\ ToSet(git[i].parents) \subseteq Mapped \cup r.todo

RunInv ==
    run # None =>
        /\ run \in RunType /\ run.main = main
        /\ Takes(run)
        /\ run.skipped = {} => run.head \in run.importable
        /\ main \in Mapped => main \in Ancestors[run.head] \ run.importable
        /\ run.pc = "rows" => run.todo # {} /\ Files(Min(run.todo)) \subseteq objects

(* What a run said it did, it did, until a client lands.                   *)
LastInv ==
    last # None =>
        /\ last.status \in {"aborted", "diverged"} => last.imported = {}
        /\ last.main \in {"set", "moved"} /\ last.skipped = {} /\ main \in Mapped =>
             main = last.head

ImportInv == SourceInv /\ StoreInv /\ RowsInv /\ RunInv /\ LastInv

-----------------------------------------------------------------------------
(* The texts.                                                              *)

(* What a list of lists is joined to, part by part.                        *)
Joins(F, s) ==
    /\ F[0] = <<>>
    /\ \A i \in 1..Len(s): F[i] = F[i - 1] \o s[i]

LEMMA FlattenIs ==
    ASSUME NEW V, NEW s \in Seq(Seq(V))
    PROVE  \E F \in [0..Len(s) -> Seq(V)]: Joins(F, s) /\ FlattenSeq(s) = F[Len(s)]
<1>1. CASE Len(s) = 0
  <2>. DEFINE F == [i \in 0..0 |-> <<>>]
  <2>1. s = <<>> /\ FlattenSeq(s) = <<>>
    BY <1>1 DEF FlattenSeq
  <2>2. F \in [0..Len(s) -> Seq(V)] /\ Joins(F, s) /\ F[Len(s)] = <<>>
    BY <1>1 DEF Joins
  <2>. QED  BY <2>1, <2>2
<1>2. CASE Len(s) # 0
  <2>. DEFINE n == Len(s)
              D == 1..n
              W == Seq(V)
              ends == {1}
              up == [i \in D \ ends |-> i - 1]
              base == [i \in ends |-> s[1]]
              join == [z \in (D \ ends) \X W |-> z[2] \o s[z[1]]]
              Adds(f) == f = [i \in 1..Len(s) |-> IF i = 1 THEN s[i] ELSE f[i - 1] \o s[i]]
              flatten == CHOOSE f: Adds(f)
  <2>0. \A u, v \in W: u \o v \in W
    OBVIOUS
  <2>1. n \in Nat /\ n # 0 /\ D \subseteq Nat /\ 1 \in D
    BY <1>2
  <2>2. \A i \in D: s[i] \in W
    OBVIOUS
  <2>3. CanClimb(D, W, ends, up, base, join)
    <3>1. up \in [D \ ends -> D] /\ \A i \in D \ ends: up[i] < i
      BY <2>1
    <3>2. base \in [ends -> W] /\ ends \in SUBSET D
      BY <2>1, <2>2
    <3>3. join \in [(D \ ends) \X W -> W]
      BY <2>2
    <3>4. W # {}
      BY <2>1, <2>2
    <3>. QED  BY <2>1, <3>1, <3>2, <3>3, <3>4 DEF CanClimb
  <2>4. PICK f \in [D -> W]: Climbed(f, D, ends, up, base, join)
    <3>. HIDE DEF D, W, ends, up, base, join
    <3>. QED  BY <2>3, Climbing
  <2>5. Adds(f)
    <3>1. ASSUME NEW i \in D
          PROVE  f[i] = IF i = 1 THEN s[i] ELSE f[i - 1] \o s[i]
      <4>1. f[i] = IF i \in ends THEN base[i] ELSE join[<<i, f[up[i]]>>]
        BY <2>4 DEF Climbed
      <4>2. CASE i = 1
        BY <4>1, <4>2
      <4>3. CASE i # 1
        <5>1. i \in D \ ends /\ i - 1 \in D /\ up[i] = i - 1
          BY <2>1, <4>3
        <5>2. f[i] = join[<<i, f[i - 1]>>] /\ f[i - 1] \in W
          BY <4>1, <5>1
        <5>3. join[<<i, f[i - 1]>>] = f[i - 1] \o s[i]
          BY <5>1, <5>2
        <5>. QED  BY <4>3, <5>2, <5>3
      <4>. QED  BY <4>2, <4>3
    <3>2. f = [i \in D |-> f[i]]
      BY <2>4
    <3>. QED  BY <3>1, <3>2
  <2>6. Adds(flatten)
    <3>. HIDE DEF Adds
    <3>. QED  BY <2>5
  <2>7. FlattenSeq(s) = flatten[n]
    BY <1>2 DEF FlattenSeq
  <2>. HIDE DEF flatten
  <2>8. \A i \in D: flatten[i] = IF i = 1 THEN s[i] ELSE flatten[i - 1] \o s[i]
    BY <2>6
  <2>. HIDE DEF Adds
  <2>9. \A i \in D: flatten[i] \in W
    <3>. DEFINE S == {i \in D: flatten[i] \in W}
    <3>1. ASSUME NEW i \in D, \A j \in D: j < i => j \in S
          PROVE  i \in S
      <4>1. CASE i = 1
        BY <2>2, <2>8, <4>1
      <4>2. CASE i # 1
        <5>1. i - 1 \in D /\ i - 1 < i
          BY <2>1, <4>2
        <5>2. flatten[i - 1] \in W /\ s[i] \in W /\ flatten[i] = flatten[i - 1] \o s[i]
          BY <2>2, <2>8, <3>1, <4>2, <5>1
        <5>3. flatten[i] \in W
          BY <2>0, <5>2
        <5>. QED  BY <5>3
      <4>. QED  BY <4>1, <4>2
    <3>2. S = D
      <4>. HIDE DEF S
      <4>1. S \subseteq D
        BY DEF S
      <4>. HIDE DEF D
      <4>. QED  BY <2>1, <3>1, <4>1, Inductively
    <3>. QED  BY <3>2
  <2>. DEFINE F == [i \in 0..n |-> IF i = 0 THEN <<>> ELSE flatten[i]]
  <2>10. F \in [0..n -> W]
    <3>1. ASSUME NEW i \in 0..n
          PROVE  (IF i = 0 THEN <<>> ELSE flatten[i]) \in W
      <4>1. CASE i = 0
        BY <4>1
      <4>2. CASE i # 0
        <5>1. i \in D
          BY <2>1, <4>2
        <5>. QED  BY <2>9, <4>2, <5>1
      <4>. QED  BY <4>1, <4>2
    <3>. QED  BY <3>1
  <2>11. Joins(F, s)
    <3>1. F[0] = <<>>
      BY <2>1
    <3>2. ASSUME NEW i \in 1..Len(s)
          PROVE  F[i] = F[i - 1] \o s[i]
      <4>1. CASE i = 1
        <5>1. F[i] = s[i] /\ F[i - 1] = <<>> /\ s[i] \in Seq(V)
          BY <2>1, <2>2, <2>8, <4>1
        <5>2. <<>> \o s[i] = s[i]
          BY <5>1
        <5>. QED  BY <5>1, <5>2
      <4>2. CASE i # 1
        <5>1. i \in 0..n /\ i - 1 \in 0..n /\ i # 0 /\ i - 1 # 0 /\ i \in D
          BY <2>1, <4>2
        <5>2. F[i] = flatten[i] /\ F[i - 1] = flatten[i - 1]
          BY <5>1
        <5>. QED  BY <2>8, <4>2, <5>1, <5>2
      <4>. QED  BY <4>1, <4>2
    <3>. QED  BY <3>1, <3>2 DEF Joins
  <2>12. F[n] = flatten[n]
    BY <2>1
  <2>. QED  BY <2>7, <2>10, <2>11, <2>12
<1>. QED  BY <1>1, <1>2

(* Each part is found in the whole where the parts before it end.          *)
PartsOk(F, s) ==
    \A k \in 1..Len(s):
        /\ Len(F[k]) = Len(F[k - 1]) + Len(s[k])
        /\ Len(F[k]) <= Len(F[Len(s)])
        /\ \A j \in 1..Len(s[k]): F[Len(s)][Len(F[k - 1]) + j] = s[k][j]

LEMMA PartsAre ==
    ASSUME NEW V, NEW s \in Seq(Seq(V)), NEW F \in [0..Len(s) -> Seq(V)], Joins(F, s)
    PROVE  PartsOk(F, s)
<1>. DEFINE n == Len(s)
            Within(k, m) == /\ Len(F[k]) <= Len(F[m])
                            /\ \A q \in 1..Len(F[k]): F[m][q] = F[k][q]
<1>1. n \in Nat
  OBVIOUS
<1>2. \A k \in 1..n: k - 1 \in 0..n /\ k \in 0..n /\ F[k - 1] \in Seq(V) /\ F[k] \in Seq(V)
                     /\ s[k] \in Seq(V) /\ F[k] = F[k - 1] \o s[k]
  <2>. SUFFICES ASSUME NEW k \in 1..n
                PROVE  /\ k - 1 \in 0..n /\ k \in 0..n /\ F[k - 1] \in Seq(V) /\ F[k] \in Seq(V)
                       /\ s[k] \in Seq(V) /\ F[k] = F[k - 1] \o s[k]
    OBVIOUS
  <2>1. k - 1 \in 0..n /\ k \in 0..n
    BY <1>1
  <2>2. F[k - 1] \in Seq(V) /\ F[k] \in Seq(V)
    BY <2>1
  <2>3. s[k] \in Seq(V)
    OBVIOUS
  <2>4. F[k] = F[k - 1] \o s[k]
    BY DEF Joins
  <2>. QED  BY <2>1, <2>2, <2>3, <2>4
<1>3. \A k \in 1..n: /\ Len(F[k]) = Len(F[k - 1]) + Len(s[k])
                     /\ \A q \in 1..Len(F[k - 1]): F[k][q] = F[k - 1][q]
                     /\ \A j \in 1..Len(s[k]): F[k][Len(F[k - 1]) + j] = s[k][j]
  <2>. SUFFICES ASSUME NEW k \in 1..n
                PROVE  /\ Len(F[k]) = Len(F[k - 1]) + Len(s[k])
                       /\ \A q \in 1..Len(F[k - 1]): F[k][q] = F[k - 1][q]
                       /\ \A j \in 1..Len(s[k]): F[k][Len(F[k - 1]) + j] = s[k][j]
    OBVIOUS
  <2>. DEFINE u == F[k - 1]
              v == s[k]
  <2>1. u \in Seq(V) /\ v \in Seq(V) /\ F[k] = u \o v
    BY <1>2
  <2>. HIDE DEF u, v
  <2>2. /\ Len(u \o v) = Len(u) + Len(v)
        /\ \A q \in 1..Len(u): (u \o v)[q] = u[q]
        /\ \A j \in 1..Len(v): (u \o v)[Len(u) + j] = v[j]
    BY <2>1
  <2>. QED  BY <2>1, <2>2 DEF u, v
<1>4. ASSUME NEW k \in 1..n
      PROVE  Within(k, n)
  <2>. DEFINE D == k..n
              S == {m \in D: Within(k, m)}
  <2>1. D \subseteq Nat /\ k \in Nat /\ k <= n /\ n \in D
    BY <1>1
  <2>2. ASSUME NEW m \in D, \A j \in D: j < m => j \in S
        PROVE  m \in S
    <3>1. CASE m = k
      <4>1. Len(F[k]) \in Nat
        BY <1>2
      <4>. QED  BY <3>1, <4>1
    <3>2. CASE m # k
      <4>1. m - 1 \in D /\ m - 1 < m /\ m \in 1..n
        BY <1>1, <2>1, <3>2
      <4>2. Within(k, m - 1)
        BY <2>2, <4>1
      <4>3. Within(m - 1, m)
        <5>1. Len(F[m - 1]) \in Nat /\ Len(s[m]) \in Nat
          BY <1>2, <4>1
        <5>2. /\ Len(F[m]) = Len(F[m - 1]) + Len(s[m])
              /\ \A q \in 1..Len(F[m - 1]): F[m][q] = F[m - 1][q]
          BY <1>3, <4>1
        <5>3. \A a, b \in Nat: a <= a + b
          OBVIOUS
        <5>4. Len(F[m - 1]) <= Len(F[m])
          BY <5>1, <5>2, <5>3, Zenon
        <5>. QED  BY <5>2, <5>4
      <4>4. Len(F[m]) \in Nat /\ Len(F[m - 1]) \in Nat /\ Len(F[k]) \in Nat
        BY <1>2, <4>1
      <4>5. Within(k, m)
        BY <4>2, <4>3, <4>4
      <4>. QED  BY <4>5
    <3>. QED  BY <3>1, <3>2
  <2>3. S = D
    <3>. HIDE DEF S
    <3>1. S \subseteq D
      BY DEF S
    <3>. HIDE DEF D
    <3>. QED  BY <2>1, <2>2, <3>1, Inductively
  <2>. QED  BY <2>1, <2>3
<1>. SUFFICES ASSUME NEW k \in 1..n, NEW j \in 1..Len(s[k])
              PROVE  F[n][Len(F[k - 1]) + j] = s[k][j]
  BY <1>3, <1>4 DEF PartsOk
<1>5. Len(F[k - 1]) \in Nat /\ Len(s[k]) \in Nat
  BY <1>2
<1>6. Len(F[k]) = Len(F[k - 1]) + Len(s[k]) /\ F[k][Len(F[k - 1]) + j] = s[k][j]
  BY <1>3
<1>. DEFINE q == Len(F[k - 1]) + j
<1>7. q \in 1..Len(F[k])
  <2>1. \A a, b \in Nat: \A c \in 1..b: a + c \in 1..(a + b)
    OBVIOUS
  <2>. QED  BY <1>5, <1>6, <2>1, Zenon
<1>8. F[n][q] = F[k][q]
  <2>. HIDE DEF q
  <2>. QED  BY <1>4, <1>7
<1>. QED  BY <1>6, <1>8

(* What each character of an offending text becomes.                       *)
Escaped(c) ==
    IF c = Backslash THEN <<Backslash, Backslash>>
    ELSE IF c = Offender THEN <<Backslash, "u", "{", "7", "}">>
    ELSE <<c>>
EscapedParts(x) == [k \in 1..Len(x) |-> Escaped(x[k])]

(* A text of them.                                                         *)
Clean(w) == \A q \in 1..Len(w): w[q] # Offender

LEMMA CharsAre ==
    /\ Offender \in Chars /\ Backslash \in Chars /\ Offender # Backslash
    /\ "u" \in Chars /\ "{" \in Chars /\ "7" \in Chars /\ "}" \in Chars /\ "?" \in Chars
    /\ "u" # Offender /\ "{" # Offender /\ "7" # Offender /\ "}" # Offender /\ "?" # Offender
    /\ "u" # Backslash
BY DEF Chars, Offender, Backslash

LEMMA CleanIs ==
    ASSUME NEW V, NEW w \in Seq(V)
    PROVE  offends_text_rule(w) <=> ~Clean(w)
BY DEF offends_text_rule, ToSet, Clean

LEMMA CleanJoins ==
    ASSUME NEW V, NEW u \in Seq(V), NEW v \in Seq(V), Clean(u), Clean(v)
    PROVE  Clean(u \o v)
<1>. SUFFICES ASSUME NEW q \in 1..Len(u \o v) PROVE (u \o v)[q] # Offender
  BY DEF Clean
<1>. PICK m \in Nat, n \in Nat: m = Len(u) /\ n = Len(v)
  OBVIOUS
<1>1. Len(u \o v) = m + n /\ q \in 1..(m + n)
  OBVIOUS
<1>2. CASE q <= m
  <2>1. q \in 1..m /\ (u \o v)[q] = u[q]
    BY <1>1, <1>2
  <2>. QED  BY <2>1 DEF Clean
<1>3. CASE ~(q <= m)
  <2>1. q - m \in 1..n /\ (u \o v)[q] = v[q - m]
    BY <1>1, <1>3
  <2>. QED  BY <2>1 DEF Clean
<1>. QED  BY <1>2, <1>3

(* An offender is told by what follows the backslash.                      *)
EscapedOk(c) ==
    /\ Escaped(c) \in Seq(Chars) /\ Clean(Escaped(c))
    /\ c = Backslash => /\ Len(Escaped(c)) = 2
                        /\ Escaped(c)[1] = Backslash /\ Escaped(c)[2] = Backslash
    /\ c = Offender => /\ Len(Escaped(c)) = 5
                       /\ Escaped(c)[1] = Backslash /\ Escaped(c)[2] # Backslash
    /\ c # Backslash /\ c # Offender => Len(Escaped(c)) = 1 /\ Escaped(c)[1] = c

LEMMA EscapedIs ==
    ASSUME NEW c \in Chars
    PROVE  EscapedOk(c)
<1>1. CASE c = Backslash
  <2>1. Escaped(c) = <<Backslash, Backslash>>
    BY <1>1 DEF Escaped
  <2>2. /\ Escaped(c) \in Seq(Chars) /\ Len(Escaped(c)) = 2
        /\ Escaped(c)[1] = Backslash /\ Escaped(c)[2] = Backslash
    <3>. DEFINE w == <<Backslash, Backslash>>
    <3>1. w \in Seq(Chars)
      <4>1. \A d, e \in Chars: <<d, e>> \in Seq(Chars)
        OBVIOUS
      <4>. QED  BY <4>1, CharsAre, Zenon
    <3>2. Len(w) = 2 /\ w[1] = Backslash /\ w[2] = Backslash
      OBVIOUS
    <3>. HIDE DEF w
    <3>3. Escaped(c) = w
      BY <2>1 DEF w
    <3>. QED  BY <3>1, <3>2, <3>3
  <2>3. \A q \in 1..2: q = 1 \/ q = 2
    OBVIOUS
  <2>4. Clean(Escaped(c))
    BY <2>2, <2>3, CharsAre DEF Clean
  <2>. QED  BY <1>1, <2>2, <2>4, CharsAre DEF EscapedOk
<1>2. CASE c = Offender
  <2>1. Escaped(c) = <<Backslash, "u", "{", "7", "}">>
    BY <1>2, CharsAre DEF Escaped
  <2>2. /\ Escaped(c) \in Seq(Chars) /\ Len(Escaped(c)) = 5
        /\ Escaped(c)[1] = Backslash /\ Escaped(c)[2] = "u"
        /\ Escaped(c)[3] = "{" /\ Escaped(c)[4] = "7" /\ Escaped(c)[5] = "}"
    <3>. DEFINE w == <<Backslash, "u", "{", "7", "}">>
    <3>1. w \in Seq(Chars)
      <4>1. \A d, e, g, h, k \in Chars: <<d, e, g, h, k>> \in Seq(Chars)
        OBVIOUS
      <4>. QED  BY <4>1, CharsAre, Zenon
    <3>2. /\ Len(w) = 5 /\ w[1] = Backslash /\ w[2] = "u"
          /\ w[3] = "{" /\ w[4] = "7" /\ w[5] = "}"
      OBVIOUS
    <3>. HIDE DEF w
    <3>3. Escaped(c) = w
      BY <2>1 DEF w
    <3>. QED  BY <3>1, <3>2, <3>3
  <2>3. \A q \in 1..5: q = 1 \/ q = 2 \/ q = 3 \/ q = 4 \/ q = 5
    OBVIOUS
  <2>4. Clean(Escaped(c))
    BY <2>2, <2>3, CharsAre DEF Clean
  <2>. QED  BY <1>2, <2>2, <2>4, CharsAre DEF EscapedOk
<1>3. CASE c # Backslash /\ c # Offender
  <2>1. Escaped(c) = <<c>>
    BY <1>3 DEF Escaped
  <2>2. Escaped(c) \in Seq(Chars) /\ Len(Escaped(c)) = 1 /\ Escaped(c)[1] = c
    BY <2>1
  <2>3. \A q \in 1..1: q = 1
    OBVIOUS
  <2>4. Clean(Escaped(c))
    BY <1>3, <2>2, <2>3 DEF Clean
  <2>. QED  BY <1>3, <2>2, <2>4 DEF EscapedOk
<1>. QED  BY <1>1, <1>2, <1>3

LEMMA EscapeIs ==
    ASSUME NEW x \in Seq(Chars), offends_text_rule(x)
    PROVE  /\ EscapedParts(x) \in Seq(Seq(Chars))
           /\ Len(EscapedParts(x)) = Len(x)
           /\ \A k \in 1..Len(x): /\ EscapedParts(x)[k] = Escaped(x[k]) /\ x[k] \in Chars
                                  /\ EscapedOk(x[k])
           /\ escape_text_lossless(x) = FlattenSeq(EscapedParts(x))
<1>1. DOMAIN x = 1..Len(x) /\ Len(x) \in Nat /\ \A k \in 1..Len(x): x[k] \in Chars
  OBVIOUS
<1>2. \A k \in 1..Len(x): EscapedOk(x[k])
  BY <1>1, EscapedIs
<1>3. EscapedParts(x) \in [1..Len(x) -> Seq(Chars)]
  BY <1>2 DEF EscapedParts, EscapedOk
<1>4. EscapedParts(x) \in Seq(Seq(Chars)) /\ Len(EscapedParts(x)) = Len(x)
  BY <1>1, <1>3
<1>5. \A k \in 1..Len(x): EscapedParts(x)[k] = Escaped(x[k])
  BY DEF EscapedParts
<1>6. escape_text_lossless(x) = FlattenSeq(EscapedParts(x))
  <2>. DEFINE Case(k) == CASE x[k] = Backslash -> <<Backslash, Backslash>>
                           [] x[k] = Offender  -> <<Backslash, "u", "{", "7", "}">>
                           [] OTHER            -> <<x[k]>>
  <2>1. \A k \in 1..Len(x): Case(k) = Escaped(x[k])
    BY CharsAre DEF Escaped
  <2>. HIDE DEF Case
  <2>2. [k \in DOMAIN x |-> Case(k)] = EscapedParts(x)
    BY <1>1, <2>1 DEF EscapedParts
  <2>3. escape_text_lossless(x) = FlattenSeq([k \in DOMAIN x |-> Case(k)])
    BY Zenon DEF escape_text_lossless, Case
  <2>. QED  BY <2>2, <2>3, Zenon
<1>. QED  BY <1>1, <1>2, <1>4, <1>5, <1>6

(* What is written has no offender.                                        *)
LEMMA CleanTexts ==
    ASSUME NEW x \in Seq(Chars)
    PROVE  /\ ~offends_text_rule(escape_text_lossless(x))
           /\ ~offends_text_rule(sanitize_pair(x))
<1>1. ASSUME ~offends_text_rule(x) PROVE ~offends_text_rule(escape_text_lossless(x))
  BY <1>1 DEF escape_text_lossless
<1>2. ASSUME offends_text_rule(x) PROVE ~offends_text_rule(escape_text_lossless(x))
  <2>. DEFINE s == EscapedParts(x)
              n == Len(s)
  <2>1. /\ s \in Seq(Seq(Chars)) /\ n = Len(x)
        /\ \A k \in 1..n: Clean(s[k]) /\ s[k] \in Seq(Chars)
        /\ escape_text_lossless(x) = FlattenSeq(s)
    BY <1>2, EscapeIs DEF EscapedOk
  <2>2. PICK F \in [0..n -> Seq(Chars)]: Joins(F, s) /\ FlattenSeq(s) = F[n]
    BY <2>1, FlattenIs
  <2>3. \A i \in 1..n: F[i] = F[i - 1] \o s[i]
    BY <2>2 DEF Joins
  <2>4. F[0] = <<>>
    BY <2>2 DEF Joins
  <2>. HIDE DEF s
  <2>5. n \in Nat
    BY <2>1
  <2>. HIDE DEF n
  <2>. DEFINE D == 0..n
              S == {i \in D: Clean(F[i])}
  <2>6. ASSUME NEW i \in D, \A j \in D: j < i => j \in S
        PROVE  i \in S
    <3>1. CASE i = 0
      <4>1. Clean(F[i])
        BY <2>4, <3>1 DEF Clean
      <4>. QED  BY <4>1
    <3>2. CASE i # 0
      <4>1. i \in 1..n /\ i - 1 \in 0..n /\ i - 1 < i
        BY <2>5, <3>2
      <4>. DEFINE u == F[i - 1]
                  v == s[i]
      <4>2. F[i] = u \o v
        BY <2>3, <4>1
      <4>3. Clean(u) /\ u \in Seq(Chars)
        BY <2>2, <2>6, <4>1
      <4>4. Clean(v) /\ v \in Seq(Chars)
        BY <2>1, <4>1
      <4>. HIDE DEF u, v
      <4>5. Clean(u \o v)
        BY <4>3, <4>4, CleanJoins
      <4>. QED  BY <4>2, <4>5
    <3>. QED  BY <3>1, <3>2
  <2>7. S = D
    <3>1. D \subseteq Nat
      BY <2>5
    <3>. HIDE DEF S
    <3>2. S \subseteq D
      BY DEF S
    <3>. HIDE DEF D
    <3>. QED  BY <2>6, <3>1, <3>2, Inductively
  <2>8. n \in D
    BY <2>5
  <2>9. Clean(F[n]) /\ F[n] \in Seq(Chars)
    BY <2>2, <2>7, <2>8
  <2>10. escape_text_lossless(x) = F[n]
    BY <2>1, <2>2
  <2>. QED  BY <2>9, <2>10, CleanIs
<1>3. ~offends_text_rule(sanitize_pair(x))
  BY CharsAre DEF sanitize_pair, offends_text_rule, ToSet
<1>4. ~offends_text_rule(escape_text_lossless(x))
  BY <1>1, <1>2
<1>. QED  BY <1>3, <1>4

(* The rest of a list.                                                     *)
LEMMA RestIs ==
    ASSUME NEW V, NEW x \in Seq(V)
    PROVE  /\ SubSeq(x, 1, Len(x)) = x
           /\ SubSeq(x, Len(x) + 1, Len(x)) = <<>>
           /\ \A k \in 1..Len(x): <<x[k]>> \o SubSeq(x, k + 1, Len(x)) = SubSeq(x, k, Len(x))
<1>1. SubSeq(x, 1, Len(x)) = x
  BY SubSeqFull
<1>2. SubSeq(x, Len(x) + 1, Len(x)) = <<>>
  OBVIOUS
<1>3. ASSUME NEW k \in 1..Len(x)
      PROVE  <<x[k]>> \o SubSeq(x, k + 1, Len(x)) = SubSeq(x, k, Len(x))
  <2>1. Len(x) \in k..Len(x)
    OBVIOUS
  <2>. QED  BY <2>1, SubSeqRecursiveFirst
<1>. QED  BY <1>1, <1>2, <1>3

(* Reading a text back, from any place on.                                 *)
UnescapeStep(y, un, k) ==
    IF k > Len(y) THEN <<>>
    ELSE IF y[k] # Backslash THEN <<y[k]>> \o un[k + 1]
    ELSE IF y[k + 1] = Backslash THEN <<Backslash>> \o un[k + 2]
    ELSE <<Offender>> \o un[k + 5]

LEMMA UnescapeIs ==
    ASSUME NEW y \in Seq(Chars)
    PROVE  \E un: /\ \A k \in Nat \ {0}: un[k] = UnescapeStep(y, un, k)
                  /\ unescape_text_lossless(y) = un[1]
<1>. DEFINE D == Nat \ {0}
            V == Seq(Chars)
            rank == [k \in D |-> IF k > Len(y) THEN 0 ELSE Len(y) + 1 - k]
            step == [z \in [D -> V] \X D |-> UnescapeStep(y, z[1], z[2])]
            Reads(un) == un = [k \in Nat \ {0} |->
                                  IF k > Len(y) THEN <<>>
                                  ELSE IF y[k] # Backslash THEN <<y[k]>> \o un[k + 1]
                                  ELSE IF y[k + 1] = Backslash THEN <<Backslash>> \o un[k + 2]
                                  ELSE <<Offender>> \o un[k + 5]]
<1>1. \A f \in [D -> V], k \in D: step[<<f, k>>] = UnescapeStep(y, f, k)
  OBVIOUS
<1>2. rank \in [D -> Nat] /\ V # {}
  <2>1. Len(y) \in Nat
    OBVIOUS
  <2>2. \A k \in D: (IF k > Len(y) THEN 0 ELSE Len(y) + 1 - k) \in Nat
    BY <2>1
  <2>. QED  BY <2>2
<1>3. \A k \in D: k + 1 \in D /\ k + 2 \in D /\ k + 5 \in D
  OBVIOUS
<1>4. \A k \in D: ~(k > Len(y)) =>
        rank[k + 1] < rank[k] /\ rank[k + 2] < rank[k] /\ rank[k + 5] < rank[k]
  <2>. SUFFICES ASSUME NEW k \in D, ~(k > Len(y))
                PROVE  rank[k + 1] < rank[k] /\ rank[k + 2] < rank[k] /\ rank[k + 5] < rank[k]
    OBVIOUS
  <2>. PICK n \in Nat: n = Len(y)
    OBVIOUS
  <2>1. \A d \in {1, 2, 5}: rank[k + d] = IF k + d > n THEN 0 ELSE n + 1 - (k + d)
    BY <1>3
  <2>2. rank[k] = n + 1 - k /\ k <= n
    OBVIOUS
  <2>3. \A d \in {1, 2, 5}: rank[k + d] < rank[k]
    <3>. HIDE DEF rank
    <3>. QED  BY <2>1, <2>2
  <2>. HIDE DEF rank
  <2>. QED  BY <2>3
<1>5. \A c \in Chars: <<c>> \in V
  OBVIOUS
<1>6. \A u, v \in V: u \o v \in V
  OBVIOUS
<1>7. step \in [[D -> V] \X D -> V]
  <2>1. ASSUME NEW f \in [D -> V], NEW k \in D
        PROVE  UnescapeStep(y, f, k) \in V
    <3>1. CASE k > Len(y)
      BY <3>1 DEF UnescapeStep
    <3>2. CASE ~(k > Len(y))
      <4>1. y[k] \in Chars
        BY <3>2
      <4>2. f[k + 1] \in V /\ f[k + 2] \in V /\ f[k + 5] \in V
        BY <1>3
      <4>. DEFINE a == <<y[k]>> \o f[k + 1]
                  b == <<Backslash>> \o f[k + 2]
                  c == <<Offender>> \o f[k + 5]
      <4>3. a \in V /\ b \in V /\ c \in V
        BY <1>5, <1>6, <4>1, <4>2, CharsAre, Zenon
      <4>4. UnescapeStep(y, f, k) = IF y[k] # Backslash THEN a
                                    ELSE IF y[k + 1] = Backslash THEN b ELSE c
        BY <3>2 DEF UnescapeStep
      <4>. HIDE DEF a, b, c
      <4>. QED  BY <4>3, <4>4
    <3>. QED  BY <3>1, <3>2
  <2>. QED  BY <2>1
<1>8. Progresses(step, D, V, rank)
  <2>. SUFFICES ASSUME NEW f \in [D -> V], NEW g \in [D -> V], NEW k \in D,
                       \A e \in D: rank[e] < rank[k] => f[e] = g[e]
                PROVE  step[<<f, k>>] = step[<<g, k>>]
    BY DEF Progresses
  <2>. HIDE DEF step, rank
  <2>1. UnescapeStep(y, f, k) = UnescapeStep(y, g, k)
    <3>1. CASE k > Len(y)
      BY <3>1 DEF UnescapeStep
    <3>2. CASE ~(k > Len(y))
      <4>1. f[k + 1] = g[k + 1] /\ f[k + 2] = g[k + 2] /\ f[k + 5] = g[k + 5]
        BY <1>3, <1>4, <3>2
      <4>. QED  BY <4>1 DEF UnescapeStep
    <3>. QED  BY <3>1, <3>2
  <2>. QED  BY <1>1, <2>1
<1>. HIDE DEF step, rank
<1>9. PICK f \in [D -> V]: Solves(f, step, D)
  BY <1>2, <1>7, <1>8, Recursion
<1>10. Reads(f)
  <2>1. \A k \in D: f[k] = UnescapeStep(y, f, k)
    BY <1>1, <1>9 DEF Solves
  <2>2. f = [k \in D |-> f[k]]
    BY <1>9
  <2>3. f = [k \in D |-> UnescapeStep(y, f, k)]
    BY <2>1, <2>2, Zenon
  <2>. QED  BY <2>3 DEF UnescapeStep
<1>. DEFINE un == CHOOSE h: Reads(h)
<1>11. Reads(un)
  <2>. HIDE DEF Reads
  <2>. QED  BY <1>10
<1>12. \A k \in D: un[k] = UnescapeStep(y, un, k)
  <2>. HIDE DEF un
  <2>. QED  BY <1>11 DEF UnescapeStep
<1>13. unescape_text_lossless(y) = un[1]
  BY DEF unescape_text_lossless
<1>. HIDE DEF un
<1>. QED  BY <1>12, <1>13

(* What was escaped is read back as it was.                                *)
LEMMA RoundTrip ==
    ASSUME NEW x \in Seq(Chars), offends_text_rule(x)
    PROVE  unescape_text_lossless(escape_text_lossless(x)) = x
<1>. DEFINE s == EscapedParts(x)
            y == escape_text_lossless(x)
            n == Len(x)
<1>1. /\ s \in Seq(Seq(Chars)) /\ Len(s) = n /\ n \in Nat
      /\ \A k \in 1..n: s[k] = Escaped(x[k]) /\ x[k] \in Chars /\ EscapedOk(x[k])
      /\ y = FlattenSeq(s)
  BY EscapeIs
<1>2. PICK F \in [0..n -> Seq(Chars)]: Joins(F, s) /\ y = F[n]
  BY <1>1, FlattenIs
<1>. HIDE DEF s, y
<1>3. \A k \in 1..n:
        /\ Len(F[k]) = Len(F[k - 1]) + Len(s[k])
        /\ Len(F[k]) <= Len(y)
        /\ \A j \in 1..Len(s[k]): y[Len(F[k - 1]) + j] = s[k][j]
  <2>1. F \in [0..Len(s) -> Seq(Chars)] /\ Joins(F, s)
    BY <1>1, <1>2
  <2>2. PartsOk(F, s)
    BY <1>1, <2>1, PartsAre
  <2>3. Len(s) = n /\ F[Len(s)] = y
    BY <1>1, <1>2
  <2>. HIDE DEF n
  <2>. QED  BY <2>2, <2>3, Zenon DEF PartsOk
<1>4. y \in Seq(Chars)
  BY <1>1, <1>2
<1>5. PICK un: /\ \A k \in Nat \ {0}: un[k] = UnescapeStep(y, un, k)
               /\ unescape_text_lossless(y) = un[1]
  BY <1>4, UnescapeIs
<1>6. /\ SubSeq(x, 1, n) = x /\ SubSeq(x, n + 1, n) = <<>>
      /\ \A k \in 1..n: <<x[k]>> \o SubSeq(x, k + 1, n) = SubSeq(x, k, n)
  BY RestIs
<1>. HIDE DEF n
<1>. DEFINE Rest(k) == un[Len(F[k]) + 1] = SubSeq(x, k + 1, n)
<1>7. \A k \in 0..n: Len(F[k]) \in Nat
  BY <1>1, <1>2
<1>8. Rest(n)
  <2>1. Len(y) \in Nat /\ Len(y) + 1 \in Nat \ {0} /\ Len(y) + 1 > Len(y)
    BY <1>4
  <2>2. un[Len(y) + 1] = <<>>
    BY <1>5, <2>1 DEF UnescapeStep
  <2>. QED  BY <1>2, <1>6, <2>2
<1>9. ASSUME NEW k \in 1..n, Rest(k)
      PROVE  Rest(k - 1)
  <2>1. PICK m \in Nat: m = Len(F[k - 1])
    <3>1. k - 1 \in 0..n
      BY <1>1
    <3>. QED  BY <1>7, <3>1
  <2>2. PICK c \in Chars: c = x[k]
    BY <1>1
  <2>3. EscapedOk(c) /\ s[k] = Escaped(c)
    BY <1>1, <2>2
  <2>4. PICK w \in Seq(Chars): w = s[k]
    BY <2>3 DEF EscapedOk
  <2>5. PICK p \in Nat: p = Len(y)
    BY <1>4
  <2>6. PICK r \in Nat: r = Len(w)
    OBVIOUS
  <2>7. /\ Len(F[k]) = m + r /\ m + r <= p
        /\ \A j \in 1..r: y[m + j] = w[j]
    BY <1>3, <2>1, <2>4, <2>5, <2>6
  <2>8. /\ m + 1 \in Nat \ {0}
        /\ un[m + 1] = UnescapeStep(y, un, m + 1)
    BY <1>5
  <2>9. <<c>> \o un[m + r + 1] = SubSeq(x, k, n)
    BY <1>6, <1>9, <2>2, <2>7
  <2>10. un[m + 1] = <<c>> \o un[m + r + 1]
    <3>1. CASE c = Backslash
      <4>1. r = 2 /\ w[1] = Backslash /\ w[2] = Backslash
        BY <2>3, <2>4, <2>6, <3>1 DEF EscapedOk
      <4>2. y[m + 1] = Backslash /\ y[m + 2] = Backslash /\ m + 2 <= p
        BY <2>7, <4>1
      <4>3. ~(m + 1 > Len(y)) /\ (m + 1) + 1 = m + 2 /\ (m + 1) + 2 = m + r + 1
        BY <2>5, <4>1, <4>2
      <4>4. y[(m + 1) + 1] = Backslash
        BY <4>2, <4>3
      <4>. QED  BY <2>8, <3>1, <4>2, <4>3, <4>4 DEF UnescapeStep
    <3>2. CASE c = Offender
      <4>1. r = 5 /\ w[1] = Backslash /\ w[2] # Backslash
        BY <2>3, <2>4, <2>6, <3>2 DEF EscapedOk
      <4>2. y[m + 1] = Backslash /\ y[m + 2] # Backslash /\ m + 5 <= p
        BY <2>7, <4>1
      <4>3. ~(m + 1 > Len(y)) /\ (m + 1) + 1 = m + 2 /\ (m + 1) + 5 = m + r + 1
        BY <2>5, <4>1, <4>2
      <4>4. y[(m + 1) + 1] # Backslash
        BY <4>2, <4>3
      <4>. QED  BY <2>8, <3>2, <4>2, <4>3, <4>4 DEF UnescapeStep
    <3>3. CASE c # Backslash /\ c # Offender
      <4>1. r = 1 /\ w[1] = c
        BY <2>3, <2>4, <2>6, <3>3 DEF EscapedOk
      <4>2. y[m + 1] = c /\ m + 1 <= p
        BY <2>7, <4>1
      <4>3. ~(m + 1 > Len(y)) /\ (m + 1) + 1 = m + r + 1
        BY <2>5, <4>1, <4>2
      <4>. QED  BY <2>8, <3>3, <4>2, <4>3 DEF UnescapeStep
    <3>. QED  BY <3>1, <3>2, <3>3
  <2>11. (k - 1) + 1 = k
    BY <1>1
  <2>. QED  BY <2>1, <2>9, <2>10, <2>11
<1>10. Rest(0)
  <2>. DEFINE D == 0..n
              S == {d \in D: Rest(n - d)}
  <2>1. ASSUME NEW d \in D, \A e \in D: e < d => e \in S
        PROVE  d \in S
    <3>1. CASE d = 0
      <4>1. n - d = n
        BY <1>1, <3>1
      <4>2. Rest(n - d)
        BY <1>8, <4>1
      <4>. QED  BY <4>2
    <3>2. CASE d # 0
      <4>1. d - 1 \in D /\ d - 1 < d /\ n - (d - 1) \in 1..n /\ (n - (d - 1)) - 1 = n - d
        BY <1>1, <3>2
      <4>. HIDE DEF Rest
      <4>2. Rest(n - (d - 1))
        BY <2>1, <4>1
      <4>3. Rest((n - (d - 1)) - 1)
        BY <1>9, <4>1, <4>2
      <4>4. Rest(n - d)
        BY <4>1, <4>3
      <4>. QED  BY <4>4
    <3>. QED  BY <3>1, <3>2
  <2>2. S = D
    <3>1. D \subseteq Nat
      BY <1>1
    <3>. HIDE DEF S
    <3>2. S \subseteq D
      BY DEF S
    <3>. HIDE DEF D
    <3>. QED  BY <2>1, <3>1, <3>2, Inductively
  <2>3. n \in D /\ n - n = 0
    BY <1>1
  <2>. HIDE DEF Rest
  <2>4. Rest(n - n)
    BY <2>2, <2>3
  <2>. QED  BY <2>3, <2>4
<1>11. un[1] = x
  <2>1. F[0] = <<>>
    BY <1>2 DEF Joins
  <2>2. Len(F[0]) + 1 = 1 /\ 0 + 1 = 1
    BY <2>1
  <2>. QED  BY <1>6, <1>10, <2>2
<1>. QED  BY <1>5, <1>11 DEF y

-----------------------------------------------------------------------------
(* The source's commits.                                                   *)

LEMMA GitIs ==
    ASSUME NEW g, GitOk(g)
    PROVE  /\ DOMAIN g = 1..Len(g) /\ Len(g) \in Nat /\ DOMAIN g \subseteq Nat
           /\ \A i \in DOMAIN g:
                /\ g[i].parents \in Seq(Nat) /\ g[i].tree \in Trees /\ g[i].text \in Seq(Chars)
                /\ \A p \in ToSet(g[i].parents): p \in DOMAIN g /\ p < i
                /\ IsFiniteSet(ToSet(g[i].parents))
                /\ ToSet(g[i].parents) = {} <=> g[i].parents = <<>>
                /\ g[i].parents # <<>> => Head(g[i].parents) \in ToSet(g[i].parents)
<1>1. DOMAIN g = 1..Len(g) /\ Len(g) \in Nat /\ DOMAIN g \subseteq Nat
  BY DEF GitOk
<1>2. ASSUME NEW i \in DOMAIN g
      PROVE  /\ g[i].parents \in Seq(Nat) /\ g[i].tree \in Trees /\ g[i].text \in Seq(Chars)
             /\ \A p \in ToSet(g[i].parents): p \in DOMAIN g /\ p < i
             /\ IsFiniteSet(ToSet(g[i].parents))
             /\ ToSet(g[i].parents) = {} <=> g[i].parents = <<>>
             /\ g[i].parents # <<>> => Head(g[i].parents) \in ToSet(g[i].parents)
  <2>1. g[i] \in [parents: Seq(Nat), tree: Trees, text: Seq(Chars)]
    <3>. DEFINE V == [parents: Seq(Nat), tree: Trees, text: Seq(Chars)]
    <3>1. g \in Seq(V)
      BY DEF GitOk
    <3>. HIDE DEF V
    <3>2. g[i] \in V
      BY <3>1
    <3>. QED  BY <3>2 DEF V
  <2>2. g[i].parents \in Seq(Nat) /\ g[i].tree \in Trees /\ g[i].text \in Seq(Chars)
    BY <2>1
  <2>3. \A p \in ToSet(g[i].parents): p \in DOMAIN g /\ p < i
    <3>1. ToSet(g[i].parents) \subseteq 1..(i - 1)
      BY DEF GitOk
    <3>2. \A n \in Nat: \A k \in 1..n: \A p \in 1..(k - 1): p \in 1..n /\ p < k
      OBVIOUS
    <3>. QED  BY <1>1, <3>1, <3>2, Zenon
  <2>. DEFINE s == g[i].parents
  <2>4. s \in Seq(Nat)
    BY <2>2
  <2>. HIDE DEF s
  <2>5. IsFiniteSet(ToSet(s))
    <3>1. Len(s) \in Nat /\ DOMAIN s = 1..Len(s)
      BY <2>4
    <3>. QED  BY <3>1, ListIsFinite
  <2>6. /\ ToSet(s) = {} <=> s = <<>>
        /\ s # <<>> => Head(s) \in ToSet(s)
    <3>1. CASE s = <<>>
      BY <3>1 DEF ToSet
    <3>2. CASE s # <<>>
      <4>1. 1 \in DOMAIN s /\ Head(s) = s[1]
        BY <2>4, <3>2
      <4>. QED  BY <3>2, <4>1 DEF ToSet
    <3>. QED  BY <3>1, <3>2
  <2>. QED  BY <2>2, <2>3, <2>5, <2>6 DEF s
<1>. QED  BY <1>1, <1>2

(* What a commit reaches.                                                  *)
AncOf(g) == CHOOSE f: f = [i \in DOMAIN g |-> {i} \cup UNION {f[p]: p \in ToSet(g[i].parents)}]

LEMMA AncestorsOf == Ancestors = AncOf(git)
BY DEF Ancestors, AncOf, Commits

LEMMA AncestorsAre ==
    ASSUME NEW g, GitOk(g)
    PROVE  /\ AncOf(g) \in [DOMAIN g -> SUBSET DOMAIN g]
           /\ \A i \in DOMAIN g:
                AncOf(g)[i] = {i} \cup UNION {AncOf(g)[p]: p \in ToSet(g[i].parents)}
<1>. DEFINE D == DOMAIN g
            own == [i \in D |-> {i}]
            up == [i \in D |-> ToSet(g[i].parents)]
            Walks(f) == f = [i \in D |-> {i} \cup UNION {f[p]: p \in ToSet(g[i].parents)}]
<1>1. CanClose(D, own, up)
  <2>1. D \subseteq Nat /\ \A i \in D: \A p \in ToSet(g[i].parents): p \in D /\ p < i
    BY GitIs
  <2>2. own \in [D -> SUBSET D]
    OBVIOUS
  <2>3. up \in [D -> SUBSET D] /\ \A i \in D: \A p \in up[i]: p < i
    BY <2>1
  <2>. QED  BY <2>1, <2>2, <2>3 DEF CanClose
<1>2. \A f: IsClosure(f, D, own, up) <=> Walks(f)
  <2>. SUFFICES ASSUME NEW f PROVE IsClosure(f, D, own, up) <=> Walks(f)
    OBVIOUS
  <2>1. [i \in D |-> own[i] \cup UNION {f[p]: p \in up[i]}]
          = [i \in D |-> {i} \cup UNION {f[p]: p \in ToSet(g[i].parents)}]
    OBVIOUS
  <2>. QED  BY <2>1, Zenon DEF IsClosure
<1>. HIDE DEF own, up, D
<1>3. PICK f: Walks(f)
  <2>. HIDE DEF Walks
  <2>. QED  BY <1>1, <1>2, Closure
<1>4. Walks(AncOf(g))
  BY <1>3 DEF AncOf, D
<1>5. AncOf(g) \in [D -> SUBSET D]
  <2>. HIDE DEF Walks
  <2>. QED  BY <1>1, <1>2, <1>4, Closure
<1>6. \A i \in D: AncOf(g)[i] = {i} \cup UNION {AncOf(g)[p]: p \in ToSet(g[i].parents)}
  BY <1>4
<1>. QED  BY <1>5, <1>6 DEF D

LEMMA AncestorsBelow ==
    ASSUME SourceInv, NEW i \in Commits
    PROVE  /\ Ancestors[i] \subseteq Commits /\ i \in Ancestors[i]
           /\ \A p \in ToSet(git[i].parents): Ancestors[p] \subseteq Ancestors[i]
           /\ Ancestors[i] = {i} \cup UNION {Ancestors[p]: p \in ToSet(git[i].parents)}
<1>1. GitOk(git) /\ i \in DOMAIN git
  BY DEF SourceInv, Commits
<1>2. /\ AncOf(git) \in [DOMAIN git -> SUBSET DOMAIN git]
      /\ \A j \in DOMAIN git:
           AncOf(git)[j] = {j} \cup UNION {AncOf(git)[p]: p \in ToSet(git[j].parents)}
  BY <1>1, AncestorsAre
<1>3. Ancestors[i] \subseteq Commits
  BY <1>1, <1>2, AncestorsOf DEF Commits
<1>4. Ancestors[i] = {i} \cup UNION {Ancestors[p]: p \in ToSet(git[i].parents)}
  BY <1>1, <1>2, AncestorsOf
<1>. QED  BY <1>3, <1>4

(* What a run may take: it is not mapped, the source's head reaches it,    *)
(* and what it is based on is mapped or to be taken too.                   *)
LEMMA ReachIs ==
    ASSUME SourceInv, RowsInv
    PROVE  /\ Reach \in [Commits -> SUBSET Commits]
           /\ \A i \in Commits:
                Reach[i] = IF i \in Mapped THEN {}
                           ELSE {i} \cup UNION {Reach[p]: p \in ToSet(git[i].parents)}
<1>. DEFINE D == Commits
            own == [i \in D |-> IF i \in Mapped THEN {} ELSE {i}]
            up == [i \in D |-> IF i \in Mapped THEN {} ELSE ToSet(git[i].parents)]
            Walks(f) == f = [i \in Commits |->
                                IF i \in Mapped THEN {}
                                ELSE {i} \cup UNION {f[p]: p \in ToSet(git[i].parents)}]
<1>1. CanClose(D, own, up)
  <2>1. D \subseteq Nat /\ \A i \in D: \A p \in ToSet(git[i].parents): p \in D /\ p < i
    BY GitIs DEF SourceInv, Commits
  <2>2. own \in [D -> SUBSET D]
    OBVIOUS
  <2>3. up \in [D -> SUBSET D] /\ \A i \in D: \A p \in up[i]: p < i
    BY <2>1
  <2>. QED  BY <2>1, <2>2, <2>3 DEF CanClose
<1>2. \A f: IsClosure(f, D, own, up) <=> Walks(f)
  <2>. SUFFICES ASSUME NEW f PROVE IsClosure(f, D, own, up) <=> Walks(f)
    OBVIOUS
  <2>1. ASSUME NEW i \in D
        PROVE  own[i] \cup UNION {f[p]: p \in up[i]}
                 = IF i \in Mapped THEN {} ELSE {i} \cup UNION {f[p]: p \in ToSet(git[i].parents)}
    <3>1. CASE i \in Mapped
      <4>1. own[i] = {} /\ up[i] = {}
        BY <3>1
      <4>. HIDE DEF own, up
      <4>2. UNION {f[p]: p \in up[i]} = {}
        BY <4>1
      <4>. QED  BY <3>1, <4>1, <4>2
    <3>2. CASE i \notin Mapped
      <4>1. own[i] = {i} /\ up[i] = ToSet(git[i].parents)
        BY <3>2
      <4>. HIDE DEF own, up
      <4>. QED  BY <3>2, <4>1
    <3>. QED  BY <3>1, <3>2
  <2>. HIDE DEF own, up
  <2>2. [i \in D |-> own[i] \cup UNION {f[p]: p \in up[i]}]
          = [i \in D |-> IF i \in Mapped THEN {}
                         ELSE {i} \cup UNION {f[p]: p \in ToSet(git[i].parents)}]
    BY <2>1
  <2>. QED  BY <2>2, Zenon DEF IsClosure
<1>. HIDE DEF own, up
<1>3. PICK f: Walks(f)
  <2>. HIDE DEF Walks, D
  <2>. QED  BY <1>1, <1>2, Closure
<1>4. Walks(Reach)
  BY <1>3 DEF Reach
<1>5. Reach \in [D -> SUBSET D]
  <2>. HIDE DEF Walks, D
  <2>. QED  BY <1>1, <1>2, <1>4, Closure
<1>6. \A i \in D: Reach[i] = IF i \in Mapped THEN {}
                             ELSE {i} \cup UNION {Reach[p]: p \in ToSet(git[i].parents)}
  BY <1>4
<1>. QED  BY <1>5, <1>6

LEMMA ReachAre ==
    ASSUME SourceInv, RowsInv, NEW i \in Commits
    PROVE  /\ Reach[i] \subseteq Ancestors[i] \ Mapped
           /\ i \notin Mapped => i \in Reach[i]
           /\ \A j \in Reach[i]: ToSet(git[j].parents) \subseteq Mapped \cup Reach[i]
<1>. DEFINE D == Commits
            Good(k) == /\ Reach[k] \subseteq Ancestors[k] \ Mapped
                       /\ k \notin Mapped => k \in Reach[k]
                       /\ \A j \in Reach[k]: ToSet(git[j].parents) \subseteq Mapped \cup Reach[k]
            S == {k \in D: Good(k)}
<1>1. /\ \A k \in D: Reach[k] = IF k \in Mapped THEN {}
                                ELSE {k} \cup UNION {Reach[p]: p \in ToSet(git[k].parents)}
  BY ReachIs
<1>2. D \subseteq Nat /\ \A k \in D: \A p \in ToSet(git[k].parents): p \in D /\ p < k
  BY GitIs DEF SourceInv, Commits
<1>3. \A k \in D: /\ k \in Ancestors[k]
                  /\ \A p \in ToSet(git[k].parents): Ancestors[p] \subseteq Ancestors[k]
  BY AncestorsBelow
<1>4. ASSUME NEW k \in D, \A j \in D: j < k => j \in S
      PROVE  Good(k)
  <2>1. CASE k \in Mapped
    BY <1>1, <2>1
  <2>2. CASE k \notin Mapped
    <3>1. Reach[k] = {k} \cup UNION {Reach[p]: p \in ToSet(git[k].parents)}
      BY <1>1, <2>2
    <3>2. \A p \in ToSet(git[k].parents): p \in D /\ Good(p)
      BY <1>2, <1>4
    <3>3. Reach[k] \subseteq Ancestors[k] \ Mapped
      BY <1>3, <2>2, <3>1, <3>2
    <3>4. ASSUME NEW j \in Reach[k], NEW q \in ToSet(git[j].parents)
          PROVE  q \in Mapped \cup Reach[k]
      <4>1. CASE j = k
        BY <3>1, <3>2, <4>1
      <4>2. CASE j # k
        <5>1. PICK p \in ToSet(git[k].parents): j \in Reach[p]
          BY <3>1, <4>2
        <5>2. q \in Mapped \cup Reach[p]
          BY <3>2, <5>1
        <5>. QED  BY <3>1, <5>1, <5>2
      <4>. QED  BY <4>1, <4>2
    <3>. QED  BY <3>1, <3>3, <3>4
  <2>. QED  BY <2>1, <2>2
<1>5. S = D
  <2>. HIDE DEF Good
  <2>1. S \subseteq D
    OBVIOUS
  <2>2. \A k \in D: (\A j \in D: j < k => j \in S) => k \in S
    BY <1>4
  <2>. HIDE DEF S, D
  <2>. QED  BY <1>2, <2>1, <2>2, Inductively
<1>6. Good(i)
  <2>. HIDE DEF Good
  <2>. QED  BY <1>5
<1>. QED  BY <1>6

(* A commit that is ready has what it needs.                               *)
LEMMA ReadyIs ==
    ASSUME SourceInv, RowsInv, NEW i \in Commits, Ready[i]
    PROVE  /\ ~Unsupported(i)
           /\ \A p \in ToSet(git[i].parents): p \in Mapped \/ Ready[p]
<1>. DEFINE D == Commits
            own == [k \in D |-> IF Unsupported(k) THEN {k} ELSE {}]
            up == [k \in D |-> ToSet(git[k].parents) \ Mapped]
            Tells(f) == f = [k \in Commits |->
                                /\ ~Unsupported(k)
                                /\ \A p \in ToSet(git[k].parents): p \in Mapped \/ f[p]]
<1>0. D \subseteq Nat /\ \A k \in D: \A p \in ToSet(git[k].parents): p \in D /\ p < k
  BY GitIs DEF SourceInv, Commits
<1>1. CanClose(D, own, up)
  <2>. HIDE DEF D
  <2>1. own \in [D -> SUBSET D]
    OBVIOUS
  <2>2. up \in [D -> SUBSET D] /\ \A k \in D: \A p \in up[k]: p < k
    BY <1>0
  <2>. QED  BY <1>0, <2>1, <2>2 DEF CanClose
<1>2. PICK B \in [D -> SUBSET D]: IsClosure(B, D, own, up)
  <2>. HIDE DEF D, own, up
  <2>. QED  BY <1>1, Closure
<1>3. \A k \in D: B[k] = {} <=> /\ ~Unsupported(k)
                                /\ \A p \in ToSet(git[k].parents): p \in Mapped \/ B[p] = {}
  <2>. SUFFICES ASSUME NEW k \in D
                PROVE  B[k] = {} <=> /\ ~Unsupported(k)
                                     /\ \A p \in ToSet(git[k].parents): p \in Mapped \/ B[p] = {}
    OBVIOUS
  <2>1. B[k] = own[k] \cup UNION {B[p]: p \in up[k]}
    <3>. HIDE DEF own, up
    <3>. QED  BY <1>2 DEF IsClosure
  <2>2. own[k] = {} <=> ~Unsupported(k)
    OBVIOUS
  <2>3. up[k] = ToSet(git[k].parents) \ Mapped
    OBVIOUS
  <2>. HIDE DEF own, up
  <2>4. UNION {B[p]: p \in up[k]} = {} <=> \A p \in up[k]: B[p] = {}
    OBVIOUS
  <2>. QED  BY <2>1, <2>2, <2>3, <2>4
<1>. DEFINE f == [k \in D |-> B[k] = {}]
<1>4. Tells(f)
  <2>1. \A k \in D: f[k] = (/\ ~Unsupported(k)
                            /\ \A p \in ToSet(git[k].parents): p \in Mapped \/ f[p])
    BY <1>0, <1>3, Zenon
  <2>2. f = [k \in D |-> f[k]]
    BY Zenon
  <2>. HIDE DEF f
  <2>. QED  BY <2>1, <2>2, Zenon
<1>5. Tells(Ready)
  <2>. HIDE DEF f
  <2>. QED  BY <1>4 DEF Ready
<1>6. Ready[i] = (/\ ~Unsupported(i)
                  /\ \A p \in ToSet(git[i].parents): p \in Mapped \/ Ready[p])
  BY <1>5, Zenon
<1>. QED  BY <1>6, Zenon

(* The generation of a commit on mapped ones is above theirs.              *)
LEMMA GenIs ==
    ASSUME SourceInv, RowsInv, NEW i \in Commits \ Mapped, ToSet(git[i].parents) \subseteq Mapped
    PROVE  Gen[i] \in Nat /\ \A p \in ToSet(git[i].parents): rows[p].gen < Gen[i]
<1>. DEFINE D == Commits
            V == Nat
            GenStep(f, k) == IF k \in Mapped THEN rows[k].gen
                             ELSE IF git[k].parents = <<>> THEN 0
                             ELSE 1 + Max({f[p]: p \in ToSet(git[k].parents)})
            rank == [k \in D |-> k]
            step == [x \in [D -> V] \X D |-> GenStep(x[1], x[2])]
            Counts(f) == f = [k \in Commits |->
                                 IF k \in Mapped THEN rows[k].gen
                                 ELSE IF git[k].parents = <<>> THEN 0
                                 ELSE 1 + Max({f[p]: p \in ToSet(git[k].parents)})]
<1>1. /\ D \subseteq Nat
      /\ \A k \in D: /\ \A p \in ToSet(git[k].parents): p \in D /\ p < k
                     /\ IsFiniteSet(ToSet(git[k].parents))
                     /\ ToSet(git[k].parents) = {} <=> git[k].parents = <<>>
  BY GitIs DEF SourceInv, Commits
<1>2. \A k \in Mapped: rows[k].gen \in Nat
  BY DEF RowsInv
<1>3. \A f \in [D -> V], k \in D: step[<<f, k>>] = GenStep(f, k)
  OBVIOUS
<1>4. ASSUME NEW f, NEW k \in D, git[k].parents # <<>>,
             \A p \in ToSet(git[k].parents): f[p] \in Nat
      PROVE  /\ Max({f[p]: p \in ToSet(git[k].parents)}) \in Nat
             /\ \A p \in ToSet(git[k].parents):
                  f[p] <= Max({f[q]: q \in ToSet(git[k].parents)})
  <2>. DEFINE P == ToSet(git[k].parents)
              T == {f[p]: p \in P}
  <2>1. IsFiniteSet(P) /\ P # {}
    BY <1>1, <1>4
  <2>. HIDE DEF P
  <2>2. IsFiniteSet(T)
    BY <2>1, ImageIsFinite
  <2>3. T \subseteq Nat /\ T # {}
    BY <1>4, <2>1 DEF P
  <2>. HIDE DEF T
  <2>4. Max(T) \in T /\ \A m \in T: m <= Max(T)
    BY <2>2, <2>3, MaxIs
  <2>5. Max(T) \in Nat /\ \A p \in P: f[p] <= Max(T)
    BY <2>3, <2>4 DEF T
  <2>. QED  BY <2>5 DEF T, P
<1>5. rank \in [D -> Nat] /\ V # {}
  BY <1>1
<1>6. step \in [[D -> V] \X D -> V]
  <2>1. ASSUME NEW f \in [D -> V], NEW k \in D
        PROVE  GenStep(f, k) \in V
    <3>1. CASE k \in Mapped
      BY <1>2, <3>1
    <3>2. CASE k \notin Mapped /\ git[k].parents = <<>>
      BY <3>2
    <3>3. CASE k \notin Mapped /\ git[k].parents # <<>>
      <4>1. \A p \in ToSet(git[k].parents): f[p] \in Nat
        BY <1>1
      <4>2. Max({f[p]: p \in ToSet(git[k].parents)}) \in Nat
        BY <1>4, <3>3, <4>1
      <4>. QED  BY <3>3, <4>2
    <3>. QED  BY <3>1, <3>2, <3>3
  <2>. HIDE DEF GenStep
  <2>. QED  BY <2>1
<1>7. Progresses(step, D, V, rank)
  <2>. SUFFICES ASSUME NEW f \in [D -> V], NEW g \in [D -> V], NEW k \in D,
                       \A e \in D: rank[e] < rank[k] => f[e] = g[e]
                PROVE  step[<<f, k>>] = step[<<g, k>>]
    BY DEF Progresses
  <2>1. \A p \in ToSet(git[k].parents): f[p] = g[p]
    BY <1>1
  <2>2. {f[p]: p \in ToSet(git[k].parents)} = {g[p]: p \in ToSet(git[k].parents)}
    BY <2>1
  <2>3. GenStep(f, k) = GenStep(g, k)
    BY <2>2
  <2>. HIDE DEF step, GenStep
  <2>. QED  BY <1>3, <2>3
<1>. HIDE DEF step, rank
<1>8. PICK f \in [D -> V]: Solves(f, step, D)
  BY <1>5, <1>6, <1>7, Recursion
<1>9. Counts(f)
  <2>1. \A k \in D: f[k] = GenStep(f, k)
    BY <1>3, <1>8 DEF Solves
  <2>2. f = [k \in D |-> f[k]]
    BY <1>8
  <2>. QED  BY <2>1, <2>2, Zenon
<1>10. Counts(Gen)
  <2>1. \E h: Counts(h)
    BY <1>9
  <2>. QED  BY <2>1, Zenon DEF Gen
<1>11. \A k \in D: Gen[k] = GenStep(Gen, k)
  BY <1>10
<1>12. \A p \in ToSet(git[i].parents): Gen[p] = rows[p].gen /\ Gen[p] \in Nat
  BY <1>1, <1>2, <1>11
<1>13. CASE git[i].parents = <<>>
  <2>1. Gen[i] = 0 /\ ToSet(git[i].parents) = {}
    BY <1>1, <1>11, <1>13
  <2>. QED  BY <2>1
<1>14. CASE git[i].parents # <<>>
  <2>. DEFINE top == Max({Gen[p]: p \in ToSet(git[i].parents)})
  <2>1. Gen[i] = 1 + top
    BY <1>11, <1>14
  <2>2. top \in Nat /\ \A p \in ToSet(git[i].parents): Gen[p] <= top
    BY <1>4, <1>12, <1>14
  <2>. HIDE DEF top
  <2>. QED  BY <1>12, <2>1, <2>2
<1>. QED  BY <1>13, <1>14

(* A changeset descends from its ancestors, which are mapped and of lower  *)
(* generations.                                                            *)
LEMMA DescentIs ==
    ASSUME SourceInv, RowsInv
    PROVE  \A i \in Mapped: Descent[i] = ToSet(git[i].parents)
                                         \cup UNION {Descent[p]: p \in ToSet(git[i].parents)}
<1>. DEFINE D == Mapped
            up == [i \in D |-> ToSet(git[i].parents)]
            Walks(f) == f = [i \in Mapped |-> ToSet(rows[i].parents)
                                              \cup UNION {f[p]: p \in ToSet(rows[i].parents)}]
<1>1. \A i \in D: /\ ToSet(rows[i].parents) = ToSet(git[i].parents)
                  /\ \A p \in ToSet(git[i].parents): p \in D /\ p < i
  BY GitIs DEF SourceInv, RowsInv, Faithful, Commits
<1>2. D \subseteq Nat
  BY GitIs DEF SourceInv, RowsInv, Commits
<1>3. CanClose(D, up, up)
  <2>. HIDE DEF D
  <2>1. up \in [D -> SUBSET D] /\ \A i \in D: \A p \in up[i]: p < i
    BY <1>1
  <2>. QED  BY <1>2, <2>1 DEF CanClose
<1>4. \A f: IsClosure(f, D, up, up) => Walks(f)
  <2>. SUFFICES ASSUME NEW f, IsClosure(f, D, up, up) PROVE Walks(f)
    OBVIOUS
  <2>1. [i \in D |-> up[i] \cup UNION {f[p]: p \in up[i]}]
          = [i \in D |-> ToSet(rows[i].parents) \cup UNION {f[p]: p \in ToSet(rows[i].parents)}]
    BY <1>1
  <2>. QED  BY <2>1, Zenon DEF IsClosure
<1>. HIDE DEF up
<1>5. PICK f: Walks(f)
  <2>. HIDE DEF Walks, D
  <2>. QED  BY <1>3, <1>4, Closure
<1>6. Walks(Descent)
  BY <1>5, Zenon DEF Descent
<1>. QED  BY <1>1, <1>6

LEMMA MappedBelow ==
    ASSUME SourceInv, RowsInv, NEW h \in Mapped
    PROVE  \A j \in Ancestors[h]: /\ j \in Mapped /\ rows[j].gen <= rows[h].gen
                                  /\ j # h => j \in Descent[h]
<1>. DEFINE Good(i) == \A j \in Ancestors[i]: /\ j \in Mapped /\ rows[j].gen <= rows[i].gen
                                              /\ j # i => j \in Descent[i]
            D == Mapped
            S == {i \in D: Good(i)}
<1>1. \A i \in D: /\ i \in Commits /\ rows[i].gen \in Nat
                  /\ \A p \in ToSet(git[i].parents): p \in D /\ rows[p].gen < rows[i].gen
  BY DEF RowsInv
<1>2. \A i \in D: \A p \in ToSet(git[i].parents): p < i
  BY <1>1, GitIs DEF SourceInv, Commits
<1>3. D \subseteq Nat
  BY <1>1, GitIs DEF SourceInv, Commits
<1>4. ASSUME NEW i \in D, \A j \in D: j < i => j \in S
      PROVE  Good(i)
  <2>1. Ancestors[i] = {i} \cup UNION {Ancestors[p]: p \in ToSet(git[i].parents)}
    BY <1>1, AncestorsBelow
  <2>2. Descent[i] = ToSet(git[i].parents) \cup UNION {Descent[p]: p \in ToSet(git[i].parents)}
    BY DescentIs
  <2>3. ASSUME NEW j \in Ancestors[i], j # i
        PROVE  j \in Mapped /\ rows[j].gen <= rows[i].gen /\ j \in Descent[i]
    <3>1. PICK p \in ToSet(git[i].parents): j \in Ancestors[p]
      BY <2>1, <2>3
    <3>2. p \in D /\ Good(p)
      BY <1>1, <1>2, <1>4
    <3>3. j \in Mapped /\ rows[j].gen <= rows[p].gen /\ rows[p].gen < rows[i].gen
      BY <1>1, <3>1, <3>2
    <3>4. rows[j].gen \in Nat /\ rows[p].gen \in Nat /\ rows[i].gen \in Nat
      BY <1>1, <3>2, <3>3
    <3>5. rows[j].gen <= rows[i].gen
      BY <3>3, <3>4
    <3>6. j \in Descent[i]
      BY <2>2, <3>1, <3>2
    <3>. QED  BY <3>3, <3>5, <3>6
  <2>4. rows[i].gen <= rows[i].gen
    BY <1>1
  <2>. QED  BY <2>3, <2>4
<1>5. S = D
  <2>. HIDE DEF Good
  <2>1. S \subseteq D
    OBVIOUS
  <2>2. \A k \in D: (\A j \in D: j < k => j \in S) => k \in S
    BY <1>4
  <2>. HIDE DEF S, D
  <2>. QED  BY <1>3, <2>1, <2>2, Inductively
<1>6. Good(h)
  <2>. HIDE DEF Good
  <2>. QED  BY <1>5
<1>. QED  BY <1>6

(* The best of some changesets is one of them, and is the source's head    *)
(* where none has a higher generation.                                     *)
LEMMA BestIs ==
    ASSUME SourceInv, RowsInv, NEW s, s \subseteq Mapped, s # {}
    PROVE  /\ Best(s) \in s
           /\ run.head \in s /\ (\A j \in s: rows[j].gen <= rows[run.head].gen) =>
                Best(s) = run.head
<1>. DEFINE top == {i \in s: \A j \in s: rows[j].gen <= rows[i].gen}
            h == [i \in s |-> rows[i].gen]
<1>1. s \subseteq Nat /\ IsFiniteSet(s)
  <2>1. s \subseteq 1..Len(git) /\ Len(git) \in Nat
    BY GitIs DEF SourceInv, RowsInv, Commits
  <2>2. IsFiniteSet(1..Len(git))
    BY <2>1, FS_Interval
  <2>3. s \subseteq Nat
    BY <2>1
  <2>4. IsFiniteSet(s)
    BY <2>1, <2>2, FS_Subset
  <2>. QED  BY <2>3, <2>4
<1>2. top # {}
  <2>1. \A i \in s: h[i] \in Nat
    BY DEF RowsInv
  <2>2. PICK i \in s: \A j \in s: h[j] <= h[i]
    <3>. HIDE DEF h
    <3>. QED  BY <1>1, <2>1, Greatest
  <2>. QED  BY <2>2
<1>3. IsFiniteSet(top) /\ top \subseteq Nat
  BY <1>1, FS_Subset
<1>4. Best(s) = IF run.head \in top THEN run.head ELSE Max(top)
  BY DEF Best
<1>5. Max(top) \in top
  <2>. HIDE DEF top
  <2>. QED  BY <1>2, <1>3, MaxIs
<1>6. Best(s) \in top
  <2>. HIDE DEF top
  <2>. QED  BY <1>4, <1>5
<1>. QED  BY <1>4, <1>6

(* A supported commit on clean trees is clean.                             *)
LEMMA TreeIs ==
    ASSUME ImportAssumption, SourceInv, RowsInv, NEW i \in Commits, ~Unsupported(i),
           ToSet(git[i].parents) \subseteq Mapped
    PROVE  \A p \in Paths: git[i].tree[p] # Link
<1>. DEFINE new == git[i].tree
            old == FirstParentTree(i)
<1>1. \A p \in Paths: old[p] # Link
  <2>1. CASE git[i].parents = <<>>
    BY <2>1 DEF FirstParentTree, EmptyTree, ImportAssumption
  <2>2. CASE git[i].parents # <<>>
    <3>1. Head(git[i].parents) \in Mapped
      BY <2>2, GitIs DEF SourceInv, Commits
    <3>. QED  BY <2>2, <3>1 DEF FirstParentTree, RowsInv, Faithful
  <2>. QED  BY <2>1, <2>2
<1>2. ASSUME NEW p \in Paths, new[p] = Link
      PROVE  FALSE
  <2>1. old[p] # new[p] /\ new[p] # None
    BY <1>1, <1>2 DEF ImportAssumption
  <2>2. p \in DOMAIN ChangesOf(i) /\ ChangesOf(i)[p].entry = new[p]
    BY <2>1 DEF ChangesOf, tree_diff, Change
  <2>. QED  BY <1>2, <2>2 DEF Unsupported, validate_entry
<1>. QED  BY <1>2

LEMMA FilesAre ==
    ASSUME ImportAssumption, SourceInv, NEW i \in Commits
    PROVE  /\ Files(i) \subseteq Blobs
           /\ ~Unsupported(i) => ChangedFiles(i) \subseteq Blobs
<1>1. git[i].tree \in Trees
  BY GitIs DEF SourceInv, Commits
<1>2. Files(i) \subseteq Blobs
  BY <1>1 DEF Files, Trees
<1>3. ASSUME ~Unsupported(i), NEW b \in ChangedFiles(i)
      PROVE  b \in Blobs
  <2>1. PICK p \in DOMAIN ChangesOf(i): b = ChangesOf(i)[p].entry
    BY DEF ChangedFiles
  <2>2. p \in Paths /\ (b = None \/ b = git[i].tree[p])
    BY <2>1 DEF ChangesOf, tree_diff, Change
  <2>3. b # None
    BY DEF ChangedFiles
  <2>4. b # Link
    BY <1>3, <2>1 DEF Unsupported, validate_entry
  <2>. QED  BY <1>1, <2>2, <2>3, <2>4 DEF Trees
<1>. QED  BY <1>2, <1>3

-----------------------------------------------------------------------------
(* The steps.                                                              *)

LEMMA ImportInit ==
    ASSUME ImportAssumption, Init
    PROVE  ImportInv
<1>. USE DEF Init
<1>1. SourceInv
  <2>1. GitOk(git)
    <3>1. git \in Seq([parents: Seq(Nat), tree: Trees, text: Seq(Chars)]) /\ DOMAIN git = {}
      OBVIOUS
    <3>. QED  BY <3>1 DEF GitOk
  <2>2. Len(git) = 0 /\ Commits = {}
    BY DEF Commits
  <2>3. Len(git) <= MaxCommits /\ runs \in 0..MaxRuns
    BY <2>2 DEF ImportAssumption
  <2>. QED  BY <2>1, <2>2, <2>3 DEF SourceInv
<1>2. Mapped = {}
  BY DEF Mapped
<1>3. StoreInv /\ RowsInv
  BY <1>2 DEF StoreInv, RowsInv
<1>. QED  BY <1>1, <1>3 DEF ImportInv, RunInv, LastInv

(* What the source's commits say, they say for ever.                       *)
LEMMA RowsStand ==
    ASSUME RowsInv, UNCHANGED rows, Commits \subseteq Commits',
           \A i \in Commits: git'[i] = git[i], objects \subseteq objects'
    PROVE  RowsInv'
<1>1. Mapped' = Mapped /\ Mapped \subseteq Commits
  BY DEF Mapped, RowsInv
<1>2. ASSUME NEW i \in Mapped
      PROVE  /\ rows'[i].gen \in Nat
             /\ Faithful(rows[i], i)'
             /\ Files(i)' \subseteq objects'
             /\ \A p \in ToSet(git'[i].parents): p \in Mapped /\ rows'[p].gen < rows'[i].gen
  <2>1. git'[i] = git[i]
    BY <1>1
  <2>2. Faithful(rows[i], i)'
    BY <2>1 DEF RowsInv, Faithful
  <2>3. Files(i)' = Files(i)
    BY <2>1 DEF Files
  <2>. QED  BY <2>1, <2>2, <2>3 DEF RowsInv
<1>. QED  BY <1>1, <1>2 DEF RowsInv

LEMMA GitSame ==
    ASSUME UNCHANGED git
    PROVE  /\ Commits' = Commits /\ Ancestors' = Ancestors
           /\ \A i: /\ Unsupported(i)' <=> Unsupported(i)
                    /\ Files(i)' = Files(i)
<1>1. Commits' = Commits
  BY DEF Commits
<1>2. Ancestors' = AncOf(git')
  BY DEF Ancestors, AncOf, Commits
<1>3. ASSUME NEW i
      PROVE  (Unsupported(i)' <=> Unsupported(i)) /\ Files(i)' = Files(i)
  BY DEF Unsupported, ChangesOf, FirstParentTree, Files
<1>. QED  BY <1>1, <1>2, <1>3, AncestorsOf

LEMMA SourceStep ==
    ASSUME ImportAssumption, ImportInv, Commit \/ Reset
    PROVE  ImportInv'
<1>. USE DEF ImportInv
<1>1. UNCHANGED <<store, run, last, runs>> /\ run' = None
  BY DEF Commit, Reset
<1>2. UNCHANGED <<tombs, csTombs, objects, rows, main>>
  BY <1>1 DEF store
<1>3. CASE Commit
  <2>. DEFINE V == [parents: Seq(Nat), tree: Trees, text: Seq(Chars)]
  <2>1. PICK ps \in UNION {[1..k -> Commits]: k \in 0..2}, t \in Trees:
          git' = Append(git, [parents |-> ps, tree |-> t, text |-> TextOf[Len(git) + 1]])
    BY <1>3 DEF Commit
  <2>. DEFINE c == [parents |-> ps, tree |-> t, text |-> TextOf[Len(git) + 1]]
  <2>2. PICK n \in Nat: n = Len(git)
    BY GitIs DEF SourceInv
  <2>3. n < MaxCommits /\ n + 1 \in 1..MaxCommits /\ n + 1 <= MaxCommits
    BY <1>3, <2>2 DEF Commit, ImportAssumption
  <2>4. Commits = 1..n
    BY <2>2, GitIs DEF SourceInv, Commits
  <2>5. ps \in Seq(Nat) /\ ToSet(ps) \subseteq 1..n
    <3>0. PICK k \in 0..2: ps \in [1..k -> Commits]
      BY <2>1
    <3>1. ps \in [1..k -> Nat] /\ k \in Nat
      BY <2>4, <3>0
    <3>2. ps \in Seq(Nat)
      BY <3>1
    <3>. QED  BY <2>4, <3>0, <3>2 DEF ToSet
  <2>6. TextOf[n + 1] \in Seq(Chars)
    <3>. DEFINE w == TextOf[n + 1]
    <3>1. w \in Seq(ToSet(w))
      BY <2>3 DEF ImportAssumption
    <3>2. ToSet(w) \subseteq Chars
      BY <2>3 DEF Chars
    <3>. HIDE DEF w
    <3>3. w \in Seq(Chars)
      BY <3>1, <3>2
    <3>. QED  BY <3>3 DEF w
  <2>7. c \in V /\ c.parents = ps /\ c.text = TextOf[n + 1]
    BY <2>2, <2>5, <2>6
  <2>8. git \in Seq(V) /\ git' = Append(git, c)
    BY <2>1 DEF SourceInv, GitOk
  <2>. HIDE DEF V, c
  <2>9. /\ git' \in Seq(V) /\ Len(git') = n + 1 /\ DOMAIN git' = 1..(n + 1)
        /\ \A i \in 1..n: git'[i] = git[i]
        /\ git'[n + 1] = c
    BY <2>2, <2>7, <2>8
  <2>10. GitOk(git')
    <3>1. ASSUME NEW i \in 1..(n + 1)
          PROVE  ToSet(git'[i].parents) \subseteq 1..(i - 1)
      <4>1. CASE i = n + 1
        BY <2>5, <2>7, <2>9, <4>1
      <4>2. CASE i # n + 1
        <5>1. i \in 1..n
          BY <4>2
        <5>. QED  BY <2>4, <2>9, <5>1 DEF SourceInv, GitOk, Commits
      <4>. QED  BY <4>1, <4>2
    <3>. QED  BY <2>9, <3>1 DEF GitOk, V
  <2>11. \A i \in 1..(n + 1): git'[i].text = TextOf[i]
    <3>1. \A i \in 1..(n + 1): i = n + 1 \/ i \in 1..n
      OBVIOUS
    <3>. QED  BY <2>4, <2>7, <2>9, <3>1 DEF SourceInv
  <2>12. Commits' = 1..(n + 1) /\ Commits \subseteq Commits' /\ head' \in Commits'
    BY <1>3, <2>2, <2>4, <2>9 DEF Commits, Commit
  <2>13. SourceInv'
    BY <1>1, <2>3, <2>9, <2>10, <2>11, <2>12 DEF SourceInv
  <2>14. RowsInv'
    BY <1>2, <2>4, <2>9, <2>12, RowsStand
  <2>. QED  BY <1>1, <1>2, <2>12, <2>13, <2>14 DEF StoreInv, RunInv, LastInv, Mapped
<1>4. CASE Reset
  <2>1. UNCHANGED git /\ head' \in Commits
    BY <1>4 DEF Reset
  <2>2. Commits' = Commits
    BY <2>1 DEF Commits
  <2>3. SourceInv'
    BY <1>1, <2>1, <2>2 DEF SourceInv
  <2>4. RowsInv'
    BY <1>2, <2>1, <2>2, RowsStand
  <2>. QED  BY <1>1, <1>2, <2>2, <2>3, <2>4 DEF StoreInv, RunInv, LastInv, Mapped
<1>. QED  BY <1>3, <1>4

LEMMA OthersStep ==
    ASSUME ImportAssumption, ImportInv, Mark \/ Land
    PROVE  ImportInv'
<1>. USE DEF ImportInv
<1>1. UNCHANGED <<git, head, objects, rows, run, last, runs>> /\ run' = None
  BY DEF Mark, Land
<1>2. Commits' = Commits /\ Mapped' = Mapped
  BY <1>1 DEF Commits, Mapped
<1>3. SourceInv' /\ RowsInv'
  <2>1. SourceInv'
    BY <1>1, <1>2 DEF SourceInv
  <2>. QED  BY <1>1, <1>2, <2>1, RowsStand
<1>4. CASE Mark
  <2>1. tombs' \subseteq Blobs /\ csTombs' \subseteq Commits /\ UNCHANGED main
    BY <1>4 DEF Mark, StoreInv, RowsInv
  <2>. QED  BY <1>1, <1>2, <1>3, <2>1 DEF StoreInv, RunInv, LastInv
<1>5. CASE Land
  <2>1. UNCHANGED <<tombs, csTombs>> /\ main' = Native
    BY <1>5 DEF Land
  <2>2. Native \notin Mapped
    BY GitIs DEF ImportAssumption, SourceInv, RowsInv, Commits
  <2>. QED  BY <1>1, <1>2, <1>3, <2>1, <2>2 DEF StoreInv, RunInv, LastInv
<1>. QED  BY <1>4, <1>5

(* A run that has ended.                                                   *)
LEMMA RunEnds ==
    ASSUME ImportInv, run' = None, UNCHANGED <<git, head, tombs, csTombs, rows, main>>,
           runs' \in 0..MaxRuns, objects \subseteq objects', objects' \subseteq Blobs,
           last'.main = "unchanged",
           last'.status \in {"aborted", "diverged"} => last'.imported = {}
    PROVE  ImportInv'
<1>. USE DEF ImportInv
<1>1. Commits' = Commits /\ Mapped' = Mapped
  BY DEF Commits, Mapped
<1>2. SourceInv'
  BY <1>1 DEF SourceInv
<1>3. RowsInv'
  BY <1>1, RowsStand
<1>. QED  BY <1>1, <1>2, <1>3 DEF StoreInv, RunInv, LastInv

(* A run begins with what is ready of what its head reaches.               *)
LEMMA BeginStep ==
    ASSUME ImportAssumption, ImportInv, ImportBegin
    PROVE  ImportInv'
<1>. USE DEF ImportInv
<1>1. /\ run = None /\ runs < MaxRuns /\ head \in Commits /\ runs' = runs + 1
      /\ UNCHANGED <<git, head, tombs, csTombs, objects, rows, main>>
  BY DEF ImportBegin, store, SourceInv
<1>2. runs' \in 0..MaxRuns
  BY <1>1 DEF SourceInv, ImportAssumption
<1>3. Commits' = Commits /\ Mapped' = Mapped /\ Ancestors' = Ancestors
  BY <1>1, GitSame DEF Mapped
<1>. DEFINE batch == collect_ancestors
            importable == {i \in batch: Ready[i]}
            offending == {i \in batch: Unsupported(i)}
            R(opts) == [pc |-> "blobs", head |-> head, opts |-> opts,
                        importable |-> importable, todo |-> importable,
                        skipped |-> batch \ importable, main |-> main]
            nothing(opts) == [R(opts) EXCEPT !.importable = {}, !.todo = {}]
<1>4. PICK opts \in Options:
        \/ \E st \in {"ok", "diverged", "aborted"}:
             run' = None /\ last' = Ended(st, "unchanged", nothing(opts))
        \/ /\ batch # {} /\ (main \in Mapped => is_ancestor(main, head))
           /\ run' = R(opts) /\ UNCHANGED last
  <2>1. PICK opts \in Options:
          CASE batch = {} ->
                 run' = None /\ last' = Ended("ok", "unchanged", nothing(opts))
            [] batch # {} /\ main \in Mapped /\ ~is_ancestor(main, head) ->
                 run' = None /\ last' = Ended("diverged", "unchanged", nothing(opts))
            [] batch # {} /\ (main \in Mapped => is_ancestor(main, head))
               /\ offending # {} /\ ~opts.skip ->
                 run' = None /\ last' = Ended("aborted", "unchanged", nothing(opts))
            [] OTHER -> run' = R(opts) /\ UNCHANGED last
    BY DEF ImportBegin
  <2>. HIDE DEF batch, R, nothing, offending
  <2>2. CASE batch = {}
    BY <2>1, <2>2
  <2>3. CASE batch # {} /\ main \in Mapped /\ ~is_ancestor(main, head)
    BY <2>1, <2>3
  <2>4. CASE /\ batch # {} /\ (main \in Mapped => is_ancestor(main, head))
             /\ offending # {} /\ ~opts.skip
    BY <2>1, <2>4
  <2>5. CASE /\ batch # {} /\ (main \in Mapped => is_ancestor(main, head))
             /\ ~(offending # {} /\ ~opts.skip)
    BY <2>1, <2>5
  <2>. QED  BY <2>2, <2>3, <2>4, <2>5
<1>5. CASE \E st \in {"ok", "diverged", "aborted"}:
             run' = None /\ last' = Ended(st, "unchanged", nothing(opts))
  <2>1. nothing(opts).importable = {} /\ nothing(opts).todo = {}
    OBVIOUS
  <2>. HIDE DEF nothing
  <2>2. run' = None /\ last'.main = "unchanged" /\ last'.imported = {}
    BY <1>5, <2>1 DEF Ended
  <2>. QED  BY <1>1, <1>2, <2>2, RunEnds DEF StoreInv
<1>6. CASE /\ batch # {} /\ (main \in Mapped => is_ancestor(main, head))
           /\ run' = R(opts) /\ UNCHANGED last
  <2>1. /\ batch \subseteq Ancestors[head] \ Mapped
        /\ head \notin Mapped => head \in batch
        /\ \A j \in batch: ToSet(git[j].parents) \subseteq Mapped \cup batch
    BY <1>1, ReachAre DEF collect_ancestors
  <2>2. head \notin Mapped
    BY <1>1, <1>6, ReachIs DEF collect_ancestors
  <2>3. batch \subseteq Commits
    BY <1>1, <2>1, AncestorsBelow
  <2>4. \A i \in importable: /\ ~Unsupported(i)
                             /\ ToSet(git[i].parents) \subseteq Mapped \cup importable
    BY <2>1, <2>3, ReadyIs
  <2>. HIDE DEF batch
  <2>5. /\ run'.pc = "blobs" /\ run'.head = head /\ run'.opts = opts
        /\ run'.importable = importable /\ run'.todo = importable
        /\ run'.skipped = batch \ importable /\ run'.main = main
        /\ run' \in [pc: {"blobs", "rows"}, head: Commits, opts: Options,
                     importable: SUBSET Commits, todo: SUBSET Commits, skipped: SUBSET Commits,
                     main: Mapped \cup {None, Native}]
    BY <1>1, <1>6, <2>3 DEF StoreInv
  <2>6. SourceInv' /\ RowsInv'
    <3>1. SourceInv'
      BY <1>1, <1>2, <1>3 DEF SourceInv
    <3>. QED  BY <1>1, <1>3, <3>1, RowsStand
  <2>7. Takes(run)'
    <3>1. importable \subseteq Ancestors[head] /\ importable \cap Mapped = {}
      BY <2>1
    <3>2. \A i: Unsupported(i)' <=> Unsupported(i)
      BY <1>1, GitSame
    <3>. HIDE DEF importable
    <3>. QED  BY <1>1, <1>3, <2>4, <2>5, <3>1, <3>2 DEF Takes
  <2>8. RunInv'
    <3>1. run' \in RunType' /\ run'.main = main'
      BY <1>1, <1>3, <2>5 DEF RunType
    <3>2. run'.skipped = {} => run'.head \in run'.importable
      BY <2>1, <2>2, <2>5
    <3>3. main' \in Mapped' => main' \in Ancestors'[run'.head] \ run'.importable
      BY <1>1, <1>3, <1>6, <2>1, <2>5 DEF is_ancestor
    <3>4. run'.pc # "rows"
      BY <2>5
    <3>. QED  BY <2>7, <3>1, <3>2, <3>3, <3>4 DEF RunInv
  <2>. QED  BY <1>1, <1>3, <1>6, <2>6, <2>8 DEF StoreInv, LastInv
<1>. QED  BY <1>4, <1>5, <1>6

(* The next commit of a run, whose parents are mapped.                     *)
LEMMA NextCommit ==
    ASSUME SourceInv, RowsInv, RunInv, run # None, run.todo # {}
    PROVE  /\ Min(run.todo) \in run.todo /\ Min(run.todo) \in Commits \ Mapped
           /\ ~Unsupported(Min(run.todo))
           /\ ToSet(git[Min(run.todo)].parents) \subseteq Mapped
<1>. DEFINE i == Min(run.todo)
<1>1. run.todo \subseteq Commits /\ Commits \subseteq Nat
  BY GitIs DEF RunInv, RunType, SourceInv, Commits
<1>2. i \in run.todo /\ \A j \in run.todo: i <= j
  BY <1>1, MinIs
<1>. HIDE DEF i
<1>3. /\ i \in Commits \ Mapped /\ ~Unsupported(i)
      /\ ToSet(git[i].parents) \subseteq Mapped \cup run.todo
  BY <1>1, <1>2 DEF RunInv, Takes
<1>4. ASSUME NEW p \in ToSet(git[i].parents)
      PROVE  p \notin run.todo
  <2>1. p < i /\ p \in Commits
    BY <1>3, GitIs DEF SourceInv, Commits
  <2>2. p \in Nat /\ i \in Nat
    BY <1>1, <1>3, <2>1
  <2>. QED  BY <1>2, <2>1, <2>2
<1>. QED  BY <1>2, <1>3, <1>4 DEF i

LEMMA BlobsStep ==
    ASSUME ImportAssumption, ImportInv, ImportBlobs
    PROVE  ImportInv'
<1>. USE DEF ImportInv
<1>. DEFINE i == Min(run.todo)
            blobs == ChangedFiles(i) \cup Files(i)
<1>1. /\ run # None /\ run.pc = "blobs" /\ run.todo # {}
      /\ UNCHANGED <<git, head, tombs, csTombs, rows, main, runs>>
      /\ \/ /\ \E put \in SUBSET (blobs \ tombs): objects' = objects \cup put
            /\ run' = None
            /\ last' = Ended("redacted", "unchanged", run)
         \/ /\ objects' = objects \cup blobs
            /\ run' = [run EXCEPT !.pc = "rows"]
            /\ UNCHANGED last
  BY DEF ImportBlobs
<1>2. i \in Commits /\ ~Unsupported(i)
  BY <1>1, NextCommit
<1>3. blobs \subseteq Blobs
  BY <1>2, FilesAre
<1>4. objects \subseteq objects' /\ objects' \subseteq Blobs
  BY <1>1, <1>3 DEF StoreInv
<1>5. CASE run' = None /\ last' = Ended("redacted", "unchanged", run)
  <2>1. last'.main = "unchanged" /\ last'.status = "redacted"
    BY <1>5 DEF Ended
  <2>. QED  BY <1>1, <1>4, <1>5, <2>1, RunEnds DEF SourceInv
<1>6. CASE /\ objects' = objects \cup blobs
           /\ run' = [run EXCEPT !.pc = "rows"]
           /\ UNCHANGED last
  <2>1. Commits' = Commits /\ Mapped' = Mapped /\ Ancestors' = Ancestors
    BY <1>1, GitSame DEF Mapped
  <2>2. SourceInv' /\ RowsInv'
    <3>1. SourceInv'
      BY <1>1, <2>1 DEF SourceInv
    <3>. QED  BY <1>1, <1>4, <2>1, <3>1, RowsStand
  <2>3. run \in RunType
    BY <1>1 DEF RunInv
  <2>4. /\ run'.pc = "rows" /\ run'.head = run.head /\ run'.opts = run.opts
        /\ run'.importable = run.importable /\ run'.todo = run.todo
        /\ run'.skipped = run.skipped /\ run'.main = run.main /\ run' \in RunType
    BY <1>6, <2>3 DEF RunType
  <2>5. RunType' = RunType
    BY <2>1 DEF RunType
  <2>6. Takes(run)'
    <3>1. \A j: Unsupported(j)' <=> Unsupported(j)
      BY <1>1, GitSame
    <3>2. Takes(run)
      BY <1>1 DEF RunInv
    <3>. QED  BY <1>1, <2>1, <2>4, <3>1, <3>2 DEF Takes
  <2>7. Files(Min(run.todo))' \subseteq objects'
    <3>1. Files(Min(run.todo))' = Files(i)
      BY <1>1, <2>4 DEF Files
    <3>. QED  BY <1>6, <3>1
  <2>8. RunInv'
    BY <1>1, <2>1, <2>4, <2>5, <2>6, <2>7 DEF RunInv
  <2>. QED  BY <1>1, <1>4, <1>6, <2>1, <2>2, <2>8 DEF StoreInv, LastInv
<1>. QED  BY <1>1, <1>5, <1>6

LEMMA CrashStep ==
    ASSUME ImportAssumption, ImportInv, ImportCrash
    PROVE  ImportInv'
<1>1. /\ run' = None /\ UNCHANGED <<git, head, tombs, csTombs, objects, rows, main, runs>>
      /\ last'.main = "unchanged" /\ last'.status = "crashed"
  BY DEF ImportCrash, store, Ended
<1>. QED  BY <1>1, RunEnds DEF ImportInv, SourceInv, StoreInv

(* The changeset of a commit is the commit's.                              *)
LEMMA PreparedIs ==
    ASSUME ImportAssumption, SourceInv, RowsInv, NEW i \in Commits \ Mapped, ~Unsupported(i),
           ToSet(git[i].parents) \subseteq Mapped, NEW sanitize \in BOOLEAN
    PROVE  /\ Prepared(i, sanitize).gen \in Nat
           /\ \A p \in ToSet(git[i].parents): rows[p].gen < Prepared(i, sanitize).gen
           /\ Faithful(Prepared(i, sanitize), i)
<1>. DEFINE r == Prepared(i, sanitize)
            x == git[i].text
<1>1. /\ r.gen = Gen[i] /\ r.parents = git[i].parents /\ r.tree = git[i].tree
      /\ r.escaped = (sanitize /\ offends_text_rule(x))
      /\ r.text = IF sanitize THEN escape_text_lossless(x) ELSE sanitize_pair(x)
  BY DEF Prepared
<1>2. x \in Seq(Chars)
  BY GitIs DEF SourceInv, Commits
<1>. HIDE DEF r, x
<1>3. r.gen \in Nat /\ \A p \in ToSet(git[i].parents): rows[p].gen < r.gen
  BY <1>1, GenIs
<1>4. ~offends_text_rule(r.text)
  BY <1>1, <1>2, CleanTexts
<1>5. ASSUME r.escaped
      PROVE  unescape_text_lossless(r.text) = x
  <2>1. sanitize /\ offends_text_rule(x)
    BY <1>1, <1>5, Zenon
  <2>2. r.text = escape_text_lossless(x)
    BY <1>1, <2>1
  <2>. QED  BY <1>2, <2>1, <2>2, RoundTrip
<1>6. \A p \in Paths: git[i].tree[p] # Link
  BY TreeIs
<1>7. Faithful(r, i)
  BY <1>1, <1>4, <1>5, <1>6 DEF Faithful, x
<1>. QED  BY <1>3, <1>7 DEF r

LEMMA RowsStep ==
    ASSUME ImportAssumption, ImportInv, ImportRows
    PROVE  ImportInv'
<1>. USE DEF ImportInv
<1>. DEFINE i == Min(run.todo)
            row == Prepared(i, run.opts.sanitize)
<1>1. /\ run # None /\ run.pc = "rows"
      /\ UNCHANGED <<git, head, tombs, csTombs, objects, main, last, runs>>
      /\ rows' = [j \in Mapped \cup {i} |-> IF j = i THEN row ELSE rows[j]]
      /\ run' = [run EXCEPT !.pc = "blobs", !.todo = @ \ {i}]
  BY DEF ImportRows
<1>2. /\ run \in RunType /\ run.main = main /\ Takes(run)
      /\ run.todo # {} /\ Files(i) \subseteq objects
  BY <1>1 DEF RunInv
<1>3. /\ i \in run.todo /\ i \in Commits \ Mapped /\ ~Unsupported(i)
      /\ ToSet(git[i].parents) \subseteq Mapped
  BY <1>1, <1>2, NextCommit
<1>4. run.opts.sanitize \in BOOLEAN
  BY <1>2 DEF RunType, ImportAssumption
<1>5. /\ row.gen \in Nat
      /\ \A p \in ToSet(git[i].parents): rows[p].gen < row.gen
      /\ Faithful(row, i)
  BY <1>3, <1>4, PreparedIs
<1>6. Commits' = Commits /\ Ancestors' = Ancestors /\ Commits \subseteq Nat
  BY <1>1, GitSame, GitIs DEF SourceInv, Commits
<1>. HIDE DEF i, row
<1>7. Mapped' = Mapped \cup {i}
  BY <1>1 DEF Mapped
<1>8. rows'[i] = row /\ \A j \in Mapped: rows'[j] = rows[j]
  BY <1>1, <1>3
<1>9. SourceInv'
  BY <1>1, <1>6 DEF SourceInv
<1>10. main \in Mapped' => main \in Mapped
  <2>1. main # i
    BY <1>3, <1>6 DEF StoreInv, ImportAssumption
  <2>. QED  BY <1>7, <2>1
<1>11. RowsInv'
  <2>1. Mapped' \subseteq Commits'
    BY <1>3, <1>6, <1>7 DEF RowsInv
  <2>2. ASSUME NEW j \in Mapped'
        PROVE  /\ rows'[j].gen \in Nat
               /\ Faithful(rows[j], j)'
               /\ Files(j)' \subseteq objects'
               /\ \A p \in ToSet(git'[j].parents): p \in Mapped' /\ rows'[p].gen < rows'[j].gen
    <3>1. Files(j)' = Files(j)
      BY <1>1 DEF Files
    <3>2. CASE j = i
      <4>1. Faithful(rows[j], j)'
        BY <1>1, <1>5, <1>8, <3>2 DEF Faithful
      <4>. QED  BY <1>1, <1>2, <1>3, <1>5, <1>7, <1>8, <3>1, <3>2, <4>1
    <3>3. CASE j # i
      <4>1. j \in Mapped
        BY <1>7, <3>3
      <4>2. Faithful(rows[j], j)'
        BY <1>1, <1>8, <4>1 DEF RowsInv, Faithful
      <4>3. /\ rows[j].gen \in Nat /\ Files(j) \subseteq objects
            /\ \A p \in ToSet(git[j].parents): p \in Mapped /\ rows[p].gen < rows[j].gen
        BY <4>1 DEF RowsInv
      <4>. QED  BY <1>1, <1>7, <1>8, <3>1, <4>1, <4>2, <4>3
    <3>. QED  BY <3>2, <3>3
  <2>. QED  BY <2>1, <2>2 DEF RowsInv
<1>12. /\ run'.pc = "blobs" /\ run'.head = run.head /\ run'.importable = run.importable
       /\ run'.todo = run.todo \ {i} /\ run'.skipped = run.skipped /\ run'.main = run.main
       /\ run' \in RunType'
  BY <1>1, <1>2, <1>6, <1>7 DEF RunType
<1>13. Takes(run)'
  <2>1. \A j: Unsupported(j)' <=> Unsupported(j)
    BY <1>1, GitSame
  <2>2. /\ run.todo \subseteq run.importable
        /\ run.importable \subseteq Ancestors[run.head]
        /\ run.importable \ run.todo \subseteq Mapped
        /\ run.todo \cap Mapped = {}
        /\ \A j \in run.todo: /\ ~Unsupported(j)
                              /\ ToSet(git[j].parents) \subseteq Mapped \cup run.todo
    BY <1>2 DEF Takes
  <2>3. \A j \in run.todo \ {i}: ToSet(git[j].parents) \subseteq Mapped' \cup (run.todo \ {i})
    BY <1>7, <2>2
  <2>4. /\ run.importable \ (run.todo \ {i}) \subseteq Mapped'
        /\ (run.todo \ {i}) \cap Mapped' = {}
    BY <1>7, <2>2
  <2>. QED  BY <1>1, <1>6, <1>12, <2>1, <2>2, <2>3, <2>4 DEF Takes
<1>14. RunInv'
  <2>1. run'.skipped = {} => run'.head \in run'.importable
    BY <1>1, <1>12 DEF RunInv
  <2>2. main' \in Mapped' => main' \in Ancestors'[run'.head] \ run'.importable
    BY <1>1, <1>6, <1>10, <1>12 DEF RunInv
  <2>. QED  BY <1>1, <1>2, <1>12, <1>13, <2>1, <2>2 DEF RunInv
<1>15. StoreInv' /\ LastInv'
  BY <1>1, <1>6, <1>7, <1>10 DEF StoreInv, LastInv
<1>. QED  BY <1>9, <1>11, <1>14, <1>15

(* Where main goes.                                                        *)
LEMMA GraftIs ==
    ASSUME ImportAssumption, ImportInv, GraftMain
    PROVE  /\ run # None /\ run' = None /\ run.main = main
           /\ UNCHANGED <<git, head, tombs, csTombs, objects, rows, runs>>
           /\ run.importable \subseteq Mapped
           /\ \/ main' = main /\ last'.main \in {"unchanged", "refused"}
              \/ /\ run.importable # {} /\ main = None /\ main' = Best(run.importable)
              \/ /\ main \in Mapped /\ Descending(main) # {} /\ main' = Best(Descending(main))
           /\ last'.status = "ok" /\ last'.skipped = run.skipped /\ last'.head = run.head
<1>. USE DEF ImportInv
<1>1. /\ run # None /\ run' = None /\ run.todo = {}
      /\ UNCHANGED <<git, head, tombs, csTombs, objects, rows, runs>>
  BY DEF GraftMain
<1>2. run.main = main /\ run.importable \subseteq Mapped
  BY <1>1 DEF RunInv, Takes
<1>3. Native # None /\ main \in Mapped \cup {None, Native}
  BY DEF ImportAssumption, StoreInv
<1>4. CASE run.importable = {}
  <2>1. main' = main /\ last' = Ended("ok", "unchanged", run)
    BY <1>4 DEF GraftMain
  <2>. QED  BY <1>1, <1>2, <2>1 DEF Ended
<1>5. CASE run.importable # {} /\ main = None
  <2>1. main' = Best(run.importable) /\ last' = Ended("ok", "set", run)
    BY <1>2, <1>3, <1>5 DEF GraftMain, ref_move, longest_chain_head
  <2>. QED  BY <1>1, <1>2, <1>5, <2>1 DEF Ended
<1>6. CASE run.importable # {} /\ main = Native
  <2>1. main' = main /\ last' = Ended("ok", "refused", run)
    BY <1>2, <1>3, <1>6 DEF GraftMain
  <2>. QED  BY <1>1, <1>2, <2>1 DEF Ended
<1>7. CASE run.importable # {} /\ main # None /\ main # Native
  <2>1. /\ main' = chain_descending_from(main)
        /\ last' = Ended("ok", IF main' = main THEN "unchanged" ELSE "moved", run)
    BY <1>2, <1>7 DEF GraftMain, ref_move
  <2>2. main' = IF Descending(main) = {} THEN main ELSE Best(Descending(main))
    BY <2>1 DEF chain_descending_from
  <2>3. last'.status = "ok" /\ last'.skipped = run.skipped /\ last'.head = run.head
    BY <2>1 DEF Ended
  <2>4. main' = main => last'.main = "unchanged"
    BY <2>1 DEF Ended
  <2>. QED  BY <1>1, <1>2, <1>3, <1>7, <2>2, <2>3, <2>4
<1>. QED  BY <1>4, <1>5, <1>6, <1>7

LEMMA GraftStep ==
    ASSUME ImportAssumption, ImportInv, GraftMain
    PROVE  /\ ImportInv'
           /\ main # None /\ main' # main => main # Native /\ main \in Descent'[main']
<1>. USE DEF ImportInv
<1>1. /\ run # None /\ run' = None /\ run.main = main
      /\ UNCHANGED <<git, head, tombs, csTombs, objects, rows, runs>>
      /\ run.importable \subseteq Mapped
      /\ \/ main' = main /\ last'.main \in {"unchanged", "refused"}
         \/ /\ run.importable # {} /\ main = None /\ main' = Best(run.importable)
         \/ /\ main \in Mapped /\ Descending(main) # {} /\ main' = Best(Descending(main))
      /\ last'.status = "ok" /\ last'.skipped = run.skipped /\ last'.head = run.head
  BY GraftIs
<1>2. Commits' = Commits /\ Mapped' = Mapped /\ Descent' = Descent
  BY <1>1 DEF Commits, Mapped, Descent
<1>3. SourceInv' /\ RowsInv'
  <2>1. SourceInv'
    BY <1>1, <1>2 DEF SourceInv
  <2>. QED  BY <1>1, <1>2, <2>1, RowsStand
<1>4. Descending(main) \subseteq run.importable /\ \A i \in Descending(main): main \in Descent[i]
  BY DEF Descending
<1>5. ASSUME NEW s, s \subseteq run.importable, s # {}, main' = Best(s),
             run.skipped = {} => run.head \in s
      PROVE  main' \in s /\ (run.skipped = {} => main' = run.head)
  <2>1. s \subseteq Mapped
    BY <1>1, <1>5
  <2>2. main' \in s
    BY <1>5, <2>1, BestIs
  <2>3. ASSUME run.skipped = {} PROVE main' = run.head
    <3>1. run.head \in s /\ run.head \in Mapped
      BY <1>5, <2>1, <2>3
    <3>2. run.importable \subseteq Ancestors[run.head]
      BY <1>1 DEF RunInv, Takes
    <3>3. \A j \in s: rows[j].gen <= rows[run.head].gen
      BY <1>5, <3>1, <3>2, MappedBelow
    <3>. QED  BY <1>5, <2>1, <3>1, <3>3, BestIs
  <2>. QED  BY <2>2, <2>3
<1>6. run.skipped = {} => run.head \in run.importable
  BY <1>1 DEF RunInv
<1>7. main \in Mapped /\ run.skipped = {} => run.head \in Descending(main)
  <2>. SUFFICES ASSUME main \in Mapped, run.skipped = {} PROVE run.head \in Descending(main)
    OBVIOUS
  <2>1. run.head \in run.importable /\ run.head \in Mapped
    BY <1>1, <1>6
  <2>2. main \in Ancestors[run.head] /\ main # run.head
    BY <1>1, <2>1 DEF RunInv
  <2>3. main \in Descent[run.head]
    BY <2>1, <2>2, MappedBelow
  <2>. QED  BY <2>1, <2>3 DEF Descending
<1>8. \/ main' = main /\ last'.main \in {"unchanged", "refused"}
      \/ /\ main' \in Mapped /\ (run.skipped = {} => main' = run.head)
         /\ main # None => main # Native /\ main \in Descent[main']
  <2>1. CASE run.importable # {} /\ main = None /\ main' = Best(run.importable)
    BY <1>1, <1>5, <1>6, <2>1
  <2>2. CASE main \in Mapped /\ Descending(main) # {} /\ main' = Best(Descending(main))
    <3>1. main' \in Descending(main) /\ (run.skipped = {} => main' = run.head)
      BY <1>4, <1>5, <1>7, <2>2
    <3>2. main # Native
      BY <2>2, GitIs DEF ImportAssumption, SourceInv, RowsInv, Commits
    <3>. QED  BY <1>1, <1>4, <3>1, <3>2
  <2>. QED  BY <1>1, <2>1, <2>2
<1>9. StoreInv' /\ LastInv'
  BY <1>1, <1>2, <1>8 DEF StoreInv, LastInv
<1>10. RunInv'
  BY <1>1 DEF RunInv
<1>. QED  BY <1>2, <1>3, <1>8, <1>9, <1>10

LEMMA ImportNext ==
    ASSUME ImportAssumption, ImportInv, [Next]_vars
    PROVE  ImportInv'
<1>1. CASE UNCHANGED vars
  <2>1. /\ UNCHANGED <<git, head, tombs, csTombs, objects, rows, main, run, last, runs>>
    BY <1>1 DEF vars
  <2>2. Commits' = Commits /\ Mapped' = Mapped /\ Ancestors' = Ancestors
    BY <2>1, GitSame DEF Mapped
  <2>3. SourceInv' /\ RowsInv'
    <3>1. SourceInv'
      BY <2>1, <2>2 DEF ImportInv, SourceInv
    <3>. QED  BY <2>1, <2>2, <3>1, RowsStand DEF ImportInv
  <2>4. Takes(run)' <=> Takes(run)
    BY <2>1, <2>2, GitSame DEF Takes
  <2>5. Files(Min(run.todo))' = Files(Min(run.todo))
    BY <2>1 DEF Files
  <2>6. RunInv'
    BY <2>1, <2>2, <2>4, <2>5 DEF ImportInv, RunInv, RunType
  <2>. QED  BY <2>1, <2>2, <2>3, <2>6 DEF ImportInv, StoreInv, LastInv
<1>. QED
  BY <1>1, SourceStep, OthersStep, BeginStep, BlobsStep, RowsStep, GraftStep, CrashStep
  DEF Next

-----------------------------------------------------------------------------
(* What the invariant says of the import.                                  *)

(* import.rs: what is imported is the source's history, its texts          *)
(* included, and a run did what it says.                                   *)
LEMMA ImportHolds ==
    ASSUME ImportInv
    PROVE  TypeOK /\ HistoryKept /\ RunsComplete
<1>. USE DEF ImportInv
<1>1. TypeOK
  <2>1. \A i \in Commits: ToSet(git[i].parents) \subseteq 1..(i - 1) /\ git[i].tree \in Trees
    BY GitIs DEF SourceInv, GitOk, Commits
  <2>2. run = None \/ run.todo \subseteq Commits
    BY DEF RunInv, RunType
  <2>. QED  BY <2>1, <2>2 DEF TypeOK, SourceInv, StoreInv, RowsInv
<1>2. HistoryKept
  <2>. SUFFICES ASSUME NEW i \in Mapped
                PROVE  /\ ToSet(rows[i].parents) \subseteq Mapped
                       /\ \A p \in ToSet(rows[i].parents): rows[p].gen < rows[i].gen
                       /\ \A p \in Paths: rows[i].tree[p] \in objects \cup {None}
                       /\ ~offends_text_rule(rows[i].text)
                       /\ rows[i].escaped => unescape_text_lossless(rows[i].text) = git[i].text
    BY DEF HistoryKept
  <2>1. /\ Faithful(rows[i], i) /\ Files(i) \subseteq objects
        /\ \A p \in ToSet(git[i].parents): p \in Mapped /\ rows[p].gen < rows[i].gen
    BY DEF RowsInv
  <2>2. \A p \in Paths: git[i].tree[p] \in objects \cup {None}
    BY <2>1 DEF Faithful, Files
  <2>. QED  BY <2>1, <2>2 DEF Faithful
<1>3. RunsComplete
  BY DEF LastInv, RunsComplete
<1>. QED  BY <1>1, <1>2, <1>3

(* graft_main: main is the import's to move, and only forward.             *)
LEMMA MainForward ==
    ASSUME ImportAssumption, ImportInv, [Next]_vars
    PROVE  [GraftMain /\ main # None /\ main' # main =>
              main # Native /\ main \in Descent'[main']]_vars
BY GraftStep
=============================================================================
