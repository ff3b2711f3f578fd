-------------------------- MODULE AlgorithmsProofs --------------------------
(* What the sequential parts promise, for every input: the chunks that are *)
(* made of a file (Chunking), the analysis that is brought into shape      *)
(* (Normalizer) and the two rankings that are fused into one (Retrieval).  *)
(* None speaks of another's variables.  What loops compute is proved by    *)
(* Counting, an induction that needs no more than sets.                    *)
EXTENDS Chunking, Normalizer, Retrieval, FiniteSetTheorems, WellFoundedInduction, TLAPS

-----------------------------------------------------------------------------
(* Counting                                                                *)

(* Of some numbers one is the least.                                       *)
LEMMA LeastIn ==
  ASSUME NEW S \in SUBSET Nat, S # {}
  PROVE  \E m \in S : \A n \in S : m <= n
<1> DEFINE Less == OpToRel(<, Nat)
<1>1. IsWellFoundedOn(Less, Nat)
  BY NatLessThanWellFounded
<1>2. \A a, b \in Nat : a < b => <<a, b>> \in Less
  BY DEF OpToRel
<1> HIDE DEF Less
<1>3. PICK m \in S : \A n \in S : <<n, m>> \notin Less
  BY <1>1, WFMin
<1>4. ASSUME NEW n \in S PROVE m <= n
  <2>1. m \in Nat /\ n \in Nat /\ ~(n < m)
    BY <1>2, <1>3
  <2> QED
    BY <2>1
<1> QED
  BY <1>4

(* What holds of 1 and goes from each number to the next holds of all.     *)
LEMMA Counting ==
  ASSUME NEW N \in Nat, NEW S, 1 \in S, \A n \in 1..N : n \in S /\ n < N => n + 1 \in S
  PROVE  1..N \subseteq S
<1> SUFFICES ASSUME NEW x \in 1..N, x \notin S PROVE FALSE
  OBVIOUS
<1> DEFINE Out == {n \in 1..N : n \notin S}
<1>1. Out \in SUBSET Nat /\ x \in Out
  OBVIOUS
<1>2. PICK m \in Out : \A n \in Out : m <= n
  BY <1>1, LeastIn
<1>3. m \in 1..N /\ m \notin S /\ m # 1
  BY <1>2
<1>4. m - 1 \in 1..N /\ m - 1 \notin Out /\ m - 1 < N /\ (m - 1) + 1 = m
  BY <1>2, <1>3
<1> QED
  BY <1>3, <1>4

-----------------------------------------------------------------------------
(* The text of some elements                                               *)

Index == DOMAIN elems

(* What the join has after each element.                                   *)
Loop(s, f) == f = [n \in 1..Len(s) |-> IF n = 1 THEN TextOf(s[1]) ELSE Joined(f[n - 1], TextOf(s[n]))]

LEMMA LoopExists ==
  ASSUME NEW s, Len(s) \in Nat \ {0}
  PROVE  \E f : Loop(s, f)
<1> DEFINE N == Len(s)
<1> DEFINE Built == {n \in 1..N : \E f : f = [k \in 1..n |-> IF k = 1 THEN TextOf(s[1])
                                                  ELSE Joined(f[k - 1], TextOf(s[k]))]}
<1>1. 1 \in Built
  <2> DEFINE f == [k \in 1..1 |-> TextOf(s[1])]
  <2>1. f = [k \in 1..1 |-> IF k = 1 THEN TextOf(s[1]) ELSE Joined(f[k - 1], TextOf(s[k]))]
    OBVIOUS
  <2>2. 1 \in 1..N
    OBVIOUS
  <2> HIDE DEF f
  <2> QED
    BY <2>1, <2>2
<1>2. ASSUME NEW n \in 1..N, n \in Built, n < N PROVE n + 1 \in Built
  <2>1. PICK f : f = [k \in 1..n |-> IF k = 1 THEN TextOf(s[1]) ELSE Joined(f[k - 1], TextOf(s[k]))]
    BY <1>2
  <2> DEFINE g == [k \in 1..(n + 1) |-> IF k <= n THEN f[k] ELSE Joined(f[n], TextOf(s[n + 1]))]
  <2>2. ASSUME NEW k \in 1..(n + 1)
        PROVE  g[k] = IF k = 1 THEN TextOf(s[1]) ELSE Joined(g[k - 1], TextOf(s[k]))
    <3>1. CASE k <= n
      <4>1. k \in 1..n /\ g[k] = f[k] /\ (k # 1 => g[k - 1] = f[k - 1])
        BY <3>1
      <4> QED
        BY <2>1, <4>1
    <3>2. CASE k = n + 1
      <4>1. g[k] = Joined(f[n], TextOf(s[n + 1])) /\ g[k - 1] = f[n] /\ k # 1
        BY <3>2
      <4> QED
        BY <3>2, <4>1
    <3> QED
      BY <3>1, <3>2
  <2>3. g = [k \in 1..(n + 1) |-> IF k = 1 THEN TextOf(s[1]) ELSE Joined(g[k - 1], TextOf(s[k]))]
    BY <2>2
  <2>4. n + 1 \in 1..N
    BY <1>2
  <2> HIDE DEF g
  <2> QED
    BY <2>3, <2>4
<1> HIDE DEF Built
<1>3. 1..N \subseteq Built
  BY <1>1, <1>2, Counting
<1>4. N \in Built
  BY <1>3
<1> QED
  BY <1>4 DEF Built, Loop

LEMMA LoopIs ==
  ASSUME NEW s, Len(s) \in Nat \ {0}
  PROVE  \E f : Loop(s, f) /\ TextOfAll(s) = f[Len(s)]
<1> DEFINE f == CHOOSE f : Loop(s, f)
<1>1. Loop(s, f)
  BY LoopExists
<1>2. TextOfAll(s) = f[Len(s)]
  BY DEF TextOfAll, Loop
<1> QED
  BY <1>1, <1>2
Elements == [type: STRING, level: Nat, page: Nat, top: Int, size: Nat, nums: SUBSET Nat]

LEMMA TextOfIndex ==
  ASSUME elems \in Seq(Elements), NEW i \in Index
  PROVE  TextOf(i) \in Measured /\ TextOf(i).nums = elems[i].nums
<1>1. elems[i] \in Elements
  BY DEF Index
<1> QED
  BY <1>1 DEF TextOf, Measured, Elements

LEMMA JoinedTyped ==
  ASSUME NEW a \in Measured, NEW b \in Measured
  PROVE  /\ Joined(a, b) \in Measured
         /\ Joined(a, b).size = a.size + b.size + 2 /\ Joined(a, b).nums = a.nums \cup b.nums
BY DEF Joined, Measured

LEMMA JoinedInTurn ==
  ASSUME NEW a \in Measured, NEW b \in Measured, NEW c \in Measured
  PROVE  Joined(Joined(a, b), c) = Joined(a, Joined(b, c))
<1>1. {a.size, b.size, c.size} \subseteq Nat
  BY DEF Measured
<1>2. (a.size + b.size + 2) + c.size + 2 = a.size + (b.size + c.size + 2) + 2
  BY <1>1
<1>3. (a.nums \cup b.nums) \cup c.nums = a.nums \cup (b.nums \cup c.nums)
  OBVIOUS
<1> QED
  BY <1>2, <1>3 DEF Joined

LEMMA LoopFacts ==
  ASSUME elems \in Seq(Elements), NEW s \in Seq(Index), NEW f, Loop(s, f), s # <<>>
  PROVE  \A n \in 1..Len(s) :
           f[n] \in Measured /\ \A k \in 1..n : elems[s[k]].nums \subseteq f[n].nums
<1> DEFINE Good == {n \in 1..Len(s) : /\ f[n] \in Measured
                                     /\ \A k \in 1..n : elems[s[k]].nums \subseteq f[n].nums}
<1>0. Len(s) \in Nat \ {0} /\ \A n \in 1..Len(s) : s[n] \in Index
  OBVIOUS
<1>1. 1 \in Good
  <2>1. f[1] = TextOf(s[1]) /\ 1 \in 1..Len(s)
    BY <1>0 DEF Loop
  <2> QED
    BY <1>0, <2>1, TextOfIndex
<1>2. ASSUME NEW n \in 1..Len(s), n \in Good, n < Len(s) PROVE n + 1 \in Good
  <2>0. n + 1 \in 1..Len(s) /\ n + 1 # 1 /\ (n + 1) - 1 = n
    BY <1>0, <1>2
  <2>1. n + 1 \in 1..Len(s) /\ f[n + 1] = Joined(f[n], TextOf(s[n + 1]))
    <3> HIDE DEF Good
    <3> QED
      BY <2>0 DEF Loop
  <2>2. TextOf(s[n + 1]) \in Measured /\ TextOf(s[n + 1]).nums = elems[s[n + 1]].nums
    BY <1>0, <2>1, TextOfIndex
  <2>3. f[n + 1] \in Measured /\ f[n + 1].nums = f[n].nums \cup elems[s[n + 1]].nums
    BY <1>2, <2>1, <2>2, JoinedTyped
  <2>4. ASSUME NEW k \in 1..(n + 1) PROVE elems[s[k]].nums \subseteq f[n + 1].nums
    <3>1. k \in 1..n \/ k = n + 1
      OBVIOUS
    <3> QED
      BY <1>2, <2>3, <3>1
  <2> QED
    BY <2>1, <2>3, <2>4
<1> HIDE DEF Good
<1>3. 1..Len(s) \subseteq Good
  BY <1>0, <1>1, <1>2, Counting
<1> QED
  BY <1>3 DEF Good

(* The text of some elements has all their numbers.                        *)
LEMMA TextOfAllFacts ==
  ASSUME elems \in Seq(Elements), NEW s \in Seq(Index), s # <<>>
  PROVE  /\ TextOfAll(s) \in Measured
         /\ \A k \in DOMAIN s : elems[s[k]].nums \subseteq TextOfAll(s).nums
<1>1. Len(s) \in Nat \ {0} /\ DOMAIN s = 1..Len(s)
  OBVIOUS
<1>2. PICK f : Loop(s, f) /\ TextOfAll(s) = f[Len(s)]
  BY <1>1, LoopIs
<1> QED
  BY <1>1, <1>2, LoopFacts

LEMMA TextOfOne == ASSUME NEW i PROVE TextOfAll(<<i>>) = TextOf(i)
<1>1. Len(<<i>>) = 1 /\ <<i>>[1] = i
  OBVIOUS
<1>2. PICK f : Loop(<<i>>, f) /\ TextOfAll(<<i>>) = f[1]
  BY <1>1, LoopIs
<1> QED
  BY <1>1, <1>2 DEF Loop

(* Texts that are joined piece by piece are joined as a whole.             *)
LEMMA TextOfBoth ==
  ASSUME elems \in Seq(Elements), NEW s \in Seq(Index), NEW t \in Seq(Index), s # <<>>, t # <<>>
  PROVE  TextOfAll(s \o t) = Joined(TextOfAll(s), TextOfAll(t))
<1> DEFINE M == Len(s)  N == Len(t)  st == s \o t
<1>1. /\ M \in Nat \ {0} /\ N \in Nat \ {0} /\ st \in Seq(Index) /\ Len(st) = M + N /\ st # <<>>
      /\ \A k \in 1..M : st[k] = s[k]
      /\ \A k \in 1..N : st[M + k] = t[k] /\ t[k] \in Index
  OBVIOUS
<1> HIDE DEF st
<1>2. PICK f : Loop(s, f) /\ TextOfAll(s) = f[M]
  BY <1>1, LoopIs
<1>3. PICK g : Loop(t, g) /\ TextOfAll(t) = g[N]
  BY <1>1, LoopIs
<1>4. PICK h : Loop(st, h) /\ TextOfAll(st) = h[M + N]
  <2>1. Len(st) \in Nat \ {0}
    BY <1>1
  <2>2. \E h : Loop(st, h) /\ TextOfAll(st) = h[Len(st)]
    BY <2>1, LoopIs
  <2> QED
    BY <1>1, <2>2
<1>9. \A n \in 1..(M + N) : h[n] = IF n = 1 THEN TextOf(st[1]) ELSE Joined(h[n - 1], TextOf(st[n]))
  <2>1. Loop(st, h) /\ Len(st) = M + N
    BY <1>1, <1>4
  <2> HIDE DEF M, N
  <2> QED
    BY <2>1 DEF Loop
<1>5. \A n \in 1..M : f[n] \in Measured
  BY <1>2, LoopFacts
<1>6. \A n \in 1..N : g[n] \in Measured
  BY <1>3, LoopFacts
<1>7. h[M] = f[M]
  <2> DEFINE Same == {n \in 1..M : h[n] = f[n]}
  <2>1. 1 \in Same
    BY <1>1, <1>2, <1>4 DEF Loop
  <2>2. ASSUME NEW n \in 1..M, n \in Same, n < M PROVE n + 1 \in Same
    <3>1. n + 1 \in 1..M /\ n + 1 \in 1..(M + N) /\ n + 1 # 1 /\ (n + 1) - 1 = n
      BY <1>1, <2>2
    <3>2. f[n + 1] = Joined(f[n], TextOf(s[n + 1]))
      BY <1>2, <3>1 DEF Loop
    <3>3. h[n + 1] = Joined(h[n], TextOf(st[n + 1]))
      BY <1>1, <1>4, <3>1 DEF Loop
    <3> QED
      BY <1>1, <2>2, <3>1, <3>2, <3>3
  <2> HIDE DEF Same
  <2>3. 1..M \subseteq Same
    BY <1>1, <2>1, <2>2, Counting
  <2>4. M \in 1..M
    BY <1>1
  <2>5. M \in Same
    BY Zenon, <2>3, <2>4
  <2> QED
    BY <2>5 DEF Same
<1>8. h[M + N] = Joined(f[M], g[N])
  <2> DEFINE Both == {n \in 1..N : h[M + n] = Joined(f[M], g[n])}
  <2>1. 1 \in Both
    <3>1. M + 1 \in 1..(M + N) /\ M + 1 # 1 /\ (M + 1) - 1 = M /\ 1 \in 1..N
      BY <1>1
    <3>2. h[M + 1] = Joined(h[M], TextOf(st[M + 1]))
      BY Zenon, <1>9, <3>1
    <3>3. g[1] = TextOf(t[1])
      BY <1>1, <1>3, <3>1 DEF Loop
    <3> QED
      BY <1>1, <1>7, <3>1, <3>2, <3>3
  <2>2. ASSUME NEW n \in 1..N, n \in Both, n < N PROVE n + 1 \in Both
    <3>1. /\ M + (n + 1) \in 1..(M + N) /\ M + (n + 1) # 1 /\ (M + (n + 1)) - 1 = M + n
          /\ n + 1 \in 1..N /\ n + 1 # 1 /\ (n + 1) - 1 = n
      BY <1>1, <2>2
    <3>2. h[M + (n + 1)] = Joined(h[M + n], TextOf(st[M + (n + 1)]))
      BY Zenon, <1>9, <3>1
    <3>3. g[n + 1] = Joined(g[n], TextOf(t[n + 1]))
      BY <1>3, <3>1 DEF Loop
    <3>4. h[M + (n + 1)] = Joined(Joined(f[M], g[n]), TextOf(t[n + 1]))
      BY <1>1, <2>2, <3>1, <3>2
    <3>6. f[M] \in Measured /\ g[n] \in Measured /\ TextOf(t[n + 1]) \in Measured
      BY <1>1, <1>5, <1>6, <3>1, TextOfIndex
    <3> QED
      BY <3>1, <3>3, <3>4, <3>6, JoinedInTurn
  <2> HIDE DEF Both
  <2>3. 1..N \subseteq Both
    BY <1>1, <2>1, <2>2, Counting
  <2> QED
    BY <1>1, <2>3 DEF Both
<1> QED
  BY <1>2, <1>3, <1>4, <1>8 DEF st

-----------------------------------------------------------------------------
(* Types                                                                   *)

ChunkSet == [type: {"section", "table"}, path: Seq(Index), els: Seq(Index) \ {<<>>}, text: Measured]

Nothing == stack = <<>> /\ section = <<>> /\ chunks = <<>> /\ metas = <<>>

Typed ==
  /\ kids \in Seq(Elements) /\ elems \in Seq(Elements) /\ pos \in Nat \ {0}
  /\ stack \in Seq(Index) /\ section \in Seq(Index)
  /\ chunks \in Seq(ChunkSet) /\ merged \in Seq(ChunkSet) /\ metas \in Seq({"label", "default"})
  /\ phase \in {"parse", "group"} => merged = <<>>
  /\ phase = "parse" => Nothing /\ elems = <<>> /\ pos = 1

LEMMA ElsTyped ==
  ASSUME NEW c \in ChunkSet
  PROVE  /\ c.els \in Seq(Index) /\ c.els # <<>> /\ c.path \in Seq(Index) /\ c.text \in Measured
         /\ c.type \in {"section", "table"}
BY DEF ChunkSet

(* The elements stay as they were parsed.                                  *)
LEMMA TypedNext ==
  ASSUME Typed, elems' = elems, kids' = kids, pos' \in Nat \ {0}, phase' # "parse",
         stack' \in Seq(Index), section' \in Seq(Index), chunks' \in Seq(ChunkSet),
         merged' \in Seq(ChunkSet), metas' \in Seq({"label", "default"}),
         phase' = "group" => merged' = <<>>
  PROVE  Typed'
<1>1. Index' = Index /\ ChunkSet' = ChunkSet
  BY DEF Index, ChunkSet
<1> QED
  BY <1>1 DEF Typed

LEMMA ChunkFacts ==
  ASSUME Typed, NEW type \in {"section", "table"}, NEW s \in Seq(Index), s # <<>>
  PROVE  /\ Chunk(type, s) \in ChunkSet
         /\ Chunk(type, s).type = type /\ Chunk(type, s).path = stack
         /\ Chunk(type, s).els = s /\ Chunk(type, s).text = TextOfAll(s)
<1>1. TextOfAll(s) \in Measured
  BY TextOfAllFacts DEF Typed
<1> QED
  BY <1>1 DEF Chunk, ChunkSet, Typed

LEMMA FlushTyped ==
  ASSUME Typed, NEW s \in Seq(Index)
  PROVE  FlushSection(s) \in Seq(ChunkSet)
<1>1. CASE s = <<>>
  BY <1>1 DEF FlushSection, Typed
<1>2. CASE s # <<>>
  <2>1. Chunk("section", s) \in ChunkSet
    BY <1>2, ChunkFacts
  <2> HIDE DEF Chunk, ChunkSet
  <2> QED
    BY <1>2, <2>1 DEF FlushSection, Typed
<1> QED
  BY <1>1, <1>2

(* The stack is cut behind the last heading of a higher rank.              *)
Higher(i) == {k \in DOMAIN stack : Level(stack[k]) < Level(i)}

LEMMA EnterFacts ==
  ASSUME Typed, NEW i \in Index
  PROVE  \E m \in 0..Len(stack) :
           /\ Enter(i) = Append(SubSeq(stack, 1, m), i)
           /\ m = 0 \/ m \in Higher(i)
           /\ \A k \in Higher(i) : k <= m
<1> DEFINE S == {0} \cup Higher(i)
<1>1. S \in SUBSET (0..Len(stack)) /\ 0 \in S /\ Len(stack) \in Nat
  BY DEF Typed, Higher
<1> DEFINE Lacks == {n \in Nat : Len(stack) - n \in S}
<1> HIDE DEF S
<1>2. Lacks \in SUBSET Nat /\ Len(stack) \in Lacks
  BY <1>1
<1>3. PICK n \in Lacks : \A k \in Lacks : n <= k
  BY <1>2, LeastIn
<1>4. /\ Len(stack) - n \in S
      /\ \A k \in S : k <= Len(stack) - n
  <2>1. \A k \in S : Len(stack) - k \in Nat /\ Len(stack) - (Len(stack) - k) = k
    BY <1>1
  <2>2. \A k \in S : Len(stack) - k \in Lacks
    BY <2>1
  <2>3. n \in Nat /\ Len(stack) - n \in S
    BY <1>3
  <2>4. ASSUME NEW k \in S PROVE k <= Len(stack) - n
    <3>1. n <= Len(stack) - k
      BY <1>3, <2>2
    <3>2. k \in Nat
      BY <1>1
    <3> QED
      BY <1>1, <2>3, <3>1, <3>2
  <2> QED
    BY <2>3, <2>4
<1> DEFINE m == Deepest(S)
<1>5. m \in S /\ \A k \in S : k <= m
  BY <1>4 DEF Deepest
<1>6. Enter(i) = Append(SubSeq(stack, 1, m), i)
  BY DEF Enter, S, Higher
<1> HIDE DEF m
<1>7. m \in 0..Len(stack) /\ (m = 0 \/ m \in Higher(i)) /\ \A k \in Higher(i) : k <= m
  BY <1>1, <1>5 DEF S
<1> QED
  BY <1>6, <1>7

(* What stands in place n of the new stack.                                *)
LEMMA EnterTyped ==
  ASSUME Typed, NEW i \in Index, NEW m \in 0..Len(stack), Enter(i) = Append(SubSeq(stack, 1, m), i)
  PROVE  /\ Enter(i) \in Seq(Index) /\ Len(Enter(i)) = m + 1
         /\ Enter(i)[m + 1] = i /\ \A k \in 1..m : Enter(i)[k] = stack[k]
BY DEF Typed

LEMMA IsSeq ==
  ASSUME NEW S, NEW N \in Nat, NEW r \in [1..N -> S]
  PROVE  r \in Seq(S) /\ Len(r) = N
OBVIOUS

LEMMA SetLast ==
  ASSUME NEW S, NEW q \in Seq(S), q # <<>>, NEW u \in S
  PROVE  /\ [q EXCEPT ![Len(q)] = u] \in Seq(S) /\ Len([q EXCEPT ![Len(q)] = u]) = Len(q)
         /\ [q EXCEPT ![Len(q)] = u][Len(q)] = u
         /\ \A k \in 1..Len(q) : k # Len(q) => [q EXCEPT ![Len(q)] = u][k] = q[k]
<1>1. Len(q) \in Nat \ {0} /\ DOMAIN q = 1..Len(q) /\ q \in [1..Len(q) -> S]
  OBVIOUS
<1>2. Len(q) \in 1..Len(q)
  BY <1>1
<1> DEFINE r == [q EXCEPT ![Len(q)] = u]
<1>3. r \in [1..Len(q) -> S] /\ r[Len(q)] = u /\ \A k \in 1..Len(q) : k # Len(q) => r[k] = q[k]
  BY <1>1, <1>2
<1>4. r \in Seq(S) /\ Len(r) = Len(q)
  <2> HIDE DEF r
  <2> QED
    BY Zenon, <1>1, <1>3, IsSeq
<1> QED
  BY <1>3, <1>4

Longer(e, x, y) == [e EXCEPT !.els = x, !.text = y]

LEMMA LongerFacts ==
  ASSUME NEW e \in ChunkSet, NEW x \in Seq(Index) \ {<<>>}, NEW y \in Measured
  PROVE  LET u == Longer(e, x, y) IN
         u \in ChunkSet /\ u.type = e.type /\ u.path = e.path /\ u.els = x /\ u.text = y
<1> DEFINE P == Seq(Index)  E == Seq(Index) \ {<<>>}  T == {"section", "table"}
<1>1. ChunkSet = [type: T, path: P, els: E, text: Measured]
  BY DEF ChunkSet
<1>2. x \in E /\ e \in [type: T, path: P, els: E, text: Measured]
  BY <1>1
<1> HIDE DEF P, E, T
<1> QED
  BY <1>1, <1>2 DEF Longer

LEMMA JoinLastFacts ==
  ASSUME NEW done \in Seq(ChunkSet), done # <<>>, NEW c \in ChunkSet
  PROVE  LET L == Len(done)  ds == JoinLast(done, c) IN
         /\ ds \in Seq(ChunkSet) /\ Len(ds) = L /\ L \in Nat \ {0}
         /\ \A k \in 1..L : k # L => ds[k] = done[k]
         /\ ds[L].type = done[L].type /\ ds[L].path = done[L].path
         /\ ds[L].els = done[L].els \o c.els /\ ds[L].text = Joined(done[L].text, c.text)
<1> DEFINE L == Len(done)  e == done[L]  x == e.els \o c.els  y == Joined(e.text, c.text)
           u == Longer(e, x, y)  ds == JoinLast(done, c)
<1>1. L \in Nat \ {0} /\ e \in ChunkSet
  <2> HIDE DEF ChunkSet
  <2> QED
    OBVIOUS
<1>2. x \in Seq(Index) \ {<<>>}
  <2>1. e.els \in Seq(Index) \ {<<>>} /\ c.els \in Seq(Index)
    BY <1>1 DEF ChunkSet
  <2> QED
    BY <2>1
<1>3. y \in Measured
  <2>1. e.text \in Measured /\ c.text \in Measured
    BY <1>1 DEF ChunkSet
  <2> QED
    BY <2>1, JoinedTyped
<1>4. ds = [done EXCEPT ![L] = u]
  BY DEF JoinLast, Longer
<1> HIDE DEF ds, e, x, y
<1>5. u \in ChunkSet /\ u.type = e.type /\ u.path = e.path /\ u.els = x /\ u.text = y
  BY ZenonT(60), <1>1, <1>2, <1>3, LongerFacts
<1> HIDE DEF u, L
<1>6. /\ ds \in Seq(ChunkSet) /\ Len(ds) = L /\ ds[L] = u
      /\ \A k \in 1..L : k # L => ds[k] = done[k]
  BY <1>4, <1>5, SetLast DEF L
<1> QED
  BY <1>1, <1>5, <1>6 DEF ds, L, e, x, y

(* A text is replaced, the rest of the chunk stays.                        *)
Rewritten(c, d) == d.type = c.type /\ d.path = c.path /\ d.els = c.els

LEMMA RetextFacts ==
  ASSUME NEW c \in ChunkSet, NEW t \in Measured
  PROVE  /\ [c EXCEPT !.text = t] \in ChunkSet
         /\ Rewritten(c, [c EXCEPT !.text = t]) /\ [c EXCEPT !.text = t].text = t
BY DEF ChunkSet, Rewritten

LEMMA PolishFacts ==
  ASSUME NEW n, NEW reply \in Answers(Replies, n), NEW j, NEW orig \in Measured
  PROVE  /\ Polish(reply, j, orig) \in Measured
         /\ Polish(reply, j, orig) = orig \/ ValidatePolish(orig, Polish(reply, j, orig))
<1>1. PICK k \in 0..(n + Extra) : reply \in [1..k -> Replies]
  BY DEF Answers
<1>2. j \in DOMAIN reply => reply[j] \in Measured
  BY <1>1, ChunkingAssumption
<1> QED
  BY <1>2 DEF Polish

(* What the model calls do to the chunks.                                  *)
LEMMA TablesFacts ==
  ASSUME Typed, NaturalizeTables
  PROVE  /\ chunks' \in Seq(ChunkSet) /\ Len(chunks') = Len(chunks)
         /\ \A i \in DOMAIN chunks :
              /\ Rewritten(chunks[i], chunks'[i])
              /\ chunks[i].type = "section" => chunks'[i] = chunks[i]
<1>1. PICK said \in [Tables -> Replies] :
        chunks' = [i \in DOMAIN chunks |->
                    IF i \in Tables THEN [chunks[i] EXCEPT !.text = Naturalize(chunks[i].text, said[i])]
                                    ELSE chunks[i]]
  BY DEF NaturalizeTables
<1>2. ASSUME NEW i \in DOMAIN chunks
      PROVE  /\ chunks'[i] \in ChunkSet /\ Rewritten(chunks[i], chunks'[i])
             /\ chunks[i].type = "section" => chunks'[i] = chunks[i]
  <2>1. chunks[i] \in ChunkSet
    BY DEF Typed
  <2>2. CASE i \in Tables
    <3>1. said[i] \in Measured /\ chunks[i].text \in Measured
      BY <2>1, <2>2, ChunkingAssumption DEF ChunkSet
    <3>2. Naturalize(chunks[i].text, said[i]) \in Measured
      BY <3>1 DEF Naturalize
    <3>3. chunks'[i] = [chunks[i] EXCEPT !.text = Naturalize(chunks[i].text, said[i])]
      BY <1>1, <2>2
    <3>4. chunks[i].type # "section"
      BY <2>2 DEF Tables
    <3> QED
      BY <2>1, <3>2, <3>3, <3>4, RetextFacts
  <2>3. CASE i \notin Tables
    BY <1>1, <2>1, <2>3 DEF Rewritten
  <2> QED
    BY <2>2, <2>3
<1>3. DOMAIN chunks = 1..Len(chunks) /\ Len(chunks) \in Nat /\ DOMAIN chunks' = DOMAIN chunks
  BY <1>1 DEF Typed
<1>4. chunks' \in [1..Len(chunks) -> ChunkSet]
  BY <1>1, <1>2, <1>3
<1> QED
  BY <1>2, <1>3, <1>4

LEMMA PolishedFacts ==
  ASSUME Typed, PolishChunks
  PROVE  /\ chunks' \in Seq(ChunkSet) /\ Len(chunks') = Len(chunks)
         /\ \A i \in DOMAIN chunks :
              /\ Rewritten(chunks[i], chunks'[i])
              /\ \/ chunks'[i] = chunks[i]
                 \/ i \in Batch /\ chunks'[i].text = chunks[i].text
                 \/ i \in Batch /\ ValidatePolish(chunks[i].text, chunks'[i].text)
<1>1. PICK reply \in Answers(Replies, Cardinality(Batch)) :
        chunks' = [i \in DOMAIN chunks |->
          IF i \in Batch THEN [chunks[i] EXCEPT !.text = Polish(reply, Place(i) - pos + 1, chunks[i].text)]
                         ELSE chunks[i]]
  BY DEF PolishChunks
<1>2. ASSUME NEW i \in DOMAIN chunks
      PROVE  /\ chunks'[i] \in ChunkSet /\ Rewritten(chunks[i], chunks'[i])
             /\ \/ chunks'[i] = chunks[i]
                \/ i \in Batch /\ chunks'[i].text = chunks[i].text
                \/ i \in Batch /\ ValidatePolish(chunks[i].text, chunks'[i].text)
  <2>1. chunks[i] \in ChunkSet
    BY DEF Typed
  <2>2. CASE i \in Batch
    <3> DEFINE t == Polish(reply, Place(i) - pos + 1, chunks[i].text)
    <3>1. chunks[i].text \in Measured
      BY <2>1 DEF ChunkSet
    <3>2. t \in Measured /\ (t = chunks[i].text \/ ValidatePolish(chunks[i].text, t))
      BY <3>1, PolishFacts
    <3>3. chunks'[i] = [chunks[i] EXCEPT !.text = t]
      BY <1>1, <2>2
    <3> HIDE DEF t
    <3>4. chunks'[i] \in ChunkSet /\ Rewritten(chunks[i], chunks'[i]) /\ chunks'[i].text = t
      BY <2>1, <3>2, <3>3, RetextFacts
    <3> QED
      BY <2>2, <3>2, <3>4
  <2>3. CASE i \notin Batch
    BY <1>1, <2>1, <2>3 DEF Rewritten
  <2> QED
    BY <2>2, <2>3
<1>3. DOMAIN chunks = 1..Len(chunks) /\ Len(chunks) \in Nat /\ DOMAIN chunks' = DOMAIN chunks
  BY <1>1 DEF Typed
<1>4. chunks' \in [1..Len(chunks) -> ChunkSet]
  BY <1>1, <1>2, <1>3
<1> QED
  BY <1>2, <1>3, <1>4

LEMMA LabelsFacts ==
  ASSUME NEW n \in Nat, NEW reply \in Answers({"label", "default"}, n)
  PROVE  Labels(reply, n) \in Seq({"label", "default"}) /\ Len(Labels(reply, n)) = n
<1>1. PICK k \in 0..(n + Extra) : reply \in [1..k -> {"label", "default"}]
  BY DEF Answers
<1>2. Labels(reply, n) \in [1..n -> {"label", "default"}]
  BY <1>1 DEF Labels
<1> QED
  BY <1>2

LEMMA ParseFacts ==
  ASSUME Typed, Parse
  PROVE  elems' \in Seq(Elements)
<1> DEFINE keep == {i \in DOMAIN kids : Kept(kids[i])}
<1>1. PICK s \in [1..Cardinality(keep) -> keep] : elems' = [n \in DOMAIN s |-> kids[s[n]]]
  BY DEF Parse, FlattenJson
<1>2. Cardinality(keep) \in Nat
  <2>1. Len(kids) \in Int /\ 1 \in Int /\ keep \subseteq 1..Len(kids)
    BY DEF Typed
  <2> HIDE DEF keep
  <2>2. IsFiniteSet(1..Len(kids))
    BY <2>1, FS_Interval
  <2>3. IsFiniteSet(keep)
    BY <2>1, <2>2, FS_Subset
  <2> QED
    BY <2>3, FS_CardinalityType
<1>3. \A i \in keep : kids[i] \in Elements
  BY DEF Typed
<1> HIDE DEF keep
<1>4. elems' \in [1..Cardinality(keep) -> Elements]
  <2> HIDE DEF Elements
  <2> QED
    BY <1>1, <1>3
<1> QED
  BY <1>2, <1>4
-----------------------------------------------------------------------------
LEMMA TypedInit == Init => Typed
<1> SUFFICES ASSUME Init PROVE Typed
  OBVIOUS
<1>1. kids \in Seq(Elements)
  BY ChunkingAssumption DEF Init, Elements
<1>2. \A S : <<>> \in Seq(S)
  OBVIOUS
<1> HIDE DEF Elements, ChunkSet
<1> QED
  BY <1>1, <1>2 DEF Init, Typed, Nothing

LEMMA TypedStep == Typed /\ [Next]_vars => Typed'
<1> SUFFICES ASSUME Typed, [Next]_vars PROVE Typed'
  OBVIOUS
<1> HIDE DEF Elements, ChunkSet, Index
<1>0. /\ pos \in Nat \ {0} /\ Len(elems) \in Nat /\ DOMAIN elems = 1..Len(elems)
      /\ Len(chunks) \in Nat /\ DOMAIN chunks = 1..Len(chunks)
      /\ \A k \in DOMAIN chunks : chunks[k] \in ChunkSet
      /\ pos + 1 \in Nat \ {0} /\ 1 \in Nat \ {0}
      /\ pos + PolishBatch \in Nat \ {0} /\ pos + EnrichBatch \in Nat \ {0}
      /\ stack \in Seq(Index) /\ section \in Seq(Index)
      /\ chunks \in Seq(ChunkSet) /\ merged \in Seq(ChunkSet) /\ metas \in Seq({"label", "default"})
  BY ChunkingAssumption DEF Typed
<1>e. \A S : <<>> \in Seq(S)
  OBVIOUS
<1>p. pos <= Len(elems) => pos \in Index /\ <<pos>> \in Seq(Index) /\ <<pos>> # <<>>
  BY <1>0 DEF Index
<1>1. CASE Parse
  <2>1. elems' \in Seq(Elements)
    BY <1>1, ParseFacts
  <2>2. Nothing /\ merged = <<>> /\ pos = 1
    BY <1>1 DEF Parse, Typed
  <2>3. UNCHANGED <<kids, pos, stack, section, chunks, merged, metas>> /\ phase' = "group"
    BY <1>1 DEF Parse
  <2> QED
    BY <1>e, <2>1, <2>2, <2>3 DEF Typed, Nothing
<1>2. CASE GroupHeading
  <2>1. FlushSection(section) \in Seq(ChunkSet) /\ Enter(pos) \in Seq(Index)
    BY <1>0, <1>2, <1>p, FlushTyped, EnterFacts, EnterTyped DEF GroupHeading
  <2> QED
    BY <1>0, <1>2, <1>e, <2>1, TypedNext DEF GroupHeading, Typed
<1>3. CASE GroupTable
  <2>1. FlushSection(section) \in Seq(ChunkSet) /\ Chunk("table", <<pos>>) \in ChunkSet
    BY <1>0, <1>3, <1>p, FlushTyped, ChunkFacts DEF GroupTable
  <2>2. Append(FlushSection(section), Chunk("table", <<pos>>)) \in Seq(ChunkSet)
    BY <2>1
  <2> QED
    BY <1>0, <1>3, <1>e, <2>2, TypedNext DEF GroupTable, Typed
<1>4. CASE GroupText
  <2>1. Append(section, pos) \in Seq(Index)
    BY <1>0, <1>4, <1>p DEF GroupText
  <2>2. FlushSection(Append(section, pos)) \in Seq(ChunkSet)
    BY <2>1, FlushTyped
  <2>3. section' \in Seq(Index) /\ chunks' \in Seq(ChunkSet)
    BY <1>0, <1>4, <1>e, <2>1, <2>2 DEF GroupText
  <2> QED
    BY <1>0, <1>4, <2>3, TypedNext DEF GroupText, Typed
<1>5. CASE GroupEnd
  <2>1. FlushSection(section) \in Seq(ChunkSet)
    BY <1>0, FlushTyped
  <2> QED
    BY <1>0, <1>5, <1>e, <2>1, TypedNext DEF GroupEnd
<1>6. CASE MergeShort
  <2>1. chunks[pos] \in ChunkSet
    BY <1>0, <1>6 DEF MergeShort
  <2>2. merged' \in Seq(ChunkSet)
    <3>1. CASE Joins(merged, chunks[pos])
      <4>1. JoinLast(merged, chunks[pos]) \in Seq(ChunkSet)
        BY <1>0, <2>1, <3>1, JoinLastFacts DEF Joins
      <4> QED
        BY <1>6, <3>1, <4>1 DEF MergeShort
    <3>2. CASE ~Joins(merged, chunks[pos])
      BY <1>0, <1>6, <2>1, <3>2 DEF MergeShort
    <3> QED
      BY <3>1, <3>2
  <2> QED
    BY <1>0, <1>6, <2>2, TypedNext DEF MergeShort
<1>7. CASE MergeEnd
  BY <1>0, <1>7, TypedNext DEF MergeEnd
<1>8. CASE NaturalizeTables
  <2>1. chunks' \in Seq(ChunkSet)
    BY <1>8, TablesFacts
  <2> QED
    BY <1>0, <1>8, <2>1, TypedNext DEF NaturalizeTables
<1>9. CASE PolishChunks
  <2>1. chunks' \in Seq(ChunkSet)
    BY <1>9, PolishedFacts
  <2> QED
    BY <1>0, <1>9, <2>1, TypedNext DEF PolishChunks
<1>10. CASE Embed
  BY <1>0, <1>10, TypedNext DEF Embed
<1>11. CASE EnrichChunks
  <2> DEFINE n == Smaller(EnrichBatch, Len(chunks) - pos + 1)
  <2>1. n \in Nat
    BY <1>0, <1>11, ChunkingAssumption DEF EnrichChunks, Smaller
  <2>2. PICK reply \in Answers({"label", "default"}, n) : metas' = metas \o Labels(reply, n)
    BY <1>11 DEF EnrichChunks
  <2> HIDE DEF n
  <2>3. metas' \in Seq({"label", "default"})
    BY <1>0, <2>1, <2>2, LabelsFacts
  <2> QED
    BY <1>0, <1>11, <2>3, TypedNext DEF EnrichChunks
<1>12. CASE Store
  BY <1>0, <1>12, TypedNext DEF Store
<1>13. CASE Fail
  BY <1>0, <1>13, TypedNext DEF Fail
<1>14. CASE UNCHANGED vars
  BY <1>14 DEF vars, Typed, Nothing, Index, ChunkSet
<1> QED
  BY <1>1, <1>2, <1>3, <1>4, <1>5, <1>6, <1>7, <1>8, <1>9, <1>10, <1>11, <1>12, <1>13, <1>14 DEF Next

-----------------------------------------------------------------------------
(* Every text once                                                         *)

Upward(s) == \A a, b \in DOMAIN s : a < b => s[a] < s[b]

LEMMA HoldSame ==
  ASSUME NEW cs, NEW ds, NEW S, Hold(cs, S),
         DOMAIN ds = DOMAIN cs, \A k \in DOMAIN cs : ds[k].els = cs[k].els
  PROVE  Hold(ds, S)
<1>1. {ToSet(ds[k].els) : k \in DOMAIN ds} = {ToSet(cs[k].els) : k \in DOMAIN cs}
  OBVIOUS
<1> HIDE DEF ToSet
<1> QED
  BY <1>1 DEF Hold

LEMMA HoldNothing == Hold(<<>>, {})
BY DEF Hold

(* One chunk more, of later elements.                                      *)
LEMMA HoldAppend ==
  ASSUME NEW T, NEW cs \in Seq(T), NEW c \in T, NEW S, Hold(cs, S),
         Upward(c.els), \A a \in S : \A b \in DOMAIN c.els : a < c.els[b]
  PROVE  Hold(Append(cs, c), S \cup ToSet(c.els))
<1> DEFINE L == Len(cs)  ds == Append(cs, c)
<1>1. /\ L \in Nat /\ DOMAIN cs = 1..L /\ DOMAIN ds = 1..(L + 1)
      /\ ds[L + 1] = c /\ \A k \in 1..L : ds[k] = cs[k]
  OBVIOUS
<1> HIDE DEF ds, L
<1>2. UNION {ToSet(ds[k].els) : k \in DOMAIN ds} = S \cup ToSet(c.els)
  <2>1. S = UNION {ToSet(cs[k].els) : k \in 1..L}
    BY <1>1 DEF Hold
  <2>2. \A k \in 1..(L + 1) : k \in 1..L \/ k = L + 1
    BY <1>1
  <2>3. L + 1 \in 1..(L + 1) /\ 1..L \subseteq 1..(L + 1)
    BY <1>1
  <2> HIDE DEF ToSet
  <2> QED
    BY <1>1, <2>1, <2>2, <2>3
<1>3. ASSUME NEW k \in DOMAIN ds, NEW l \in DOMAIN ds, NEW a \in DOMAIN ds[k].els,
             NEW b \in DOMAIN ds[l].els, k < l \/ (k = l /\ a < b)
      PROVE  ds[k].els[a] < ds[l].els[b]
  <2>1. CASE l \in 1..L
    <3>1. k \in 1..L
      BY <1>1, <1>3, <2>1
    <3> QED
      BY <1>1, <1>3, <2>1, <3>1 DEF Hold
  <2>2. CASE l = L + 1 /\ k \in 1..L
    <3>1. ds[k].els[a] \in S
      BY <1>1, <1>3, <2>2 DEF Hold, ToSet
    <3> QED
      BY <1>1, <1>3, <2>2, <3>1
  <2>3. CASE l = L + 1 /\ k = L + 1
    BY <1>1, <1>3, <2>3 DEF Upward
  <2> QED
    BY <1>1, <1>3, <2>1, <2>2, <2>3
<1> QED
  BY <1>2, <1>3 DEF Hold, ds

(* The last chunk takes later elements in.                                 *)
LEMMA HoldLonger ==
  ASSUME NEW T, NEW cs \in Seq(T), NEW ds \in Seq(T), NEW N, NEW t \in Seq(N), NEW S, Hold(cs, S),
         cs # <<>>, Len(ds) = Len(cs),
         \A k \in 1..Len(cs) : k # Len(cs) => ds[k].els = cs[k].els,
         cs[Len(cs)].els \in Seq(N), ds[Len(cs)].els = cs[Len(cs)].els \o t,
         Upward(t), \A a \in S : \A b \in DOMAIN t : a < t[b]
  PROVE  Hold(ds, S \cup ToSet(t))
<1> DEFINE L == Len(cs)  e == cs[L].els  u == e \o t
<1>1. L \in Nat \ {0} /\ DOMAIN cs = 1..L /\ DOMAIN ds = 1..L
  OBVIOUS
<1>2. /\ Len(e) \in Nat /\ Len(t) \in Nat
      /\ DOMAIN e = 1..Len(e) /\ DOMAIN t = 1..Len(t) /\ DOMAIN u = 1..(Len(e) + Len(t))
      /\ \A a \in 1..Len(e) : u[a] = e[a]
      /\ \A a \in 1..Len(t) : u[Len(e) + a] = t[a]
      /\ \A a \in DOMAIN u : a \in 1..Len(e) \/ (a - Len(e) \in 1..Len(t) /\ u[a] = t[a - Len(e)])
  OBVIOUS
<1>3. ds[L].els = u /\ cs[L].els = e /\ \A k \in 1..L : k # L => ds[k].els = cs[k].els
  OBVIOUS
<1> HIDE DEF e, u, L
<1>4. ToSet(u) = ToSet(e) \cup ToSet(t)
  <2>1. \A a \in 1..Len(e) : a \in DOMAIN u
    BY <1>2
  <2>2. \A a \in 1..Len(t) : Len(e) + a \in DOMAIN u
    BY <1>2
  <2>3. \A a \in DOMAIN e : \E b \in DOMAIN u : u[b] = e[a]
    BY <1>2, <2>1
  <2>4. \A a \in DOMAIN t : \E b \in DOMAIN u : u[b] = t[a]
    BY <1>2, <2>2
  <2>5. \A b \in DOMAIN u : (\E a \in DOMAIN e : u[b] = e[a]) \/ (\E a \in DOMAIN t : u[b] = t[a])
    BY <1>2
  <2>6. ToSet(u) \subseteq ToSet(e) \cup ToSet(t)
    BY <2>5 DEF ToSet
  <2>7. ToSet(e) \subseteq ToSet(u) /\ ToSet(t) \subseteq ToSet(u)
    BY <2>3, <2>4 DEF ToSet
  <2> QED
    BY <2>6, <2>7
<1>5. UNION {ToSet(ds[k].els) : k \in DOMAIN ds} = S \cup ToSet(t)
  <2>1. S = UNION {ToSet(cs[k].els) : k \in 1..L}
    BY <1>1 DEF Hold
  <2>2. L \in 1..L
    BY <1>1
  <2> HIDE DEF ToSet
  <2>3. \A k \in 1..L : ToSet(ds[k].els) = IF k = L THEN ToSet(e) \cup ToSet(t) ELSE ToSet(cs[k].els)
    BY <1>3, <1>4
  <2> QED
    BY <1>1, <1>3, <2>1, <2>2, <2>3
<1>6. \A a \in DOMAIN e : e[a] \in S
  BY <1>1, <1>3 DEF Hold, ToSet
<1>7. ASSUME NEW k \in DOMAIN ds, NEW l \in DOMAIN ds, NEW a \in DOMAIN ds[k].els,
             NEW b \in DOMAIN ds[l].els, k < l \/ (k = l /\ a < b)
      PROVE  ds[k].els[a] < ds[l].els[b]
  <2>1. k \in 1..L /\ l \in 1..L
    BY <1>1
  <2>2. CASE l # L
    <3>1. k # L
      BY <1>1, <1>7, <2>1, <2>2
    <3> QED
      BY <1>1, <1>3, <1>7, <2>1, <2>2, <3>1 DEF Hold
  <2>3. CASE l = L /\ b \in 1..Len(e)
    <3>1. u[b] = e[b] /\ b \in DOMAIN e
      BY <1>2, <2>3
    <3>2. CASE k # L
      BY <1>1, <1>3, <1>7, <2>1, <2>3, <3>1, <3>2 DEF Hold
    <3>3. CASE k = L
      <4>1. a \in 1..Len(e) /\ u[a] = e[a]
        BY <1>2, <1>3, <1>7, <2>1, <2>3, <3>3
      <4> QED
        BY <1>1, <1>2, <1>3, <1>7, <2>1, <2>3, <3>1, <3>3, <4>1 DEF Hold
    <3> QED
      BY <3>2, <3>3
  <2>4. CASE l = L /\ b \notin 1..Len(e)
    <3> DEFINE y == b - Len(e)
    <3>1. y \in DOMAIN t /\ u[b] = t[y]
      BY <1>2, <1>3, <2>4
    <3>2. CASE k # L
      <4>1. ds[k].els[a] \in S
        BY SMTT(30), <1>1, <1>3, <1>7, <2>1, <3>2 DEF Hold, ToSet
      <4> QED
        BY <1>3, <2>4, <3>1, <4>1
    <3>3. CASE k = L /\ a \in 1..Len(e)
      BY <1>2, <1>3, <1>6, <2>4, <3>1, <3>3
    <3>4. CASE k = L /\ a \notin 1..Len(e)
      <4>1. a - Len(e) \in DOMAIN t /\ u[a] = t[a - Len(e)] /\ a - Len(e) < y
        BY <1>2, <1>3, <1>7, <2>1, <2>4, <3>4
      <4> QED
        BY <1>3, <2>4, <3>1, <3>4, <4>1 DEF Upward
    <3> QED
      BY <3>2, <3>3, <3>4
  <2> QED
    BY <2>1, <2>2, <2>3, <2>4
<1> QED
  BY <1>5, <1>7 DEF Hold

-----------------------------------------------------------------------------
(* What the loops hold when, phase by phase.                               *)
OnceInv ==
  /\ phase = "group" =>
       pos <= Len(elems) + 1 /\ Hold(FlushSection(section), Texts(pos - 1))
  /\ phase = "merge" =>
       /\ pos <= Len(chunks) + 1
       /\ Hold(chunks, Texts(Len(elems))) /\ Hold(merged, InChunks(1..(pos - 1)))
  /\ phase \in {"tables", "polish", "enrich"} => Hold(chunks, Texts(Len(elems)))
  /\ phase \in {"tables", "polish"} => metas = <<>>
  /\ phase = "enrich" => Len(metas) = Smaller(pos - 1, Len(chunks))
  /\ phase \in {"parse", "group", "merge"} => metas = <<>>
  /\ phase = "stored" => Hold(stored, Texts(Len(elems)))

(* The texts up to one element more.                                       *)
LEMMA TextsNext ==
  ASSUME Typed, pos \in Index
  PROVE  /\ Texts(pos) = IF elems[pos].type = "heading" THEN Texts(pos - 1) ELSE Texts(pos - 1) \cup {pos}
         /\ \A a \in Texts(pos - 1) : a \in Nat /\ a < pos
<1>1. pos \in Nat \ {0}
  BY DEF Typed
<1>2. \A a : a \in 1..pos <=> a \in 1..(pos - 1) \/ a = pos
  BY <1>1
<1>3. \A a \in 1..(pos - 1) : a \in Nat /\ a < pos
  BY <1>1
<1> QED
  BY <1>2, <1>3 DEF Texts

LEMMA OneElement == \A i : ToSet(<<i>>) = {i} /\ Upward(<<i>>)
<1> TAKE i
<1>1. DOMAIN <<i>> = {1} /\ <<i>>[1] = i
  OBVIOUS
<1> QED
  BY <1>1 DEF ToSet, Upward

LEMMA OneOf ==
  ASSUME NEW S, NEW x \in S
  PROVE  <<x>> \in Seq(S) /\ <<x>> # <<>>
OBVIOUS

LEMMA FirstOf ==
  ASSUME NEW S, NEW s \in Seq(S), NEW t \in Seq(S), s # <<>>
  PROVE  (s \o t)[1] = s[1]
OBVIOUS

LEMMA AppendIs ==
  ASSUME NEW S, NEW s \in Seq(S), NEW x \in S
  PROVE  Append(s, x) \in Seq(S) /\ Append(s, x) # <<>> /\ Append(s, x) = s \o <<x>>
<1> DEFINE p == Append(s, x)  q == s \o <<x>>
<1>1. /\ p \in Seq(S) /\ q \in Seq(S) /\ Len(p) = Len(s) + 1 /\ Len(q) = Len(s) + 1 /\ Len(s) \in Nat
      /\ \A k \in 1..(Len(s) + 1) : p[k] = q[k]
  OBVIOUS
<1> HIDE DEF p, q
<1>2. p = q /\ p # <<>>
  BY <1>1
<1> QED
  BY <1>1, <1>2 DEF p, q

(* A section flushed with one text more.                                   *)
LEMMA FlushLonger ==
  ASSUME Typed, pos \in Index, elems[pos].type # "heading", Hold(FlushSection(section), Texts(pos - 1))
  PROVE  Hold(FlushSection(Append(section, pos)), Texts(pos))
<1>1. Texts(pos) = Texts(pos - 1) \cup ToSet(<<pos>>) /\ \A a \in Texts(pos - 1) : a < <<pos>>[1]
  BY TextsNext, OneElement
<1>2. Upward(<<pos>>) /\ DOMAIN <<pos>> = {1} /\ <<pos>> \in Seq(Index)
  BY OneElement
<1> DEFINE longer == Append(section, pos)  c == Chunk("section", longer)
<1>3. longer \in Seq(Index) /\ longer # <<>> /\ longer = section \o <<pos>>
  BY AppendIs DEF Typed
<1>4. c \in ChunkSet /\ c.els = longer
  BY <1>3, ChunkFacts
<1>5. FlushSection(longer) = Append(chunks, c) /\ chunks \in Seq(ChunkSet)
  BY <1>3 DEF FlushSection, Typed
<1> HIDE DEF c, longer
<1>6. CASE section = <<>>
  <2>1. FlushSection(section) = chunks
    BY <1>6 DEF FlushSection
  <2>2. longer = <<pos>>
    BY <1>6 DEF longer
  <2>3. Upward(c.els) /\ \A a \in Texts(pos - 1) : \A b \in DOMAIN c.els : a < c.els[b]
    BY <1>1, <1>2, <1>4, <2>2
  <2>4. Hold(Append(chunks, c), Texts(pos - 1) \cup ToSet(c.els))
    BY Zenon, <1>4, <1>5, <2>1, <2>3, HoldAppend
  <2> QED
    BY <1>1, <1>4, <1>5, <2>2, <2>4 DEF longer
<1>7. CASE section # <<>>
  <2> DEFINE d == Chunk("section", section)
  <2>1. /\ d \in ChunkSet /\ d.els = section /\ section \in Seq(Index)
        /\ FlushSection(section) = Append(chunks, d)
    BY <1>7, ChunkFacts DEF FlushSection, Typed
  <2> HIDE DEF d, ChunkSet
  <2> DEFINE cs == Append(chunks, d)  ds == Append(chunks, c)
  <2>2. /\ cs \in Seq(ChunkSet) /\ ds \in Seq(ChunkSet) /\ cs # <<>> /\ Len(ds) = Len(cs)
        /\ \A k \in 1..Len(cs) : k # Len(cs) => ds[k] = cs[k]
        /\ cs[Len(cs)] = d /\ ds[Len(cs)] = c
    BY <1>4, <1>5, <2>1
  <2>3. Hold(cs, Texts(pos - 1))
    BY <2>1
  <2> HIDE DEF cs, ds
  <2>4. Hold(ds, Texts(pos - 1) \cup ToSet(<<pos>>))
    <3>1. cs[Len(cs)].els \in Seq(Index) /\ ds[Len(cs)].els = cs[Len(cs)].els \o <<pos>>
      BY <1>3, <1>4, <2>1, <2>2
    <3>2. \A a \in Texts(pos - 1) : \A b \in DOMAIN <<pos>> : a < <<pos>>[b]
      BY <1>1, <1>2
    <3> QED
      BY <1>2, <2>2, <2>3, <3>1, <3>2, HoldLonger
  <2> QED
    BY <1>1, <1>5, <2>4 DEF ds, longer
<1> QED
  BY <1>6, <1>7 DEF longer

LEMMA TablePut ==
  ASSUME Typed, pos \in Index, elems[pos].type # "heading", Hold(FlushSection(section), Texts(pos - 1))
  PROVE  Hold(Append(FlushSection(section), Chunk("table", <<pos>>)), Texts(pos))
<1>1. Texts(pos) = Texts(pos - 1) \cup ToSet(<<pos>>) /\ \A a \in Texts(pos - 1) : a < <<pos>>[1]
  BY TextsNext, OneElement
<1>2. Upward(<<pos>>) /\ DOMAIN <<pos>> = {1} /\ <<pos>> \in Seq(Index) /\ <<pos>> # <<>>
  BY OneElement
<1>3. Chunk("table", <<pos>>) \in ChunkSet /\ Chunk("table", <<pos>>).els = <<pos>>
  BY <1>2, ChunkFacts
<1>4. FlushSection(section) \in Seq(ChunkSet)
  BY FlushTyped DEF Typed
<1> HIDE DEF ChunkSet
<1>5. \A a \in Texts(pos - 1) : \A b \in DOMAIN <<pos>> : a < <<pos>>[b]
  BY <1>1, <1>2
<1> QED
  BY <1>1, <1>2, <1>3, <1>4, <1>5, HoldAppend

(* One chunk goes over to the list that the join builds.                   *)
LEMMA MergeOnce ==
  ASSUME Typed, MergeShort, NEW S, Hold(chunks, S), Hold(merged, InChunks(1..(pos - 1)))
  PROVE  Hold(merged', InChunks(1..pos))
<1> DEFINE c == chunks[pos]  R == InChunks(1..(pos - 1))
<1>1. pos \in DOMAIN chunks /\ pos \in Nat \ {0} /\ DOMAIN chunks = 1..Len(chunks)
  BY DEF MergeShort, Typed
<1>2. c \in ChunkSet /\ c.els \in Seq(Index) /\ merged \in Seq(ChunkSet)
  <2>1. c \in ChunkSet /\ merged \in Seq(ChunkSet)
    BY <1>1 DEF Typed
  <2> QED
    BY <2>1, ElsTyped
<1>3. InChunks(1..pos) = R \cup ToSet(c.els)
  <2>1. \A k : k \in 1..pos <=> k \in 1..(pos - 1) \/ k = pos
    BY <1>1
  <2> HIDE DEF ToSet
  <2> QED
    BY <2>1 DEF InChunks
<1>4. \A a \in R : \A b \in DOMAIN c.els : a < c.els[b]
  <2> SUFFICES ASSUME NEW a \in R, NEW b \in DOMAIN c.els PROVE a < c.els[b]
    OBVIOUS
  <2>1. PICK k \in 1..(pos - 1) : a \in ToSet(chunks[k].els)
    BY DEF InChunks
  <2>2. k \in DOMAIN chunks /\ k < pos
    BY <1>1, <2>1
  <2>3. PICK n \in DOMAIN chunks[k].els : a = chunks[k].els[n]
    BY <2>1 DEF ToSet
  <2> QED
    BY <1>1, <2>2, <2>3 DEF Hold
<1>5. Upward(c.els)
  BY <1>1 DEF Hold, Upward
<1>6. merged' = IF Joins(merged, c) THEN JoinLast(merged, c) ELSE Append(merged, c)
  BY DEF MergeShort
<1> HIDE DEF c, R
<1>7. CASE ~Joins(merged, c)
  <2>1. Hold(Append(merged, c), R \cup ToSet(c.els))
    BY Zenon, <1>2, <1>4, <1>5, HoldAppend DEF R
  <2> QED
    BY <1>3, <1>6, <1>7, <2>1
<1>8. CASE Joins(merged, c)
  <2> DEFINE ds == JoinLast(merged, c)  L == Len(merged)
  <2>1. merged # <<>>
    BY <1>8 DEF Joins
  <2>2. /\ ds \in Seq(ChunkSet) /\ Len(ds) = L /\ L \in Nat \ {0}
        /\ \A k \in 1..L : k # L => ds[k].els = merged[k].els
        /\ ds[L].els = merged[L].els \o c.els
    BY <1>2, <2>1, JoinLastFacts
  <2>3. merged[L].els \in Seq(Index)
    <3>1. merged[L] \in ChunkSet
      BY <1>2, <2>2
    <3> QED
      BY <3>1, ElsTyped
  <2> HIDE DEF ds
  <2>4. Hold(ds, R \cup ToSet(c.els))
    <3> HIDE DEF ToSet, Hold, Upward, ChunkSet, Index
    <3> QED
      BY <1>2, <1>4, <1>5, <2>1, <2>2, <2>3, HoldLonger DEF R
  <2> QED
    BY <1>3, <1>6, <1>8, <2>4 DEF ds
<1> QED
  BY <1>7, <1>8

LEMMA OnceInit == Init => OnceInv
BY DEF Init, OnceInv

LEMMA OnceInGroup ==
  ASSUME phase' = "group", pos' <= Len(elems') + 1, metas' = <<>>,
         Hold(FlushSection(section)', Texts(pos - 1)')
  PROVE  OnceInv'
BY DEF OnceInv

LEMMA OnceStep == Typed /\ OnceInv /\ [Next]_vars => OnceInv'
<1> SUFFICES ASSUME Typed, OnceInv, [Next]_vars PROVE OnceInv'
  OBVIOUS
<1>0. /\ pos \in Nat \ {0} /\ (pos + 1) - 1 = pos /\ Len(elems) \in Nat /\ DOMAIN elems = 1..Len(elems)
      /\ Len(chunks) \in Nat /\ DOMAIN chunks = 1..Len(chunks) /\ chunks \in Seq(ChunkSet)
      /\ PolishBatch \in Nat /\ EnrichBatch \in Nat \ {0}
      /\ metas \in Seq({"label", "default"})
  BY ChunkingAssumption DEF Typed
<1>t. elems' = elems => \A n : Texts(n)' = Texts(n)
  BY DEF Texts
<1>n. elems' = elems => Texts(Len(elems))' = Texts(Len(elems))
  BY DEF Texts
<1>f. section' = <<>> => FlushSection(section)' = chunks'
  BY DEF FlushSection
<1>p. phase = "group" /\ pos <= Len(elems) => pos \in Index
  BY <1>0 DEF Index
<1>1. CASE Parse
  <2>1. Nothing /\ pos = 1 /\ section' = section /\ chunks' = chunks /\ pos' = 1 /\ metas' = metas
        /\ phase' = "group"
    BY <1>1 DEF Parse, Typed
  <2>2. FlushSection(section)' = <<>>
    BY <2>1 DEF Nothing, FlushSection
  <2>3. Texts(pos - 1)' = {}
    BY <2>1 DEF Texts
  <2>4. Len(elems') \in Nat
    BY <1>1, ParseFacts
  <2> QED
    BY <2>1, <2>2, <2>3, <2>4, HoldNothing DEF OnceInv, Nothing
<1>2. CASE GroupHeading
  <2>1. Hold(FlushSection(section), Texts(pos - 1)) /\ Texts(pos) = Texts(pos - 1)
    BY <1>2, <1>p, TextsNext DEF OnceInv, GroupHeading
  <2>2. Texts(pos - 1)' = Texts(pos)
    BY <1>0, <1>2 DEF GroupHeading, Texts
  <2>9. phase' = "group" /\ pos' <= Len(elems') + 1 /\ metas' = <<>>
    BY <1>0, <1>2 DEF OnceInv, GroupHeading
  <2>10. Hold(FlushSection(section)', Texts(pos - 1)')
    BY <1>2, <1>f, <2>1, <2>2 DEF GroupHeading
  <2> QED
    BY <2>9, <2>10, OnceInGroup
<1>3. CASE GroupTable
  <2>1. Hold(chunks', Texts(pos))
    BY <1>3, <1>p, TablePut DEF OnceInv, GroupTable
  <2>2. Texts(pos - 1)' = Texts(pos)
    BY <1>0, <1>3 DEF GroupTable, Texts
  <2>9. phase' = "group" /\ pos' <= Len(elems') + 1 /\ metas' = <<>>
    BY <1>0, <1>3 DEF OnceInv, GroupTable
  <2>10. Hold(FlushSection(section)', Texts(pos - 1)')
    BY <1>3, <1>f, <2>1, <2>2 DEF GroupTable
  <2> QED
    BY <2>9, <2>10, OnceInGroup
<1>4. CASE GroupText
  <2>1. Hold(FlushSection(Append(section, pos)), Texts(pos))
    BY <1>4, <1>p, FlushLonger DEF OnceInv, GroupText
  <2>2. Texts(pos - 1)' = Texts(pos)
    BY <1>0, <1>4 DEF GroupText, Texts
  <2>3. FlushSection(section)' = FlushSection(Append(section, pos))
    <3>0. Append(section, pos) # <<>>
      <4>1. pos \in Index /\ section \in Seq(Index)
        BY <1>4, <1>p DEF GroupText, Typed
      <4> QED
        BY <4>1, AppendIs
    <3>1. CASE section' = <<>>
      BY <1>4, <1>f, <3>0, <3>1 DEF GroupText
    <3>2. CASE section' # <<>>
      <4>1. section' = Append(section, pos) /\ chunks' = chunks /\ elems' = elems /\ stack' = stack
        BY <1>4, <3>2 DEF GroupText
      <4> QED
        BY <4>1 DEF FlushSection, Chunk, TextOfAll, TextOf, Joined
    <3> QED
      BY <3>1, <3>2
  <2>9. phase' = "group" /\ pos' <= Len(elems') + 1 /\ metas' = <<>>
    BY <1>0, <1>4 DEF OnceInv, GroupText
  <2>10. Hold(FlushSection(section)', Texts(pos - 1)')
    BY <1>4, <1>f, <2>1, <2>2, <2>3 DEF GroupText
  <2> QED
    BY <2>9, <2>10, OnceInGroup
<1>5. CASE GroupEnd
  <2>1. Hold(chunks', Texts(Len(elems))) /\ pos - 1 = Len(elems)
    BY <1>0, <1>5 DEF OnceInv, GroupEnd
  <2>2. merged' = <<>> /\ pos' = 1
    BY <1>5 DEF GroupEnd, Typed
  <2>3. InChunks(1..(pos - 1))' = {}
    BY <2>2 DEF InChunks
  <2>4. Len(chunks') \in Nat
    BY <1>5, FlushTyped DEF GroupEnd, Typed
  <2>5. phase' = "merge" /\ metas' = <<>> /\ elems' = elems
    BY <1>5 DEF OnceInv, GroupEnd
  <2>6. Hold(merged', InChunks(1..(pos - 1))')
    BY <2>2, <2>3, HoldNothing
  <2>7. Hold(chunks', Texts(Len(elems))') /\ pos' <= Len(chunks') + 1
    BY <1>n, <2>1, <2>2, <2>4, <2>5
  <2> QED
    BY <2>5, <2>6, <2>7 DEF OnceInv
<1>6. CASE MergeShort
  <2>1. Hold(merged', InChunks(1..pos))
    BY <1>6, MergeOnce DEF OnceInv, MergeShort
  <2>2. InChunks(1..(pos - 1))' = InChunks(1..pos)
    BY <1>0, <1>6 DEF MergeShort, InChunks
  <2> QED
    BY <1>0, <1>6, <1>n, <2>1, <2>2 DEF OnceInv, MergeShort
<1>7. CASE MergeEnd
  <2>1. pos - 1 = Len(chunks)
    BY <1>0, <1>7 DEF OnceInv, MergeEnd
  <2>2. InChunks(1..(pos - 1)) = Texts(Len(elems))
    BY <1>0, <1>7, <2>1 DEF OnceInv, MergeEnd, InChunks, Hold
  <2> QED
    BY <1>7, <1>n, <2>2 DEF OnceInv, MergeEnd
<1>8. CASE NaturalizeTables
  <2>1. DOMAIN chunks' = DOMAIN chunks /\ \A k \in DOMAIN chunks : chunks'[k].els = chunks[k].els
    BY <1>0, <1>8, TablesFacts DEF Rewritten
  <2>2. Hold(chunks', Texts(Len(elems)))
    <3>1. Hold(chunks, Texts(Len(elems)))
      BY <1>8 DEF OnceInv, NaturalizeTables
    <3> QED
      BY ZenonT(30), <2>1, <3>1, HoldSame
  <2> QED
    BY <1>8, <1>n, <2>2 DEF OnceInv, NaturalizeTables
<1>9. CASE PolishChunks
  <2>1. DOMAIN chunks' = DOMAIN chunks /\ \A k \in DOMAIN chunks : chunks'[k].els = chunks[k].els
    BY <1>0, <1>9, PolishedFacts DEF Rewritten
  <2>2. Hold(chunks', Texts(Len(elems)))
    <3>1. Hold(chunks, Texts(Len(elems)))
      BY <1>9 DEF OnceInv, PolishChunks
    <3> QED
      BY ZenonT(30), <2>1, <3>1, HoldSame
  <2> QED
    BY <1>9, <1>n, <2>2 DEF OnceInv, PolishChunks
<1>10. CASE Embed
  <2>1. Len(metas') = Smaller(pos - 1, Len(chunks))'
    BY <1>0, <1>10 DEF OnceInv, Embed, Smaller
  <2> QED
    BY <1>10, <1>n, <2>1 DEF OnceInv, Embed
<1>11. CASE EnrichChunks
  <2> DEFINE n == Smaller(EnrichBatch, Len(chunks) - pos + 1)
  <2>1. n \in Nat
    BY <1>0, <1>11 DEF EnrichChunks, Smaller
  <2>2. PICK reply \in Answers({"label", "default"}, n) : metas' = metas \o Labels(reply, n)
    BY <1>11 DEF EnrichChunks
  <2>0. pos <= Len(chunks)
    BY <1>11 DEF EnrichChunks
  <2>3. Smaller(pos - 1, Len(chunks)) + n = Smaller(pos + EnrichBatch - 1, Len(chunks))
    <3>1. CASE EnrichBatch < Len(chunks) - pos + 1
      BY <1>0, <2>0, <3>1 DEF Smaller
    <3>2. CASE ~(EnrichBatch < Len(chunks) - pos + 1)
      <4>1. n = Len(chunks) - pos + 1
        BY <3>2 DEF Smaller
      <4>2. pos - 1 < Len(chunks) /\ ~(pos + EnrichBatch - 1 < Len(chunks))
        BY <1>0, <2>0, <3>2
      <4> HIDE DEF n
      <4> QED
        BY <1>0, <4>1, <4>2 DEF Smaller
    <3> QED
      BY <3>1, <3>2
  <2>4. Len(metas) = Smaller(pos - 1, Len(chunks))
    BY <1>11 DEF OnceInv, EnrichChunks
  <2> HIDE DEF n
  <2>5. Len(metas') = Len(metas) + n
    <3>1. Labels(reply, n) \in Seq({"label", "default"}) /\ Len(Labels(reply, n)) = n
      BY <2>1, <2>2, LabelsFacts
    <3> DEFINE more == Labels(reply, n)
    <3>2. more \in Seq({"label", "default"}) /\ Len(more) = n /\ metas' = metas \o more
      BY <2>2, <3>1
    <3> HIDE DEF more
    <3>3. metas \in Seq({"label", "default"})
      BY <1>0
    <3> QED
      BY <3>2, <3>3
  <2>6. Len(metas') = Smaller(pos - 1, Len(chunks))'
    <3>1. pos' = pos + EnrichBatch /\ chunks' = chunks
      BY <1>11 DEF EnrichChunks
    <3>2. Smaller(pos - 1, Len(chunks))' = Smaller(pos + EnrichBatch - 1, Len(chunks))
      BY <1>0, <3>1 DEF Smaller
    <3> QED
      BY <2>3, <2>4, <2>5, <3>2
  <2> QED
    BY <1>11, <1>n, <2>6 DEF OnceInv, EnrichChunks
<1>12. CASE Store
  <2>1. Smaller(Len(chunks), Len(metas)) = Len(chunks)
    BY <1>0, <1>12 DEF OnceInv, Store, Smaller
  <2>2. stored' = chunks
    BY <1>0, <1>12, <2>1 DEF Store
  <2> QED
    BY <1>12, <1>n, <2>2 DEF OnceInv, Store
<1>13. CASE Fail
  BY <1>13 DEF OnceInv, Fail
<1>14. CASE UNCHANGED vars
  <2>1. /\ Texts(Len(elems))' = Texts(Len(elems)) /\ Texts(pos - 1)' = Texts(pos - 1)
        /\ InChunks(1..(pos - 1))' = InChunks(1..(pos - 1))
    BY <1>14 DEF vars, Texts, InChunks
  <2>2. FlushSection(section)' = FlushSection(section)
    BY <1>14 DEF vars, FlushSection, Chunk, TextOfAll, TextOf, Joined
  <2> QED
    BY <1>14, <2>1, <2>2 DEF vars, OnceInv
<1> QED
  BY <1>1, <1>2, <1>3, <1>4, <1>5, <1>6, <1>7, <1>8, <1>9, <1>10, <1>11, <1>12, <1>13, <1>14 DEF Next

LEMMA OnceTells == OnceInv => EveryTextOnce
BY DEF OnceInv, EveryTextOnce

-----------------------------------------------------------------------------
(* The path of a chunk                                                     *)

LEMMA LevelTyped ==
  ASSUME Typed, NEW i \in Index
  PROVE  Level(i) \in Nat
<1>1. elems[i] \in Elements
  BY DEF Typed, Index
<1>2. elems[i].level \in Nat
  BY <1>1 DEF Elements
<1> QED
  BY <1>2 DEF Level

(* Where no heading lies between, the headings in force are the same.      *)
LEMMA EnclosingSame ==
  ASSUME Typed, NEW i \in Nat, NEW j \in Nat, i <= j,
         \A g \in Headings : g < i \/ j <= g
  PROVE  Enclosing(i) = Enclosing(j)
<1>1. Headings \in SUBSET Nat
  BY DEF Headings, Typed
<1>2. \A g \in Headings : g < i <=> g < j
  BY <1>1
<1> QED
  BY <1>2 DEF Enclosing

LEMMA EnclosingNext ==
  ASSUME Typed, pos \in Index, elems[pos].type = "heading"
  PROVE  Enclosing(pos + 1) = {pos} \cup {h \in Enclosing(pos) : Level(h) < Level(pos)}
<1>1. Headings \in SUBSET Nat /\ pos \in Nat /\ pos \in Headings
  BY DEF Headings, Typed, Index
<1>2. \A g \in Headings : g < pos + 1 <=> g < pos \/ g = pos
  BY <1>1
<1>3. \A g \in Headings : Level(g) \in Nat
  BY LevelTyped DEF Headings, Index
<1>4. ASSUME NEW g \in Headings PROVE ~(g < g) /\ (g < pos => g # pos /\ ~(pos < g))
  BY <1>1
<1>5. \A g \in Headings : Level(pos) > Level(g) <=> Level(g) < Level(pos)
  BY <1>1, <1>3
<1>6. pos \in Enclosing(pos + 1)
  BY <1>1, <1>2, <1>4 DEF Enclosing
<1>7. ASSUME NEW h \in Enclosing(pos + 1), h # pos PROVE h \in Enclosing(pos) /\ Level(h) < Level(pos)
  BY <1>1, <1>2, <1>5, <1>7 DEF Enclosing
<1>8. ASSUME NEW h \in Enclosing(pos), Level(h) < Level(pos) PROVE h \in Enclosing(pos + 1)
  BY <1>1, <1>2, <1>5, <1>8 DEF Enclosing
<1> QED
  BY <1>6, <1>7, <1>8

(* What Enter leaves on the stack are the headings that stay in force.     *)
LEMMA EnterEncloses ==
  ASSUME Typed, pos \in Index, elems[pos].type = "heading", Lists(stack, Enclosing(pos))
  PROVE  Lists(Enter(pos), Enclosing(pos + 1))
<1> DEFINE p == Enter(pos)
<1>1. PICK m \in 0..Len(stack) : /\ p = Append(SubSeq(stack, 1, m), pos)
                                 /\ m = 0 \/ m \in Higher(pos)
                                 /\ \A k \in Higher(pos) : k <= m
  BY EnterFacts
<1>2. /\ p \in Seq(Index) /\ Len(p) = m + 1 /\ m \in Nat
      /\ p[m + 1] = pos /\ \A k \in 1..m : p[k] = stack[k]
  BY <1>1, EnterTyped
<1>3. /\ DOMAIN p = 1..(m + 1) /\ DOMAIN stack = 1..Len(stack) /\ Len(stack) \in Nat
      /\ 1..m \subseteq DOMAIN stack
  BY <1>1, <1>2 DEF Typed
<1> HIDE DEF p
<1>4. /\ \A k \in DOMAIN stack : stack[k] \in Enclosing(pos) /\ stack[k] \in Headings /\ stack[k] < pos
      /\ \A h \in Enclosing(pos) : \E k \in DOMAIN stack : h = stack[k]
      /\ \A k, l \in DOMAIN stack : k < l => stack[k] < stack[l]
  BY DEF Lists, ToSet, Enclosing
<1>5. Headings \subseteq Index /\ Headings \in SUBSET Nat /\ pos \in Nat
  BY DEF Headings, Typed, Index
<1>6. \A h \in Headings : Level(h) \in Nat
  BY <1>5, LevelTyped
<1>7. ASSUME NEW k \in 1..m PROVE Level(stack[k]) < Level(pos)
  <2>1. m \in DOMAIN stack /\ Level(stack[m]) < Level(pos) /\ k \in DOMAIN stack
    BY <1>1, <1>2, <1>3 DEF Higher
  <2>2. k = m \/ k < m
    BY <1>2
  <2>3. CASE k < m
    <3>1. stack[k] < stack[m] /\ stack[m] < pos /\ stack[k] \in Enclosing(pos) /\ stack[m] \in Headings
      BY <1>4, <2>1, <2>3
    <3>2. Level(stack[m]) > Level(stack[k])
      BY <3>1 DEF Enclosing
    <3>3. Level(pos) \in Nat /\ Level(stack[m]) \in Nat /\ Level(stack[k]) \in Nat
      BY <1>4, <1>6, <2>1, LevelTyped
    <3> QED
      BY <2>1, <3>2, <3>3
  <2> QED
    BY <2>1, <2>2, <2>3
<1>8. ToSet(p) = Enclosing(pos + 1)
  <2>1. Enclosing(pos + 1) = {pos} \cup {h \in Enclosing(pos) : Level(h) < Level(pos)}
    BY EnclosingNext
  <2>2. ASSUME NEW k \in DOMAIN p PROVE p[k] \in Enclosing(pos + 1)
    <3>1. k \in 1..m \/ k = m + 1
      BY <1>2, <1>3
    <3> QED
      BY <1>2, <1>3, <1>4, <1>7, <2>1, <3>1
  <2>3. ASSUME NEW h \in Enclosing(pos + 1) PROVE \E k \in DOMAIN p : h = p[k]
    <3>1. CASE h = pos
      BY <1>2, <1>3, <3>1
    <3>2. CASE h \in Enclosing(pos) /\ Level(h) < Level(pos)
      <4>1. PICK k \in DOMAIN stack : h = stack[k]
        BY <1>4, <3>2
      <4>2. k \in Higher(pos)
        BY <3>2, <4>1 DEF Higher
      <4>3. k \in 1..m /\ k \in DOMAIN p
        BY <1>1, <1>2, <1>3, <4>1, <4>2
      <4> QED
        BY <1>2, <4>1, <4>3
    <3> QED
      BY <2>1, <3>1, <3>2
  <2> QED
    BY <2>2, <2>3 DEF ToSet
<1>9. ASSUME NEW k \in DOMAIN p, NEW l \in DOMAIN p, k < l PROVE p[k] < p[l]
  <2>1. k \in 1..m
    BY <1>2, <1>3, <1>9
  <2>2. l \in 1..m \/ l = m + 1
    BY <1>2, <1>3
  <2> QED
    BY <1>2, <1>3, <1>4, <1>9, <2>1, <2>2
<1> QED
  BY <1>8, <1>9 DEF Lists, p

Pathed(c) == Lists(c.path, Enclosing(c.els[1]))

PathInv ==
  /\ phase = "parse" => pos = 1 /\ stack = <<>> /\ section = <<>>
  /\ phase = "group" =>
       /\ Lists(stack, Enclosing(pos))
       /\ section # <<>> => section[1] < pos /\ \A g \in Headings : g < section[1] \/ pos <= g
  /\ \A k \in DOMAIN chunks : Pathed(chunks[k])
  /\ \A k \in DOMAIN merged : Pathed(merged[k])

(* What is flushed from here has the stack for its path.                   *)
LEMMA FlushPathed ==
  ASSUME Typed, PathInv, phase = "group", NEW s \in Seq(Index),
         s # <<>> => s[1] <= pos /\ \A g \in Headings : g < s[1] \/ pos <= g
  PROVE  /\ FlushSection(s) \in Seq(ChunkSet)
         /\ \A k \in DOMAIN FlushSection(s) : Pathed(FlushSection(s)[k])
<1>1. FlushSection(s) \in Seq(ChunkSet)
  BY FlushTyped
<1>2. CASE s = <<>>
  BY <1>1, <1>2 DEF FlushSection, PathInv
<1>3. CASE s # <<>>
  <2> DEFINE c == Chunk("section", s)
  <2>1. c \in ChunkSet /\ c.path = stack /\ c.els = s
    BY <1>3, ChunkFacts
  <2>2. s[1] \in Nat /\ pos \in Nat
    BY <1>3 DEF Typed, Index
  <2>3. Enclosing(s[1]) = Enclosing(pos)
    BY <1>3, <2>2, EnclosingSame
  <2>4. Pathed(c)
    BY <2>1, <2>3 DEF Pathed, PathInv
  <2>5. FlushSection(s) = Append(chunks, c) /\ chunks \in Seq(ChunkSet)
    BY <1>3 DEF FlushSection, Typed
  <2> HIDE DEF c, ChunkSet
  <2>6. ASSUME NEW k \in DOMAIN Append(chunks, c) PROVE Pathed(Append(chunks, c)[k])
    <3>1. (k \in DOMAIN chunks /\ Append(chunks, c)[k] = chunks[k]) \/ Append(chunks, c)[k] = c
      BY <2>1, <2>5
    <3> QED
      BY <2>4, <3>1 DEF PathInv
  <2> QED
    BY <1>1, <2>5, <2>6
<1> QED
  BY <1>2, <1>3

(* The path and the first element of a chunk are not touched any more.     *)
LEMMA PathedSame ==
  ASSUME elems' = elems
  PROVE  /\ \A c, d : Pathed(c) /\ d.path = c.path /\ d.els[1] = c.els[1] => Pathed(d)'
         /\ \A p, i : Lists(p, Enclosing(i)) => Lists(p, Enclosing(i)')
         /\ Headings' = Headings
<1>1. \A i : Enclosing(i)' = Enclosing(i)
  BY DEF Enclosing, Headings, Level
<1> QED
  BY <1>1 DEF Pathed, Headings

LEMMA PathInit == Init => PathInv
BY DEF Init, PathInv

(* A chunk that has path and first element from one that was there.        *)
Follows(d) == \E c : Pathed(c) /\ d.path = c.path /\ d.els[1] = c.els[1]

(* A step that adds to the chunks or changes only their texts.             *)
LEMMA PathKept ==
  ASSUME elems' = elems, phase' \notin {"parse", "group"},
         \A k \in DOMAIN chunks' : Follows(chunks'[k]),
         \A k \in DOMAIN merged' : Follows(merged'[k])
  PROVE  PathInv'
BY PathedSame DEF PathInv, Follows

LEMMA PathStep == Typed /\ PathInv /\ [Next]_vars => PathInv'
<1> SUFFICES ASSUME Typed, PathInv, [Next]_vars PROVE PathInv'
  OBVIOUS
<1>0. /\ pos \in Nat \ {0} /\ Len(elems) \in Nat /\ DOMAIN elems = 1..Len(elems)
      /\ Len(chunks) \in Nat /\ DOMAIN chunks = 1..Len(chunks) /\ chunks \in Seq(ChunkSet)
      /\ section \in Seq(Index) /\ merged \in Seq(ChunkSet)
  BY DEF Typed
<1>p. phase = "group" /\ pos <= Len(elems) => pos \in Index /\ pos <= pos + 1
  BY <1>0 DEF Index
<1>h. Headings \in SUBSET Nat /\ \A g \in Headings : elems[g].type = "heading"
  BY DEF Headings, Typed
<1>c. \A k \in DOMAIN chunks : Follows(chunks[k])
  BY DEF PathInv, Follows
<1>m. \A k \in DOMAIN merged : Follows(merged[k])
  BY DEF PathInv, Follows
<1>g. ASSUME phase = "group"
      PROVE  Lists(stack, Enclosing(pos)) /\ merged = <<>>
             /\ (section # <<>> => section[1] < pos /\ \A g \in Headings : g < section[1] \/ pos <= g)
  BY <1>g DEF PathInv, Typed
<1>s. ASSUME phase = "group"
      PROVE  /\ FlushSection(section) \in Seq(ChunkSet)
             /\ \A k \in DOMAIN FlushSection(section) : Pathed(FlushSection(section)[k])
  <2>1. section # <<>> => section[1] <= pos
    <3>1. section # <<>> => section[1] \in Nat
      BY <1>0 DEF Index
    <3> QED
      BY <1>0, <1>g, <1>s, <3>1
  <2> QED
    BY <1>0, <1>g, <1>s, <2>1, FlushPathed
<1>1. CASE Parse
  <2>1. Nothing /\ merged = <<>> /\ pos = 1
    BY <1>1 DEF Parse, Typed
  <2>2. /\ pos' = 1 /\ stack' = <<>> /\ section' = <<>> /\ chunks' = <<>> /\ merged' = <<>>
        /\ phase' = "group"
    BY <1>1, <2>1 DEF Parse, Nothing
  <2>3. Headings' \subseteq Nat \ {0}
    <3>1. elems' \in Seq(Elements)
      BY <1>1, ParseFacts
    <3> QED
      BY <3>1 DEF Headings
  <2>4. Enclosing(pos)' = {}
    <3>1. \A g \in Headings' : ~(g < 1)
      BY <2>3
    <3> QED
      BY <2>2, <3>1 DEF Enclosing
  <2>5. Lists(stack', Enclosing(pos)')
    BY <2>2, <2>4 DEF Lists, ToSet
  <2> QED
    BY <2>2, <2>5 DEF PathInv
<1>2. CASE GroupHeading
  <2>1. phase = "group" /\ pos \in Index /\ elems[pos].type = "heading"
    BY <1>2, <1>p DEF GroupHeading
  <2>2. Lists(Enter(pos), Enclosing(pos + 1))
    BY <1>g, <2>1, EnterEncloses
  <2>3. /\ stack' = Enter(pos) /\ pos' = pos + 1 /\ section' = <<>> /\ chunks' = FlushSection(section)
        /\ merged' = merged /\ elems' = elems /\ phase' = phase
    BY <1>2 DEF GroupHeading
  <2>4. Lists(stack', Enclosing(pos)')
    BY <2>2, <2>3, PathedSame
  <2>5. \A k \in DOMAIN chunks' : Pathed(chunks[k])'
    BY <1>s, <2>1, <2>3, PathedSame
  <2> QED
    BY <1>g, <2>1, <2>3, <2>4, <2>5 DEF PathInv
<1>3. CASE GroupTable
  <2>1. phase = "group" /\ pos \in Index /\ elems[pos].type = "table"
    BY <1>3, <1>p DEF GroupTable
  <2> DEFINE c == Chunk("table", <<pos>>)  F == FlushSection(section)
  <2>2. /\ stack' = stack /\ pos' = pos + 1 /\ section' = <<>> /\ chunks' = Append(F, c)
        /\ merged' = merged /\ elems' = elems /\ phase' = phase
    BY <1>3 DEF GroupTable
  <2>3. c \in ChunkSet /\ c.path = stack /\ c.els = <<pos>>
    BY <2>1, OneOf, ChunkFacts
  <2>4. Pathed(c)
    BY <1>g, <2>1, <2>3 DEF Pathed
  <2> HIDE DEF c, F, ChunkSet
  <2>5. ASSUME NEW k \in DOMAIN chunks' PROVE Pathed(chunks'[k])
    <3>1. (k \in DOMAIN F /\ chunks'[k] = F[k]) \/ chunks'[k] = c
      BY <1>s, <2>1, <2>2, <2>3 DEF F
    <3> QED
      BY <1>s, <2>1, <2>4, <3>1 DEF F
  <2>6. Enclosing(pos) = Enclosing(pos + 1)
    <3>1. \A g \in Headings : g # pos
      BY <1>h, <2>1
    <3>2. \A g \in Headings : g < pos \/ pos + 1 <= g
      BY <1>0, <1>h, <3>1
    <3> QED
      BY <1>0, <1>p, <2>1, <3>2, EnclosingSame DEF GroupTable
  <2>7. Lists(stack', Enclosing(pos)')
    BY <1>g, <2>1, <2>2, <2>6, PathedSame
  <2>8. \A k \in DOMAIN chunks' : Pathed(chunks[k])'
    BY <2>2, <2>5, PathedSame
  <2> QED
    BY <1>g, <2>1, <2>2, <2>7, <2>8 DEF PathInv
<1>4. CASE GroupText
  <2> DEFINE longer == Append(section, pos)
  <2>1. phase = "group" /\ pos \in Index /\ elems[pos].type # "heading" /\ pos <= pos + 1
    BY <1>4, <1>p DEF GroupText
  <2>2. /\ stack' = stack /\ pos' = pos + 1 /\ merged' = merged /\ elems' = elems /\ phase' = phase
        /\ \/ chunks' = FlushSection(longer) /\ section' = <<>>
           \/ chunks' = chunks /\ section' = longer
    BY <1>4 DEF GroupText
  <2>3. /\ longer \in Seq(Index) /\ longer # <<>>
        /\ longer[1] = IF section = <<>> THEN pos ELSE section[1]
    <3>1. longer \in Seq(Index) /\ longer # <<>> /\ longer = section \o <<pos>>
      BY <1>0, <2>1, AppendIs
    <3>2. section # <<>> => (section \o <<pos>>)[1] = section[1]
      BY <1>0, <2>1, OneOf, FirstOf
    <3>3. section = <<>> => longer[1] = pos
      OBVIOUS
    <3> QED
      BY <3>1, <3>2, <3>3
  <2> HIDE DEF longer
  <2>4. \A g \in Headings : g < pos \/ pos + 1 <= g
    <3>1. \A g \in Headings : g # pos
      BY <1>h, <2>1
    <3> QED
      BY <1>0, <1>h, <3>1
  <2>5. /\ longer[1] \in Nat /\ longer[1] <= pos /\ longer[1] < pos + 1
        /\ \A g \in Headings : g < longer[1] \/ pos <= g
        /\ \A g \in Headings : g < longer[1] \/ pos + 1 <= g
    <3>1. CASE section = <<>>
      BY <1>0, <1>h, <2>3, <2>4, <3>1
    <3>2. CASE section # <<>>
      <4>1. section[1] \in Nat
        BY <1>0, <3>2 DEF Index
      <4>2. \A g \in Headings : g < section[1] \/ pos <= g
        BY <1>g, <2>1, <3>2
      <4>3. section[1] < pos
        BY <1>g, <2>1, <3>2
      <4>4. longer[1] = section[1]
        BY <2>3, <3>2
      <4>5. \A g \in Headings : g < longer[1] \/ pos + 1 <= g
        BY <1>0, <1>h, <2>4, <4>1, <4>2, <4>4
      <4> QED
        BY <1>0, <4>1, <4>2, <4>3, <4>4, <4>5
    <3> QED
      BY <3>1, <3>2
  <2>6. \A k \in DOMAIN FlushSection(longer) : Pathed(FlushSection(longer)[k])
    BY <2>1, <2>3, <2>5, FlushPathed
  <2>7. Lists(stack', Enclosing(pos)')
    <3>1. Enclosing(pos) = Enclosing(pos + 1)
      BY <1>0, <2>1, <2>4, EnclosingSame
    <3> QED
      BY <1>g, <2>1, <2>2, <3>1, PathedSame
  <2>8. \A k \in DOMAIN chunks' : Pathed(chunks[k])'
    <3>1. \A k \in DOMAIN chunks' : Pathed(chunks'[k])
      BY <2>2, <2>6 DEF PathInv
    <3> QED
      BY <2>2, <3>1, PathedSame
  <2>9. section' # <<>> => section'[1] < pos' /\ \A g \in Headings' : g < section'[1] \/ pos' <= g
    BY <2>2, <2>5, PathedSame
  <2> QED
    BY <1>g, <2>1, <2>2, <2>7, <2>8, <2>9 DEF PathInv
<1>5. CASE GroupEnd
  <2>1. /\ phase = "group" /\ elems' = elems /\ phase' = "merge" /\ merged' = merged
        /\ chunks' = FlushSection(section)
    BY <1>5 DEF GroupEnd
  <2>2. \A k \in DOMAIN chunks' : Follows(chunks'[k])
    BY <1>s, <2>1 DEF Follows
  <2> QED
    BY <1>m, <2>1, <2>2, PathKept
<1>6. CASE MergeShort
  <2> DEFINE c == chunks[pos]  L == Len(merged)
  <2>1. /\ pos \in DOMAIN chunks /\ elems' = elems /\ phase' = "merge" /\ chunks' = chunks
        /\ merged' = IF Joins(merged, c) THEN JoinLast(merged, c) ELSE Append(merged, c)
    BY <1>0, <1>6 DEF MergeShort
  <2>2. c \in ChunkSet /\ Pathed(c)
    BY <1>0, <2>1 DEF PathInv
  <2> HIDE DEF c
  <2>3. \A k \in DOMAIN merged' : Follows(merged'[k])
    <3>1. CASE ~Joins(merged, c)
      <4> SUFFICES ASSUME NEW k \in DOMAIN merged'
                   PROVE  Follows(merged'[k])
        OBVIOUS
      <4> HIDE DEF ChunkSet
      <4>1. (k \in DOMAIN merged /\ merged'[k] = merged[k]) \/ merged'[k] = c
        BY <1>0, <2>1, <2>2, <3>1
      <4> QED
        BY <1>m, <2>2, <4>1 DEF Follows
    <3>2. CASE Joins(merged, c)
      <4> DEFINE ds == JoinLast(merged, c)
      <4>1. merged # <<>>
        BY <3>2 DEF Joins
      <4>2. /\ ds \in Seq(ChunkSet) /\ Len(ds) = L /\ L \in Nat \ {0}
            /\ \A k \in 1..L : k # L => ds[k] = merged[k]
            /\ ds[L].path = merged[L].path /\ ds[L].els = merged[L].els \o c.els
        BY <1>0, <2>2, <4>1, JoinLastFacts
      <4>3. merged' = ds
        BY <2>1, <3>2
      <4> HIDE DEF ds
      <4>4. ds[L].els[1] = merged[L].els[1]
        <5>1. merged[L] \in ChunkSet
          BY <1>0, <4>2
        <5>2. merged[L].els \in Seq(Index) /\ merged[L].els # <<>> /\ c.els \in Seq(Index)
          BY <2>2, <5>1, ElsTyped
        <5>3. (merged[L].els \o c.els)[1] = merged[L].els[1]
          BY Zenon, <5>2, FirstOf
        <5> QED
          BY Zenon, <4>2, <5>3
      <4>5. DOMAIN merged' = 1..L /\ DOMAIN merged = 1..L
        BY <1>0, <4>2, <4>3
      <4>6. \A k \in 1..L : merged'[k].path = merged[k].path /\ merged'[k].els[1] = merged[k].els[1]
        BY <4>2, <4>3, <4>4
      <4> QED
        BY <4>5, <4>6 DEF PathInv, Follows
    <3> QED
      BY <3>1, <3>2
  <2>4. \A k \in DOMAIN chunks' : Follows(chunks'[k])
    BY <1>c, <2>1
  <2> QED
    BY <2>1, <2>3, <2>4, PathKept
<1>7. CASE MergeEnd
  BY <1>7, <1>m, PathKept DEF MergeEnd
<1>8. CASE NaturalizeTables
  <2>1. \A k \in DOMAIN chunks' : Follows(chunks'[k])
    <3>1. DOMAIN chunks' = DOMAIN chunks /\ \A k \in DOMAIN chunks : Rewritten(chunks[k], chunks'[k])
      BY <1>0, <1>8, TablesFacts
    <3> QED
      BY <3>1 DEF Rewritten, PathInv, Follows
  <2> QED
    BY <1>8, <1>m, <2>1, PathKept DEF NaturalizeTables
<1>9. CASE PolishChunks
  <2>1. \A k \in DOMAIN chunks' : Follows(chunks'[k])
    <3>1. DOMAIN chunks' = DOMAIN chunks /\ \A k \in DOMAIN chunks : Rewritten(chunks[k], chunks'[k])
      BY <1>0, <1>9, PolishedFacts
    <3> QED
      BY <3>1 DEF Rewritten, PathInv, Follows
  <2> QED
    BY <1>9, <1>m, <2>1, PathKept DEF PolishChunks
<1>10. CASE Embed
  BY <1>10, <1>c, <1>m, PathKept DEF Embed
<1>11. CASE EnrichChunks
  BY <1>11, <1>c, <1>m, PathKept DEF EnrichChunks
<1>12. CASE Store
  BY <1>12, <1>c, <1>m, PathKept DEF Store
<1>13. CASE Fail
  BY <1>13, <1>c, <1>m, PathKept DEF Fail
<1>14. CASE UNCHANGED vars
  <2>1. elems' = elems /\ pos' = pos /\ stack' = stack /\ section' = section /\ phase' = phase
        /\ chunks' = chunks /\ merged' = merged
    BY <1>14 DEF vars
  <2>2. \A k \in DOMAIN chunks' : Pathed(chunks[k])'
    BY <2>1, PathedSame DEF PathInv
  <2>3. \A k \in DOMAIN merged' : Pathed(merged[k])'
    BY <2>1, PathedSame DEF PathInv
  <2>4. phase' = "group" => Lists(stack', Enclosing(pos)')
    BY <2>1, PathedSame DEF PathInv
  <2> QED
    BY <2>1, <2>2, <2>3, <2>4, PathedSame DEF PathInv
<1> QED
  BY <1>1, <1>2, <1>3, <1>4, <1>5, <1>6, <1>7, <1>8, <1>9, <1>10, <1>11, <1>12, <1>13, <1>14 DEF Next

LEMMA PathTells == PathInv => PathEncloses
BY DEF PathInv, PathEncloses, Pathed

-----------------------------------------------------------------------------
(* The numbers of a section                                                *)

Raw(c) == c.text = TextOfAll(c.els)

Sound(c) ==
  LET orig == TextOfAll(c.els) IN
  /\ c.text.size * 10 >= orig.size * 7
  /\ \A i \in DOMAIN c.els : \A n \in elems[c.els[i]].nums : \E m \in c.text.nums : Inside(n, m)

NumbersInv ==
  /\ phase \in {"group", "merge"} => \A k \in DOMAIN chunks : Raw(chunks[k])
  /\ phase = "merge" => \A k \in DOMAIN merged : Raw(merged[k])
  /\ phase = "tables" => \A k \in DOMAIN chunks : Raw(chunks[k])
  /\ phase = "polish" =>
       \A k \in Sections : Sound(chunks[k]) /\ (Place(k) >= pos => Raw(chunks[k]))
  /\ phase \in {"enrich", "stored"} => \A k \in Sections : Sound(chunks[k])

LEMMA TextOfAllTyped ==
  ASSUME Typed, NEW c \in ChunkSet
  PROVE  /\ TextOfAll(c.els) \in Measured
         /\ \A k \in DOMAIN c.els : elems[c.els[k]].nums \subseteq TextOfAll(c.els).nums
BY ElsTyped, TextOfAllFacts DEF Typed

(* As joined, a section has what it must; polished from there, it keeps it.*)
LEMMA RawSound ==
  ASSUME Typed, NEW c \in ChunkSet, Raw(c)
  PROVE  Sound(c)
<1>1. TextOfAll(c.els).size \in Nat
  BY TextOfAllTyped DEF Measured
<1>2. \A n : Inside(n, n)
  BY DEF Inside
<1> HIDE DEF Inside
<1> QED
  BY <1>1, <1>2, TextOfAllTyped DEF Raw, Sound

LEMMA PolishedSound ==
  ASSUME Typed, NEW c \in ChunkSet, NEW d, d.els = c.els, Raw(c),
         d.text = c.text \/ ValidatePolish(c.text, d.text)
  PROVE  Sound(d)
<1>1. CASE d.text = c.text
  BY <1>1, RawSound DEF Raw, Sound
<1>2. CASE ValidatePolish(c.text, d.text)
  BY <1>2, TextOfAllTyped DEF Raw, Sound, ValidatePolish
<1> QED
  BY <1>1, <1>2

LEMMA RawSame ==
  ASSUME elems' = elems
  PROVE  /\ \A c : Raw(c)' <=> Raw(c)
         /\ \A c, d : Sound(c) /\ d.els = c.els /\ d.text = c.text => Sound(d)'
         /\ \A c : Sound(c)' <=> Sound(c)
<1>1. \A s : TextOfAll(s)' = TextOfAll(s)
  BY DEF TextOfAll, TextOf, Joined
<1> QED
  BY <1>1 DEF Raw, Sound

LEMMA FlushRaw ==
  ASSUME Typed, \A k \in DOMAIN chunks : Raw(chunks[k]), NEW s \in Seq(Index)
  PROVE  /\ FlushSection(s) \in Seq(ChunkSet)
         /\ \A k \in DOMAIN FlushSection(s) : Raw(FlushSection(s)[k])
<1>1. FlushSection(s) \in Seq(ChunkSet)
  BY FlushTyped
<1>2. CASE s = <<>>
  BY <1>1, <1>2 DEF FlushSection
<1>3. CASE s # <<>>
  <2> DEFINE c == Chunk("section", s)
  <2>1. c \in ChunkSet /\ Raw(c)
    BY <1>3, ChunkFacts DEF Raw
  <2>2. FlushSection(s) = Append(chunks, c) /\ chunks \in Seq(ChunkSet)
    BY <1>3 DEF FlushSection, Typed
  <2> HIDE DEF c, ChunkSet
  <2>3. ASSUME NEW k \in DOMAIN Append(chunks, c) PROVE Raw(Append(chunks, c)[k])
    <3>1. (k \in DOMAIN chunks /\ Append(chunks, c)[k] = chunks[k]) \/ Append(chunks, c)[k] = c
      BY <2>1, <2>2
    <3> QED
      BY <2>1, <3>1
  <2> QED
    BY <1>1, <2>2, <2>3
<1> QED
  BY <1>2, <1>3

(* The join keeps the text of a chunk the text of its elements.            *)
LEMMA MergeRaw ==
  ASSUME Typed, MergeShort, \A k \in DOMAIN chunks : Raw(chunks[k]), \A k \in DOMAIN merged : Raw(merged[k])
  PROVE  \A k \in DOMAIN merged' : Raw(merged'[k])
<1> DEFINE c == chunks[pos]  L == Len(merged)  ds == JoinLast(merged, c)
<1>1. /\ pos \in DOMAIN chunks /\ merged \in Seq(ChunkSet) /\ chunks \in Seq(ChunkSet)
      /\ merged' = IF Joins(merged, c) THEN ds ELSE Append(merged, c)
  BY DEF MergeShort, Typed
<1>2. c \in ChunkSet /\ Raw(c)
  BY <1>1
<1> HIDE DEF c, ds
<1>3. CASE ~Joins(merged, c)
  <2> HIDE DEF ChunkSet
  <2> SUFFICES ASSUME NEW k \in DOMAIN merged' PROVE Raw(merged'[k])
    OBVIOUS
  <2>1. (k \in DOMAIN merged /\ merged'[k] = merged[k]) \/ merged'[k] = c
    BY <1>1, <1>2, <1>3
  <2> QED
    BY <1>2, <2>1
<1>4. CASE Joins(merged, c)
  <2>1. merged # <<>>
    BY <1>4 DEF Joins
  <2>2. /\ ds \in Seq(ChunkSet) /\ Len(ds) = L /\ L \in Nat \ {0}
        /\ \A k \in 1..L : k # L => ds[k] = merged[k]
        /\ ds[L].els = merged[L].els \o c.els /\ ds[L].text = Joined(merged[L].text, c.text)
    BY <1>1, <1>2, <2>1, JoinLastFacts DEF ds
  <2>3. merged' = ds /\ DOMAIN merged' = 1..L /\ DOMAIN merged = 1..L
    BY <1>1, <1>4, <2>2
  <2>4. merged[L] \in ChunkSet /\ Raw(merged[L])
    BY <1>1, <2>2, <2>3
  <2>5. /\ merged[L].els \in Seq(Index) /\ merged[L].els # <<>>
        /\ c.els \in Seq(Index) /\ c.els # <<>>
    BY <1>2, <2>4, ElsTyped
  <2>6. TextOfAll(merged[L].els \o c.els) = Joined(TextOfAll(merged[L].els), TextOfAll(c.els))
    BY <2>5, TextOfBoth DEF Typed
  <2>7. Raw(ds[L])
    BY <1>2, <2>2, <2>4, <2>6 DEF Raw
  <2> QED
    BY <2>2, <2>3, <2>7
<1> QED
  BY <1>3, <1>4

LEMMA PlaceTyped ==
  ASSUME Typed, NEW i \in Nat
  PROVE  Place(i) \in Nat
<1>1. 1 \in Int /\ i \in Int /\ Sections \cap 1..i \subseteq 1..i
  OBVIOUS
<1>2. IsFiniteSet(1..i)
  BY <1>1, FS_Interval
<1>3. IsFiniteSet(Sections \cap 1..i)
  BY <1>1, <1>2, FS_Subset
<1> QED
  BY <1>3, FS_CardinalityType DEF Place

LEMMA NumbersInit == Init => NumbersInv
BY DEF Init, NumbersInv

LEMMA NumbersStep == Typed /\ NumbersInv /\ [Next]_vars => NumbersInv'
<1> SUFFICES ASSUME Typed, NumbersInv, [Next]_vars PROVE NumbersInv'
  OBVIOUS
<1>0. /\ pos \in Nat \ {0} /\ Len(elems) \in Nat /\ DOMAIN elems = 1..Len(elems)
      /\ Len(chunks) \in Nat /\ DOMAIN chunks = 1..Len(chunks) /\ chunks \in Seq(ChunkSet)
      /\ section \in Seq(Index) /\ merged \in Seq(ChunkSet)
      /\ PolishBatch \in Nat \ {0}
  BY ChunkingAssumption DEF Typed
<1>p. phase = "group" /\ pos <= Len(elems) => pos \in Index
  BY <1>0 DEF Index
<1>g. ASSUME phase \in {"group", "merge"} PROVE \A k \in DOMAIN chunks : Raw(chunks[k])
  BY <1>g DEF NumbersInv
<1>i. ASSUME elems' = elems, phase' = "group", \A k \in DOMAIN chunks' : Raw(chunks[k])'
      PROVE  NumbersInv'
  BY <1>i DEF NumbersInv
<1>1. CASE Parse
  <2>1. chunks' = <<>> /\ phase' = "group"
    BY <1>1 DEF Parse, Typed, Nothing
  <2> QED
    BY <2>1 DEF NumbersInv
<1>2. CASE GroupHeading
  <2>1. phase = "group" /\ phase' = "group" /\ elems' = elems /\ chunks' = FlushSection(section)
    BY <1>2 DEF GroupHeading
  <2>2. \A k \in DOMAIN chunks' : Raw(chunks'[k])
    BY <1>0, <1>g, <2>1, FlushRaw
  <2> QED
    BY <1>i, <2>1, <2>2, RawSame
<1>3. CASE GroupTable
  <2> DEFINE c == Chunk("table", <<pos>>)  F == FlushSection(section)
  <2>1. phase = "group" /\ phase' = "group" /\ elems' = elems /\ chunks' = Append(F, c) /\ pos \in Index
    BY <1>3, <1>p DEF GroupTable
  <2>2. F \in Seq(ChunkSet) /\ \A k \in DOMAIN F : Raw(F[k])
    BY <1>0, <1>g, <2>1, FlushRaw
  <2>3. c \in ChunkSet /\ Raw(c)
    <3>1. <<pos>> \in Seq(Index) /\ <<pos>> # <<>>
      BY <2>1, OneOf
    <3>2. c \in ChunkSet /\ c.els = <<pos>> /\ c.text = TextOfAll(<<pos>>)
      BY <3>1, ChunkFacts
    <3> QED
      BY <3>2 DEF Raw
  <2> HIDE DEF c, F, ChunkSet
  <2>4. ASSUME NEW k \in DOMAIN chunks' PROVE Raw(chunks'[k])
    <3>1. (k \in DOMAIN F /\ chunks'[k] = F[k]) \/ chunks'[k] = c
      BY <2>1, <2>2, <2>3
    <3> QED
      BY <2>2, <2>3, <3>1
  <2> QED
    BY <1>i, <2>1, <2>4, RawSame
<1>4. CASE GroupText
  <2>1. /\ phase = "group" /\ phase' = "group" /\ elems' = elems /\ pos \in Index
        /\ chunks' = chunks \/ chunks' = FlushSection(Append(section, pos))
    BY <1>4, <1>p DEF GroupText
  <2>2. \A k \in DOMAIN chunks' : Raw(chunks'[k])
    <3>1. Append(section, pos) \in Seq(Index)
      BY <1>0, <2>1, AppendIs
    <3> QED
      BY <1>g, <2>1, <3>1, FlushRaw
  <2> QED
    BY <1>i, <2>1, <2>2, RawSame
<1>5. CASE GroupEnd
  <2>1. /\ phase = "group" /\ phase' = "merge" /\ elems' = elems /\ chunks' = FlushSection(section)
        /\ merged' = <<>>
    BY <1>5 DEF GroupEnd, Typed
  <2>2. \A k \in DOMAIN chunks' : Raw(chunks'[k])
    BY <1>0, <1>g, <2>1, FlushRaw
  <2> QED
    BY <2>1, <2>2, RawSame DEF NumbersInv
<1>6. CASE MergeShort
  <2>1. phase = "merge" /\ phase' = "merge" /\ elems' = elems /\ chunks' = chunks
    BY <1>6 DEF MergeShort
  <2>2. \A k \in DOMAIN merged' : Raw(merged'[k])
    BY <1>6, <1>g, <2>1, MergeRaw DEF NumbersInv
  <2> QED
    BY <1>g, <2>1, <2>2, RawSame DEF NumbersInv
<1>7. CASE MergeEnd
  <2>1. phase = "merge" /\ phase' = "tables" /\ elems' = elems /\ chunks' = merged
    BY <1>7 DEF MergeEnd
  <2> QED
    BY <2>1, RawSame DEF NumbersInv
<1>8. CASE NaturalizeTables
  <2>1. phase = "tables" /\ phase' = "polish" /\ elems' = elems
    BY <1>8 DEF NaturalizeTables
  <2>2. ASSUME NEW k \in Sections' PROVE Sound(chunks'[k]) /\ Raw(chunks'[k])
    <3>1. k \in DOMAIN chunks /\ chunks'[k].type = "section"
      BY <1>0, <1>8, TablesFacts DEF Sections
    <3>2. chunks'[k] = chunks[k]
      BY <1>8, <3>1, TablesFacts DEF Rewritten
    <3>3. chunks[k] \in ChunkSet /\ Raw(chunks[k])
      BY <1>0, <2>1, <3>1 DEF NumbersInv
    <3> QED
      BY <3>2, <3>3, RawSound
  <2> QED
    BY <2>1, <2>2, RawSame DEF NumbersInv
<1>9. CASE PolishChunks
  <2>1. phase = "polish" /\ phase' = "polish" /\ elems' = elems /\ pos' = pos + PolishBatch
    BY <1>9 DEF PolishChunks
  <2>2. Sections' = Sections
    <3>1. DOMAIN chunks' = DOMAIN chunks /\ \A k \in DOMAIN chunks : chunks'[k].type = chunks[k].type
      BY <1>0, <1>9, PolishedFacts DEF Rewritten
    <3> QED
      BY <3>1 DEF Sections
  <2>3. ASSUME NEW k \in Sections
        PROVE  Sound(chunks'[k]) /\ (Place(k) >= pos + PolishBatch => Raw(chunks'[k]))
    <3>1. k \in DOMAIN chunks /\ k \in Nat /\ chunks[k] \in ChunkSet
      BY <1>0 DEF Sections
    <3>2. Place(k) \in Nat
      BY <3>1, PlaceTyped
    <3>3. Sound(chunks[k]) /\ (Place(k) >= pos => Raw(chunks[k]))
      BY <2>1 DEF NumbersInv
    <3>4. /\ chunks'[k].els = chunks[k].els
          /\ \/ chunks'[k] = chunks[k]
             \/ /\ k \in Batch
                /\ chunks'[k].text = chunks[k].text \/ ValidatePolish(chunks[k].text, chunks'[k].text)
      BY <1>9, <3>1, PolishedFacts DEF Rewritten
    <3>5. CASE k \in Batch
      <4>1. Place(k) >= pos /\ Place(k) < pos + PolishBatch
        BY <1>0, <3>2, <3>5 DEF Batch
      <4>2. Raw(chunks[k])
        BY <3>3, <4>1
      <4>3. Sound(chunks'[k])
        <5> DEFINE d == chunks'[k]
        <5>1. d.els = chunks[k].els /\ (d.text = chunks[k].text \/ ValidatePolish(chunks[k].text, d.text))
          BY <3>4
        <5> HIDE DEF d
        <5>2. Sound(d)
          BY <3>1, <4>2, <5>1, PolishedSound
        <5> QED
          BY <5>2 DEF d
      <4>4. ~(Place(k) >= pos + PolishBatch)
        BY <1>0, <3>2, <4>1
      <4> QED
        BY <4>3, <4>4
    <3>6. CASE k \notin Batch
      <4>1. chunks'[k] = chunks[k]
        BY <3>4, <3>6
      <4>2. Place(k) >= pos + PolishBatch => Place(k) >= pos
        BY <1>0, <3>2
      <4> QED
        BY <3>3, <4>1, <4>2
    <3> QED
      BY <3>5, <3>6
  <2>4. \A k : Place(k)' = Place(k)
    BY <2>2 DEF Place
  <2> QED
    BY <2>1, <2>2, <2>3, <2>4, RawSame DEF NumbersInv
<1>10. CASE Embed
  <2>1. phase = "polish" /\ phase' = "enrich" /\ elems' = elems /\ chunks' = chunks
    BY <1>10 DEF Embed
  <2>2. Sections' = Sections
    BY <2>1 DEF Sections
  <2> QED
    BY <2>1, <2>2, RawSame DEF NumbersInv
<1>11. CASE EnrichChunks
  <2>1. phase = "enrich" /\ phase' = "enrich" /\ elems' = elems /\ chunks' = chunks
    BY <1>11 DEF EnrichChunks
  <2>2. Sections' = Sections
    BY <2>1 DEF Sections
  <2> QED
    BY <2>1, <2>2, RawSame DEF NumbersInv
<1>12. CASE Store
  <2>1. phase = "enrich" /\ phase' = "stored" /\ elems' = elems /\ chunks' = chunks
    BY <1>12 DEF Store
  <2>2. Sections' = Sections
    BY <2>1 DEF Sections
  <2> QED
    BY <2>1, <2>2, RawSame DEF NumbersInv
<1>13. CASE Fail
  BY <1>13 DEF NumbersInv, Fail
<1>14. CASE UNCHANGED vars
  <2>1. phase' = phase /\ elems' = elems /\ chunks' = chunks /\ merged' = merged /\ pos' = pos
    BY <1>14 DEF vars
  <2>2. Sections' = Sections
    BY <2>1 DEF Sections
  <2>3. \A k : Place(k)' = Place(k)
    BY <2>2 DEF Place
  <2> QED
    BY <2>1, <2>2, <2>3, RawSame DEF NumbersInv
<1> QED
  BY <1>1, <1>2, <1>3, <1>4, <1>5, <1>6, <1>7, <1>8, <1>9, <1>10, <1>11, <1>12, <1>13, <1>14 DEF Next

LEMMA NumbersTells == NumbersInv => SectionNumbersKept
BY DEF NumbersInv, SectionNumbersKept, Sections, Sound

-----------------------------------------------------------------------------
LEMMA ChunkingTyped == Spec => []Typed
BY TypedInit, TypedStep, PTL DEF Spec

(* Every text of the file is in exactly one chunk, in the order of the     *)
(* file, at every stage and in what is stored, for every tree the reader   *)
(* may return, every batch size and every reply of the model.              *)
THEOREM EachTextOnce == Spec => []EveryTextOnce
BY ChunkingTyped, OnceInit, OnceStep, OnceTells, PTL DEF Spec

(* The path of every chunk lists the headings its first text is under, in  *)
(* the order of the file, though the grouping loop keeps only a stack.     *)
THEOREM PathsEnclose == Spec => []PathEncloses
BY ChunkingTyped, PathInit, PathStep, PathTells, PTL DEF Spec

(* What is embedded of a section has the numbers of its texts and seven    *)
(* tenths of their length, whatever the model replied and however its      *)
(* reply was dealt to the sections (_polish_chunks_for_embedding).         *)
THEOREM NumbersKept == Spec => []SectionNumbersKept
BY ChunkingTyped, NumbersInit, NumbersStep, NumbersTells, PTL DEF Spec

-----------------------------------------------------------------------------
(* Normalizer                                                              *)

(* The fields an analysis has.                                             *)
LevelShape(p) ==
  p = [there |-> p.there, priority |-> p.priority, tier |-> p.tier, reason |-> p.reason]

SummaryShape(s) ==
  s = [short |-> s.short, intent |-> s.intent, keywords |-> s.keywords,
       emotion |-> s.emotion, status |-> s.status]

VocShape(v) ==
  /\ v = [category |-> v.category, reason |-> v.reason, sentiment |-> v.sentiment,
          priority |-> v.priority]
  /\ LevelShape(v.priority)

Shape(a) ==
  /\ a = [summary |-> a.summary, voc |-> a.voc, priority |-> a.priority]
  /\ SummaryShape(a.summary) /\ VocShape(a.voc) /\ LevelShape(a.priority)

(* The priority that counts is v.                                          *)
Counts(a, v) ==
  \/ a.priority.priority = v
  \/ ~a.priority.there /\ a.voc.priority.priority = v

(* What one analysis keeps of another.                                     *)
Keeps(r, a) ==
  /\ a.summary.emotion \in ValidSentiments => r.summary.emotion = a.summary.emotion
  /\ a.summary.status \in ValidStatuses => r.summary.status = a.summary.status
  /\ a.voc.sentiment \in ValidSentiments => r.voc.sentiment = a.voc.sentiment
  /\ a.voc.category \notin {"", "etc"} => r.voc.category = a.voc.category
  /\ \A v \in ValidPriorities : Counts(a, v) =>
       /\ r.priority.priority = v /\ r.priority.tier = v
       /\ r.voc.priority.priority = v /\ r.voc.priority.tier = v

(* A priority is of use to the second save only if the result is there,    *)
(* which the first save sees to.                                           *)
NormInv ==
  /\ Shape(analysis)
  /\ analysis.priority.priority \in ValidPriorities => analysis.priority.there
  /\ stage \in {"saved", "final"} => Shape(row) /\ row.priority.there /\ Keeps(row, analysis)

ShortOf(s)  == IF s.short # {} THEN s.short ELSE s.intent \cup {"other"}
IntentOf(s, c) ==
  IF s.intent # {} THEN s.intent ELSE IF c # "" THEN NameOf(c) ELSE ShortOf(s)

LEMMA SummaryNormal ==
  ASSUME NEW s, SummaryShape(s), NEW c
  PROVE  NormalizeSummary(s, c) =
           [short |-> ShortOf(s), intent |-> IntentOf(s, c), keywords |-> s.keywords,
            emotion |-> IF s.emotion \in ValidSentiments THEN s.emotion ELSE "neutral",
            status |-> IF s.status \in ValidStatuses THEN s.status ELSE "resolved"]
<1>1. NormalizeSummary(s, c) =
        [s EXCEPT !.short = ShortOf(s), !.intent = IntentOf(s, c),
                  !.emotion = IF @ \in ValidSentiments THEN @ ELSE "neutral",
                  !.status = IF @ \in ValidStatuses THEN @ ELSE "resolved"]
  BY Zenon DEF NormalizeSummary, ShortOf, IntentOf
<1> HIDE DEF ShortOf, IntentOf
<1> QED
  BY <1>1 DEF SummaryShape

LEMMA SummaryFacts ==
  ASSUME NEW s, SummaryShape(s), NEW c
  PROVE  /\ NormalizeSummary(s, c).short = ShortOf(s) /\ NormalizeSummary(s, c).intent = IntentOf(s, c)
         /\ NormalizeSummary(s, c).keywords = s.keywords
         /\ NormalizeSummary(s, c).emotion = IF s.emotion \in ValidSentiments THEN s.emotion ELSE "neutral"
         /\ NormalizeSummary(s, c).status = IF s.status \in ValidStatuses THEN s.status ELSE "resolved"
<1> DEFINE short == ShortOf(s)
           intent == IntentOf(s, c)
           emotion == IF s.emotion \in ValidSentiments THEN s.emotion ELSE "neutral"
           status == IF s.status \in ValidStatuses THEN s.status ELSE "resolved"
<1>1. NormalizeSummary(s, c) = [short |-> short, intent |-> intent, keywords |-> s.keywords,
                                emotion |-> emotion, status |-> status]
  BY SummaryNormal
<1> HIDE DEF short, intent, emotion, status
<1>2. /\ NormalizeSummary(s, c).short = short /\ NormalizeSummary(s, c).intent = intent
      /\ NormalizeSummary(s, c).keywords = s.keywords
      /\ NormalizeSummary(s, c).emotion = emotion /\ NormalizeSummary(s, c).status = status
  BY <1>1
<1> QED
  BY <1>2 DEF short, intent, emotion, status

(* An operator of its own, so that the steps below can leave it closed.    *)
PriorityLevel(p, h, c, reason) ==
  IF FirstNonBlank(p.priority, p.tier) \in ValidPriorities THEN FirstNonBlank(p.priority, p.tier)
  ELSE InferPriority(h, c, p.reason \cup reason)

Hint(a)     == NormalizeSummary(a.summary, "")
Category(a, ind) == NormalizeCategory(a.voc.category, a.voc.reason, Hint(a), ind)
Given(a)    == IF a.priority.there THEN a.priority ELSE a.voc.priority
Saved(a, ind) == PriorityLevel(Given(a), Hint(a), Category(a, ind), a.voc.reason)

(* What a save writes.                                                     *)
Written(a, ind) ==
  [there |-> TRUE, priority |-> Saved(a, ind), tier |-> Saved(a, ind),
   reason |-> Given(a).reason]
Voc(a, ind) ==
  [category |-> Category(a, ind), reason |-> a.voc.reason, priority |-> Written(a, ind),
   sentiment |-> NormalizeSentiment(a.voc.sentiment, Hint(a))]

LEMMA NormalIs ==
  ASSUME NEW a, NEW ind
  PROVE  Normalize(a, ind) =
           [summary |-> NormalizeSummary(a.summary, Category(a, ind)), voc |-> Voc(a, ind),
            priority |-> Written(a, ind)]
<1>1. NormalizePriority(Given(a), Hint(a), Category(a, ind), a.voc.reason) = Written(a, ind)
  BY DEF NormalizePriority, Saved, PriorityLevel, Written
<1>2. Normalize(a, ind) =
        [summary |-> NormalizeSummary(a.summary, Category(a, ind)),
         voc |-> [category |-> Category(a, ind), reason |-> a.voc.reason,
                  priority |-> NormalizePriority(Given(a), Hint(a), Category(a, ind), a.voc.reason),
                  sentiment |-> NormalizeSentiment(a.voc.sentiment, Hint(a))],
         priority |-> NormalizePriority(Given(a), Hint(a), Category(a, ind), a.voc.reason)]
  BY Zenon DEF Normalize, Hint, Category, Given
<1> QED
  BY <1>1, <1>2 DEF Voc

LEMMA NormalFacts ==
  ASSUME NEW a, NEW ind
  PROVE  /\ Normalize(a, ind).summary = NormalizeSummary(a.summary, Category(a, ind))
         /\ Normalize(a, ind).voc.category = Category(a, ind)
         /\ Normalize(a, ind).voc.priority = Normalize(a, ind).priority
         /\ Normalize(a, ind).voc.sentiment = NormalizeSentiment(a.voc.sentiment, Hint(a))
         /\ Normalize(a, ind).priority.there
         /\ Normalize(a, ind).priority.priority = Saved(a, ind)
         /\ Normalize(a, ind).priority.tier = Saved(a, ind)
<1>1. /\ Normalize(a, ind).summary = NormalizeSummary(a.summary, Category(a, ind))
      /\ Normalize(a, ind).voc = Voc(a, ind) /\ Normalize(a, ind).priority = Written(a, ind)
  BY NormalIs
<1>2. /\ Voc(a, ind).category = Category(a, ind) /\ Voc(a, ind).priority = Written(a, ind)
      /\ Voc(a, ind).sentiment = NormalizeSentiment(a.voc.sentiment, Hint(a))
  BY DEF Voc
<1>3. /\ Written(a, ind).there /\ Written(a, ind).priority = Saved(a, ind)
      /\ Written(a, ind).tier = Saved(a, ind)
  BY DEF Written
<1> QED
  BY <1>1, <1>2, <1>3

LEMMA NormalShape == ASSUME NEW a, Shape(a), NEW ind PROVE Shape(Normalize(a, ind))
<1>1. \A c : SummaryShape(NormalizeSummary(a.summary, c))
  BY SummaryNormal DEF Shape, SummaryShape
<1>2. LevelShape(Written(a, ind))
  BY DEF LevelShape, Written
<1>3. VocShape(Voc(a, ind))
  BY <1>2 DEF VocShape, Voc
<1> QED
  BY <1>1, <1>2, <1>3, NormalIs DEF Shape

(* A save keeps what is valid.                                             *)
LEMMA NormalKeeps ==
  ASSUME NEW a, Shape(a), NEW ind, a.priority.priority \in ValidPriorities => a.priority.there
  PROVE  Keeps(Normalize(a, ind), a) /\ Normalize(a, ind).priority.there
<1>1. SummaryShape(a.summary)
  BY DEF Shape
<1>2. /\ a.summary.emotion \in ValidSentiments => Normalize(a, ind).summary.emotion = a.summary.emotion
      /\ a.summary.status \in ValidStatuses => Normalize(a, ind).summary.status = a.summary.status
  BY <1>1, NormalFacts, SummaryFacts
<1>3. a.voc.sentiment \in ValidSentiments => Normalize(a, ind).voc.sentiment = a.voc.sentiment
  BY NormalFacts DEF NormalizeSentiment
<1>4. a.voc.category \notin {"", "etc"} => Normalize(a, ind).voc.category = a.voc.category
  BY NormalFacts DEF Category, NormalizeCategory
<1>5. ASSUME NEW v \in ValidPriorities, Counts(a, v) PROVE Saved(a, ind) = v
  <2>1. v # "" /\ (a.priority.priority = v => a.priority.there)
    BY DEF ValidPriorities
  <2>2. Given(a).priority = v
    BY <1>5, <2>1 DEF Counts, Given
  <2> QED
    BY <2>1, <2>2 DEF Saved, PriorityLevel, FirstNonBlank
<1> QED
  BY <1>2, <1>3, <1>4, <1>5, NormalFacts DEF Keeps

LEMMA KeepsTwice == ASSUME NEW a, NEW b, NEW c, Keeps(b, a), Keeps(c, b) PROVE Keeps(c, a)
BY DEF Keeps, Counts, ValidSentiments, ValidStatuses

-----------------------------------------------------------------------------
LEMMA RecordShape ==
  ASSUME NEW args
  PROVE  Shape(RecordToAnalysis(args)) /\ RecordToAnalysis(args).priority.there
BY DEF RecordToAnalysis, Shape, SummaryShape, VocShape, LevelShape

LEMMA EmptyShape == Shape(EmptyAnalysis) /\ EmptyAnalysis.priority.there
<1> DEFINE args == [short |-> {"other"}, intent |-> {"other"}, keywords |-> {},
                    emotion |-> "neutral", status |-> "resolved",
                    priority |-> "low", category |-> "unknown"]
           a == RecordToAnalysis(args)
<1>1. EmptyAnalysis = [a EXCEPT !.voc.priority.reason = {"other"}, !.priority.reason = {"other"}]
  BY Zenon DEF EmptyAnalysis
<1>2. Shape(a) /\ a.priority.there
  BY RecordShape
<1> HIDE DEF a, args
<1> QED
  BY <1>1, <1>2 DEF Shape, SummaryShape, VocShape, LevelShape

LEMMA OverwrittenPriorityShape ==
  ASSUME NEW p, LevelShape(p), p.priority \in ValidPriorities => p.there,
         NEW q \in OverwrittenPriority(p)
  PROVE  LevelShape(q) /\ (q.priority \in ValidPriorities => q.there)
<1> USE DEF LevelShape
<1>1. CASE q = NoPriority
  BY <1>1 DEF NoPriority, ValidPriorities
<1>2. CASE \E v : q = [p EXCEPT !.there = TRUE, !.priority = v]
  BY <1>2
<1>3. CASE \E v : q = [p EXCEPT !.there = TRUE, !.tier = v]
  BY <1>3
<1>4. CASE \E v : q = [p EXCEPT !.there = TRUE, !.reason = v]
  BY <1>4
<1> QED
  BY Zenon, <1>1, <1>2, <1>3, <1>4 DEF OverwrittenPriority

LEMMA OverwrittenSummaryShape ==
  ASSUME NEW s, SummaryShape(s), NEW t \in OverwrittenSummary(s)
  PROVE  SummaryShape(t)
<1> USE DEF SummaryShape
<1>1. CASE t = NoSummary
  BY <1>1 DEF NoSummary
<1>2. CASE \E v : t = [s EXCEPT !.short = v]
  BY <1>2
<1>3. CASE \E v : t = [s EXCEPT !.intent = v]
  BY <1>3
<1>4. CASE \E v : t = [s EXCEPT !.keywords = v]
  BY <1>4
<1>5. CASE \E v : t = [s EXCEPT !.emotion = v]
  BY <1>5
<1>6. CASE \E v : t = [s EXCEPT !.status = v]
  BY <1>6
<1> QED
  BY Zenon, <1>1, <1>2, <1>3, <1>4, <1>5, <1>6 DEF OverwrittenSummary

(* Nothing is asked of the flag of the VOC result's priority: no rule      *)
(* reads it.                                                               *)
LEMMA OverwrittenVocShape ==
  ASSUME NEW c, VocShape(c), NEW d \in OverwrittenVoc(c)
  PROVE  VocShape(d)
<1> USE DEF VocShape, LevelShape
<1>1. CASE d = NoVoc
  BY <1>1 DEF NoVoc, NoPriority
<1>2. CASE d = [c EXCEPT !.category = "", !.reason = {}]
  BY <1>2
<1>3. CASE \E v : d = [c EXCEPT !.category = v]
  BY <1>3
<1>4. CASE \E v : d = [c EXCEPT !.reason = v]
  BY <1>4
<1>5. CASE \E v : d = [c EXCEPT !.sentiment = v]
  BY <1>5
<1>6. CASE \E q \in OverwrittenPriority(c.priority) : d = [c EXCEPT !.priority = q]
  <2>1. PICK q \in OverwrittenPriority(c.priority) : d = [c EXCEPT !.priority = q]
    BY <1>6
  <2>2. LevelShape(q)
    <3>1. q = NoPriority \/ \E v : \/ q = [c.priority EXCEPT !.there = TRUE, !.priority = v]
                                  \/ q = [c.priority EXCEPT !.there = TRUE, !.tier = v]
                                  \/ q = [c.priority EXCEPT !.there = TRUE, !.reason = v]
      BY Zenon, <2>1 DEF OverwrittenPriority
    <3> QED
      BY <3>1 DEF NoPriority
  <2> QED
    BY <2>1, <2>2
<1> QED
  BY Zenon, <1>1, <1>2, <1>3, <1>4, <1>5, <1>6 DEF OverwrittenVoc

LEMMA OverwrittenShape ==
  ASSUME NEW a, Shape(a), a.priority.priority \in ValidPriorities => a.priority.there,
         NEW b \in Overwritten(a)
  PROVE  Shape(b) /\ (b.priority.priority \in ValidPriorities => b.priority.there)
<1>1. CASE \E t \in OverwrittenSummary(a.summary) : b = [a EXCEPT !.summary = t]
  BY <1>1, OverwrittenSummaryShape DEF Shape
<1>2. CASE \E d \in OverwrittenVoc(a.voc) : b = [a EXCEPT !.voc = d]
  BY <1>2, OverwrittenVocShape DEF Shape
<1>3. CASE \E q \in OverwrittenPriority(a.priority) : b = [a EXCEPT !.priority = q]
  BY <1>3, OverwrittenPriorityShape DEF Shape
<1> QED
  BY Zenon, <1>1, <1>2, <1>3 DEF Overwritten

LEMMA NormInitInv == NormInit => NormInv
BY EmptyShape DEF NormInit, NormInv

LEMMA RecordInv == ASSUME NormInv, Record PROVE NormInv'
<1>1. stage = "record" /\ stage' = "review"
  BY DEF Record
<1>2. analysis' = analysis \/ \E args : analysis' = RecordToAnalysis(args)
  BY DEF Record
<1>3. Shape(analysis') /\ (analysis'.priority.priority \in ValidPriorities => analysis'.priority.there)
  BY <1>2, RecordShape DEF NormInv
<1> QED
  BY <1>1, <1>3 DEF NormInv, Shape, SummaryShape, VocShape, LevelShape

LEMMA OverwriteInv == ASSUME NormInv, OverwriteField PROVE NormInv'
<1>1. stage = "review" /\ stage' = stage /\ analysis' \in Overwritten(analysis)
  BY DEF OverwriteField
<1>2. Shape(analysis') /\ (analysis'.priority.priority \in ValidPriorities => analysis'.priority.there)
  BY <1>1, OverwrittenShape DEF NormInv
<1> QED
  BY <1>1, <1>2 DEF NormInv, Shape, SummaryShape, VocShape, LevelShape

LEMMA SaveReviewedInv == ASSUME NormInv, SaveReviewed PROVE NormInv'
<1>1. stage = "review" /\ stage' = "saved" /\ analysis' = analysis /\ row' = Normalize(analysis, industry)
  BY DEF SaveReviewed
<1>2. Shape(row') /\ row'.priority.there /\ Keeps(row', analysis)
  BY <1>1, NormalShape, NormalKeeps DEF NormInv
<1> QED
  BY <1>1, <1>2 DEF NormInv, Shape, SummaryShape, VocShape, LevelShape, Keeps, Counts

LEMMA SaveFinalInv == ASSUME NormInv, SaveFinal PROVE NormInv'
<1>1. stage = "saved" /\ stage' = "final" /\ analysis' = analysis /\ row' = Normalize(row, industry)
  BY DEF SaveFinal
<1>2. Shape(row') /\ row'.priority.there /\ Keeps(row', row)
  BY <1>1, NormalShape, NormalKeeps DEF NormInv
<1>3. Keeps(row', analysis)
  BY <1>1, <1>2, KeepsTwice DEF NormInv
<1> QED
  BY <1>1, <1>2, <1>3 DEF NormInv, Shape, SummaryShape, VocShape, LevelShape, Keeps, Counts

LEMMA NormNextInv == NormInv /\ [NormNext]_normVars => NormInv'
<1> SUFFICES ASSUME NormInv, [NormNext]_normVars PROVE NormInv'
  OBVIOUS
<1>1. CASE UNCHANGED normVars
  BY <1>1 DEF normVars, NormInv, Shape, SummaryShape, VocShape, LevelShape, Keeps, Counts
<1> QED
  BY <1>1, RecordInv, OverwriteInv, SaveReviewedInv, SaveFinalInv DEF NormNext

LEMMA AlwaysNormInv == NormSpec => []NormInv
BY NormInitInv, NormNextInv, PTL DEF NormSpec

(* A valid emotion, status or sentiment, a category, and the valid         *)
(* priority that counts (that of the analysis, or that of the VOC result   *)
(* where the other was taken away) are what both saves write, in all four  *)
(* places of a priority, for any answers of the model, however many fields *)
(* the reviewer overwrites, takes away and sets again.  A valid value in   *)
(* a place that does not count is not kept.                                *)
THEOREM ValidStays == NormSpec => []ValidOutputKept
<1>1. NormInv => ValidOutputKept
  BY DEF NormInv, Keeps, Counts, ValidOutputKept
<1> QED
  BY <1>1, AlwaysNormInv, PTL

-----------------------------------------------------------------------------
(* A priority is inferred from the words of a call and those in the name   *)
(* of its category. A word more never loses a rule that applied: only      *)
(* "complaint" may come from the name alone, and then the new word is      *)
(* itself one of those the rule looks for.                                 *)
LEMMA InferredGrows ==
  ASSUME NEW h, NEW g, NEW c, NEW d, NEW r, NEW word \in {"emergency", "complaint", "delay"},
         WordsOf(g) = WordsOf(h) \cup {word}, g.emotion = h.emotion, g.status = h.status
  PROVE  Rank(InferPriority(h, c, r)) <= Rank(InferPriority(g, d, r))
<1>1. "emergency" \notin NameOf(c)
  BY DEF NameOf
<1>2. /\ Rank("medium") = 1 /\ Rank("high") = 2 /\ Rank("critical") = 3
  BY DEF Rank
<1>3. CASE "emergency" \in WordsOf(h) \cup r \cup {word}
  <2>1. InferPriority(g, d, r) = "critical"
    BY <1>3 DEF InferPriority
  <2>2. InferPriority(h, c, r) \in {"critical", "high", "medium"}
    BY DEF InferPriority
  <2> QED
    BY <1>2, <2>1, <2>2
<1>4. CASE "emergency" \notin WordsOf(h) \cup r \cup {word}
  <2>1. HasAny(WordsOf(g) \cup NameOf(d) \cup r, {"complaint", "delay"})
    BY <1>4 DEF HasAny
  <2>2. InferPriority(h, c, r) = "high" => InferPriority(g, d, r) \in {"critical", "high"}
    BY <2>1 DEF InferPriority
  <2>3. InferPriority(h, c, r) \in {"high", "medium"} /\ InferPriority(g, d, r) \in {"critical", "high", "medium"}
    BY <1>1, <1>4 DEF InferPriority
  <2> QED
    BY <1>2, <2>2, <2>3
<1> QED
  BY <1>3, <1>4

LEMMA HintGrows ==
  ASSUME NEW a, Shape(a), NEW word
  PROVE  LET b == [a EXCEPT !.summary.keywords = @ \cup {word}] IN
         /\ WordsOf(Hint(b)) = WordsOf(Hint(a)) \cup {word}
         /\ Hint(b).emotion = Hint(a).emotion /\ Hint(b).status = Hint(a).status
         /\ Given(b) = Given(a) /\ b.voc = a.voc
<1> DEFINE b == [a EXCEPT !.summary.keywords = @ \cup {word}]
<1>1. /\ SummaryShape(a.summary) /\ SummaryShape(b.summary)
      /\ b.summary.short = a.summary.short /\ b.summary.intent = a.summary.intent
      /\ b.summary.keywords = a.summary.keywords \cup {word}
      /\ b.summary.emotion = a.summary.emotion /\ b.summary.status = a.summary.status
      /\ b.voc = a.voc /\ b.priority = a.priority
  BY DEF Shape, SummaryShape
<1> HIDE DEF b
<1>2. /\ ShortOf(b.summary) = ShortOf(a.summary)
      /\ IntentOf(b.summary, "") = IntentOf(a.summary, "")
  BY <1>1 DEF ShortOf, IntentOf
<1>3. /\ Hint(a).short = ShortOf(a.summary) /\ Hint(a).intent = IntentOf(a.summary, "")
      /\ Hint(a).keywords = a.summary.keywords
      /\ Hint(b).short = ShortOf(b.summary) /\ Hint(b).intent = IntentOf(b.summary, "")
      /\ Hint(b).keywords = b.summary.keywords
  BY ZenonT(30), <1>1, SummaryFacts DEF Hint
<1>4. Hint(b).emotion = Hint(a).emotion /\ Hint(b).status = Hint(a).status
  <2>1. \A s : SummaryShape(s) =>
          /\ NormalizeSummary(s, "").emotion = IF s.emotion \in ValidSentiments THEN s.emotion ELSE "neutral"
          /\ NormalizeSummary(s, "").status = IF s.status \in ValidStatuses THEN s.status ELSE "resolved"
    BY SummaryFacts
  <2> QED
    BY <1>1, <2>1 DEF Hint
<1>5. WordsOf(Hint(b)) = WordsOf(Hint(a)) \cup {word}
  BY <1>1, <1>2, <1>3 DEF WordsOf
<1> QED
  BY <1>1, <1>4, <1>5 DEF b, Given

(* A word of danger, complaint or delay never lowers the saved priority,   *)
(* whatever the model wrote and in whatever category the call then falls.  *)
THEOREM WorseIsNotLower == NormSpec => []WorseNewsIsNotLower
<1>1. ASSUME NormInv, NEW word \in {"emergency", "complaint", "delay"}
      PROVE  Rank(Normalize(analysis, industry).priority.priority) <=
             Rank(Normalize([analysis EXCEPT !.summary.keywords = @ \cup {word}],
                            industry).priority.priority)
  <2> DEFINE b == [analysis EXCEPT !.summary.keywords = @ \cup {word}]
  <2>1. /\ WordsOf(Hint(b)) = WordsOf(Hint(analysis)) \cup {word}
        /\ Hint(b).emotion = Hint(analysis).emotion /\ Hint(b).status = Hint(analysis).status
        /\ Given(b) = Given(analysis) /\ b.voc = analysis.voc
    BY HintGrows, <1>1 DEF NormInv
  <2> HIDE DEF b
  <2>2. Rank(Saved(analysis, industry)) <= Rank(Saved(b, industry))
    <3> DEFINE p == Given(analysis)
               v == FirstNonBlank(p.priority, p.tier)
    <3>1. CASE v \in ValidPriorities
      BY <2>1, <3>1 DEF Saved, PriorityLevel, Rank
    <3>2. CASE v \notin ValidPriorities
      <4> DEFINE r == p.reason \cup analysis.voc.reason
      <4>1. /\ Saved(analysis, industry) = InferPriority(Hint(analysis), Category(analysis, industry), r)
            /\ Saved(b, industry) = InferPriority(Hint(b), Category(b, industry), r)
        BY <2>1, <3>2 DEF Saved, PriorityLevel
      <4> HIDE DEF r
      <4> QED
        BY <2>1, <4>1, InferredGrows
    <3> QED
      BY <3>1, <3>2
  <2>3. /\ Normalize(analysis, industry).priority.priority = Saved(analysis, industry)
        /\ Normalize(b, industry).priority.priority = Saved(b, industry)
    BY NormalFacts
  <2> QED
    BY <2>2, <2>3 DEF b
<1>2. NormInv => WorseNewsIsNotLower
  BY <1>1 DEF WorseNewsIsNotLower
<1> QED
  BY <1>2, AlwaysNormInv, PTL

-----------------------------------------------------------------------------
(* Retrieval                                                               *)

(* A ranking is a function on the first numbers, and what it ranks was     *)
(* stored at some time since the question.                                 *)
RankingOK ==
  /\ \E n \in Nat : DOMAIN dense = 1..n
  /\ \A r \in DOMAIN dense : dense[r] \in live

(* While a question is under way whatever is stored is noted, so that what *)
(* the entries are filled with was, too.  The index is not spoken of: it   *)
(* may be as old as the process, and no text comes from it.                *)
RetrievalInv ==
  /\ IsFiniteSet(store)
  /\ step # "idle" => store \subseteq live
  /\ RankingOK
  /\ \A i \in DOMAIN fused : fused[i].text \in live \cup {NoText}
  /\ answer.texts \subseteq live \cup {NoText}

(* Of some of the first n numbers one is the greatest: n less the least of *)
(* what each of them lacks.                                                *)
LEMMA LatestIsOne ==
  ASSUME NEW n \in Nat, NEW S \in SUBSET (1..n), S # {}
  PROVE  Latest(S) \in S
<1> DEFINE Lacks == {k \in Nat : n - k \in S}
<1>1. PICK s \in S : TRUE
  OBVIOUS
<1>2. n - s \in Lacks
  <2>1. s \in 1..n
    BY <1>1
  <2>2. n - s \in Nat /\ n - (n - s) = s
    BY <2>1
  <2> QED
    BY <1>1, <2>2
<1>3. PICK k \in Lacks : \A l \in Lacks : k <= l
  BY <1>2, LeastIn
<1>4. ASSUME NEW t \in S PROVE t <= n - k
  <2>1. t \in 1..n /\ n - t \in Nat /\ n - (n - t) = t /\ k \in Nat
    BY <1>3, <1>4
  <2>2. n - t \in Lacks
    BY <2>1
  <2>3. k <= n - t
    BY <1>3, <2>2
  <2> QED
    BY <2>1, <2>3
<1>5. n - k \in S
  BY <1>3
<1> QED
  BY <1>4, <1>5 DEF Latest

(* An entry of the fusion has the text of a vector, or none as yet.        *)
LEMMA EntryText ==
  ASSUME RankingOK, NEW hits, NEW ci
  PROVE  Entry(hits, ci).text \in live \cup {NoText}
<1>1. Entry(hits, ci).text = IF InDense(ci) = {} THEN NoText ELSE dense[Latest(InDense(ci))]
  BY DEF Entry
<1>2. InDense(ci) # {} => Latest(InDense(ci)) \in DOMAIN dense
  <2>1. PICK n \in Nat : DOMAIN dense = 1..n
    BY DEF RankingOK
  <2>2. InDense(ci) \in SUBSET (1..n)
    BY <2>1 DEF InDense
  <2>3. InDense(ci) # {} => Latest(InDense(ci)) \in InDense(ci)
    BY <2>2, LatestIsOne
  <2> QED
    BY <2>1, <2>2, <2>3
<1> QED
  BY <1>1, <1>2 DEF RankingOK

(* Ranking orders the entries by their scores and adds nothing to them.    *)
LEMMA RankedEntries ==
  ASSUME NEW hits, NEW f \in Ranked(hits)
  PROVE  \E p \in [1..Cardinality(Found(hits)) -> Found(hits)] :
           /\ f = [i \in DOMAIN p |-> Entry(hits, p[i])]
           /\ \A i, j \in DOMAIN p : i < j =>
                \/ Entry(hits, p[i]).score > Entry(hits, p[j]).score
                \/ Entry(hits, p[i]).score = Entry(hits, p[j]).score
BY Zenon DEF Ranked

LEMMA RetrievalInitInv == RetrievalInit => RetrievalInv
<1> SUFFICES ASSUME RetrievalInit PROVE RetrievalInv
  OBVIOUS
<1>1. DOMAIN dense = {} /\ DOMAIN fused = {} /\ 1..0 = {} /\ 0 \in Nat
  BY DEF RetrievalInit
<1>2. answer.texts = {}
  BY DEF RetrievalInit, NoAnswer
<1>3. RankingOK
  BY <1>1 DEF RankingOK
<1> QED
  BY <1>1, <1>2, <1>3 DEF RetrievalInit, RetrievalInv

(* A step that leaves the question's own state alone and forgets nothing.  *)
LEMMA SteadyInv ==
  ASSUME RetrievalInv, IsFiniteSet(store'), step' # "idle" => store' \subseteq live',
         live \subseteq live', UNCHANGED <<dense, fused, answer>>
  PROVE  RetrievalInv'
BY DEF RetrievalInv, RankingOK

LEMMA ChangeInv == ASSUME RetrievalInv, Change PROVE RetrievalInv'
<1>1. IsFiniteSet(store')
  <2>1. CASE \E c \in Chunks \ store :
               store' = {d \in store : d.doc # c.doc \/ d.index # c.index} \cup {c}
    <3>1. PICK c \in Chunks \ store :
                 store' = {d \in store : d.doc # c.doc \/ d.index # c.index} \cup {c}
      BY <2>1
    <3> DEFINE kept == {d \in store : d.doc # c.doc \/ d.index # c.index}
    <3>2. kept \in SUBSET store
      OBVIOUS
    <3> HIDE DEF kept
    <3>3. IsFiniteSet(kept \cup {c})
      BY <3>2, FS_Subset, FS_AddElement DEF RetrievalInv
    <3>4. store' = kept \cup {c}
      BY <3>1 DEF kept
    <3> QED
      BY <3>3, <3>4
  <2>2. CASE \E c \in store : store' = store \ {c}
    BY <2>2, FS_RemoveElement DEF RetrievalInv
  <2> QED
    BY <2>1, <2>2 DEF Change
<1> QED
  BY <1>1, SteadyInv DEF Change

LEMMA AskInv == ASSUME RetrievalInv, Ask PROVE RetrievalInv'
<1>1. live' = store /\ store' = store /\ DOMAIN fused' = {} /\ answer' = NoAnswer
  BY DEF Ask
<1>2. Least(TopDense, Cardinality(store)) \in Nat
  BY FS_CardinalityType, RetrievalAssumption DEF RetrievalInv, Least
<1>3. dense' \in [1..Least(TopDense, Cardinality(store)) -> store]
  BY DEF Ask, Orders
<1>4. RankingOK'
  BY <1>1, <1>2, <1>3 DEF RankingOK
<1>5. answer'.texts = {}
  BY <1>1 DEF NoAnswer
<1> QED
  BY <1>1, <1>4, <1>5 DEF RetrievalInv

LEMMA FuseInv == ASSUME RetrievalInv, Fuse PROVE RetrievalInv'
<1>1. PICK hits : fused' \in Ranked(hits)
  BY DEF Fuse
<1>2. PICK p : fused' = [i \in DOMAIN p |-> Entry(hits, p[i])]
  BY <1>1, RankedEntries
<1>3. \A i \in DOMAIN fused' : fused'[i].text \in live \cup {NoText}
  BY <1>2, EntryText DEF RetrievalInv
<1>4. DOMAIN dense' = {} /\ 1..0 = {} /\ 0 \in Nat
  BY DEF Fuse
<1>5. RankingOK'
  BY <1>4 DEF RankingOK
<1> QED
  BY <1>3, <1>5 DEF Fuse, RetrievalInv

LEMMA EnrichInv == ASSUME RetrievalInv, Enrich PROVE RetrievalInv'
<1>1. store \subseteq live
  BY DEF RetrievalInv, Enrich
<1>2. PICK text : (\A i \in Blank : text[i] \in MayFill(store, i)) /\ fused' = Filled(text)
  BY DEF Enrich
<1>3. \A i : MayFill(store, i) \subseteq live \cup {NoText}
  BY <1>1 DEF MayFill
<1>4. ASSUME NEW i \in DOMAIN fused' PROVE fused'[i].text \in live \cup {NoText}
  <2>1. i \in DOMAIN fused
    BY <1>2, <1>4 DEF Filled
  <2>2. CASE i \in Blank
    <3>1. fused'[i] = [fused[i] EXCEPT !.text = text[i]]
      BY <1>2, <2>1, <2>2 DEF Filled
    <3>2. fused'[i].text \in {text[i], fused[i].text}
      BY <3>1
    <3> QED
      BY <1>2, <1>3, <2>1, <2>2, <3>2 DEF RetrievalInv
  <2>3. CASE i \notin Blank
    BY <1>2, <2>1, <2>3 DEF Filled, RetrievalInv
  <2> QED
    BY <2>2, <2>3
<1> QED
  BY <1>1, <1>4 DEF Enrich, RetrievalInv, RankingOK

LEMMA GatesInv == ASSUME RetrievalInv, Gates PROVE RetrievalInv'
<1>1. \A r \in Related : r.text \in live \cup {NoText}
  BY DEF Related, Results, RetrievalInv
<1>2. \A kind : Polite(kind).texts = {}
  BY DEF Polite
<1>3. answer'.texts = {} \/ answer'.texts = {r.text : r \in Related}
  <2>1. \/ \E kind : answer' = Polite(kind)
        \/ answer' = [kind |-> "text", texts |-> {r.text : r \in Related}]
    BY Zenon DEF Gates
  <2> QED
    BY <1>2, <2>1
<1>4. DOMAIN fused' = {}
  <2>1. fused' = <<>>
    BY Zenon DEF Gates
  <2> QED
    BY <2>1
<1> QED
  BY <1>1, <1>3, <1>4 DEF Gates, RetrievalInv, RankingOK

LEMMA RetrievalNextInv == RetrievalInv /\ [RetrievalNext]_retrievalVars => RetrievalInv'
<1> SUFFICES ASSUME RetrievalInv, [RetrievalNext]_retrievalVars PROVE RetrievalInv'
  OBVIOUS
<1>1. CASE UNCHANGED retrievalVars
  BY <1>1, SteadyInv DEF retrievalVars, RetrievalInv
<1>2. CASE PrewarmList \/ PrewarmBuild
  BY <1>2, SteadyInv DEF PrewarmList, PrewarmBuild, RetrievalInv
<1>3. CASE List \/ Build
  BY <1>3, SteadyInv DEF List, Build, RetrievalInv
<1> QED
  BY <1>1, <1>2, <1>3, ChangeInv, AskInv, FuseInv, EnrichInv, GatesInv DEF RetrievalNext

(* Whatever an answer is made from was stored at some time since it was    *)
(* asked for, however old the index and however the documents change       *)
(* between the two listings.                                               *)
THEOREM AnswersFromWhatIsStored == RetrievalInit /\ [][RetrievalNext]_retrievalVars => []TextIsCurrent
<1>1. RetrievalInv => TextIsCurrent
  BY DEF RetrievalInv, TextIsCurrent
<1> QED
  BY <1>1, RetrievalInitInv, RetrievalNextInv, PTL

(* The score of an entry that both rankings found is above every share.    *)

LEMMA PlacesTyped == Places \in Nat \ {0} /\ TopDense \in 1..Places /\ TopBm25 \in 1..Places
BY RetrievalAssumption DEF Places

LEMMA ShareIs ==
  ASSUME NEW r \in Ranks
  PROVE  Share(r) \in Nat /\ Share(r) * (RrfK + r) = Scale /\ Share(r) # 0
<1> DEFINE d == RrfK + r
<1>1. d \in Nat \ {0} /\ Scale \in Nat \ {0} /\ Scale % d = 0
  BY RetrievalAssumption, PlacesTyped DEF Ranks
<1> HIDE DEF d
<1>2. Scale \div d \in Nat /\ Scale = d * (Scale \div d) + (Scale % d)
  BY <1>1
<1>3. (Scale \div d) * d = Scale
  BY <1>1, <1>2
<1>4. Scale \div d # 0
  BY <1>1, <1>3
<1> QED
  BY <1>2, <1>3, <1>4 DEF Share, d

(* Of two shares the smaller is more than half the greater.                *)
LEMMA HalfShare ==
  ASSUME Places < RrfK + 2, NEW r \in Ranks, NEW t \in Ranks
  PROVE  Share(t) < 2 * Share(r)
<1> DEFINE a == Share(r)  c == Share(t)  p == RrfK + r  q == RrfK + t
<1>1. a \in Nat \ {0} /\ c \in Nat /\ a * p = c * q
  BY ShareIs
<1>2. p \in Nat \ {0} /\ q \in Nat \ {0} /\ p < 2 * q
  BY RetrievalAssumption, PlacesTyped DEF Ranks
<1> HIDE DEF a, c, p, q
<1>3. a * p < a * (2 * q)
  BY <1>1, <1>2
<1>4. ASSUME c >= 2 * a PROVE FALSE
  <2>1. c * q >= (2 * a) * q
    BY <1>1, <1>2, <1>4
  <2>2. (2 * a) * q = a * (2 * q)
    BY <1>1, <1>2
  <2> QED
    BY <1>1, <1>2, <1>3, <2>1, <2>2
<1>5. c < 2 * a
  BY <1>1, <1>4
<1> QED
  BY <1>5 DEF a, c

LEMMA TwoShares ==
  ASSUME Places < RrfK + 2, NEW r \in Ranks, NEW s \in Ranks, NEW t \in Ranks
  PROVE  Share(t) < Share(r) + Share(s)
<1>1. Share(t) < 2 * Share(r) /\ Share(t) < 2 * Share(s)
  BY HalfShare
<1>2. Share(r) \in Nat /\ Share(s) \in Nat /\ Share(t) \in Nat
  BY ShareIs
<1> QED
  BY <1>1, <1>2

(* The sum of the shares of a set of ranks.                                *)
SumLoop(S, f) ==
  f = [n \in Ranks |-> (IF n = 1 THEN 0 ELSE f[n - 1]) + (IF n \in S THEN Share(n) ELSE 0)]

LEMMA SumLoopExists == ASSUME NEW S PROVE \E f : SumLoop(S, f)
<1> DEFINE N == Places
           Part(n, f) ==
             f = [k \in 1..n |-> (IF k = 1 THEN 0 ELSE f[k - 1]) + (IF k \in S THEN Share(k) ELSE 0)]
           Built == {n \in 1..N : \E f : Part(n, f)}
<1>0. N \in Nat \ {0}
  BY PlacesTyped
<1>1. 1 \in Built
  <2> DEFINE f == [k \in 1..1 |-> 0 + (IF k \in S THEN Share(k) ELSE 0)]
  <2>1. f = [k \in 1..1 |-> (IF k = 1 THEN 0 ELSE f[k - 1]) + (IF k \in S THEN Share(k) ELSE 0)]
    OBVIOUS
  <2>2. 1 \in 1..N
    BY <1>0
  <2> HIDE DEF f
  <2> QED
    BY <2>1, <2>2
<1>2. ASSUME NEW n \in 1..N, n \in Built, n < N PROVE n + 1 \in Built
  <2>1. PICK f : Part(n, f)
    BY <1>2
  <2> DEFINE g == [k \in 1..(n + 1) |->
                    IF k <= n THEN f[k] ELSE f[n] + (IF k \in S THEN Share(k) ELSE 0)]
  <2>2. ASSUME NEW k \in 1..(n + 1)
        PROVE  g[k] = (IF k = 1 THEN 0 ELSE g[k - 1]) + (IF k \in S THEN Share(k) ELSE 0)
    <3>1. CASE k <= n
      <4>1. k \in 1..n /\ g[k] = f[k] /\ (k # 1 => g[k - 1] = f[k - 1])
        BY <3>1
      <4> QED
        BY <2>1, <4>1
    <3>2. CASE k = n + 1
      <4>1. g[k] = f[n] + (IF k \in S THEN Share(k) ELSE 0) /\ g[k - 1] = f[n] /\ k # 1
        BY <3>2
      <4> QED
        BY <4>1
    <3> QED
      BY <3>1, <3>2
  <2>3. Part(n + 1, g)
    BY <2>2
  <2>4. n + 1 \in 1..N
    BY <1>0, <1>2
  <2> HIDE DEF g, Part
  <2> QED
    BY <2>3, <2>4
<1> HIDE DEF Built
<1>3. 1..N \subseteq Built
  BY <1>0, <1>1, <1>2, Counting
<1>4. N \in Built
  BY <1>0, <1>3
<1> QED
  BY <1>4 DEF Built, SumLoop, Ranks

LEMMA SumIs ==
  ASSUME NEW S
  PROVE  \E f : SumLoop(S, f) /\ Sum(S) = f[Places]
<1> DEFINE f == CHOOSE f : SumLoop(S, f)
<1>1. SumLoop(S, f)
  BY SumLoopExists
<1>2. Sum(S) = f[Places]
  BY DEF Sum, SumLoop
<1> QED
  BY <1>1, <1>2

LEMMA SumFacts ==
  ASSUME NEW S \in SUBSET Ranks
  PROVE  /\ Sum(S) \in Nat
         /\ \A r \in S : Share(r) <= Sum(S)
         /\ S = {} => Sum(S) = 0
         /\ \A r : S = {r} => Sum(S) = Share(r)
<1>0. Places \in Nat \ {0} /\ Ranks = 1..Places /\ \A r \in Ranks : Share(r) \in Nat
  BY PlacesTyped, ShareIs DEF Ranks
<1>1. PICK f : SumLoop(S, f) /\ Sum(S) = f[Places]
  BY SumIs
<1>2. \A n \in 1..Places : f[n] = (IF n = 1 THEN 0 ELSE f[n - 1]) + (IF n \in S THEN Share(n) ELSE 0)
  BY <1>0, <1>1 DEF SumLoop
<1> DEFINE Good == {n \in 1..Places :
                      /\ f[n] \in Nat
                      /\ \A r \in S : r <= n => Share(r) <= f[n]
                      /\ S \cap 1..n = {} => f[n] = 0
                      /\ \A r : S = {r} => f[n] = IF r <= n THEN Share(r) ELSE 0}
<1>3. 1 \in Good
  <2>1. 1 \in 1..Places /\ f[1] = 0 + (IF 1 \in S THEN Share(1) ELSE 0)
    BY <1>0, <1>2
  <2>2. f[1] = IF 1 \in S THEN Share(1) ELSE 0
    BY <1>0, <2>1
  <2>3. \A r \in S : r <= 1 => r = 1
    BY <1>0
  <2>4. 1 \in S => S \cap 1..1 # {}
    OBVIOUS
  <2>5. \A r : S = {r} => (r <= 1 <=> 1 \in S)
    BY <1>0
  <2> QED
    BY <1>0, <2>1, <2>2, <2>3, <2>4, <2>5
<1>4. ASSUME NEW n \in 1..Places, n \in Good, n < Places PROVE n + 1 \in Good
  <2> DEFINE m == n + 1
  <2>1. /\ m \in 1..Places /\ m # 1 /\ m - 1 = n /\ n \in Nat
        /\ \A r \in S : r <= m => r <= n \/ r = m
    BY <1>0, <1>4
  <2>2. f[m] = f[n] + (IF m \in S THEN Share(m) ELSE 0)
    BY <1>2, <2>1
  <2>3. f[n] \in Nat /\ Share(m) \in Nat
    BY <1>0, <1>4, <2>1
  <2>4. f[m] \in Nat /\ f[n] <= f[m] /\ (m \in S => Share(m) <= f[m])
    BY <2>2, <2>3
  <2>5. ASSUME NEW r \in S, r <= m PROVE Share(r) <= f[m]
    <3>1. CASE r = m
      BY <2>4, <3>1
    <3>2. CASE r <= n
      <4>1. Share(r) <= f[n] /\ Share(r) \in Nat
        BY <1>0, <1>4, <3>2
      <4> QED
        BY <2>3, <2>4, <4>1
    <3> QED
      BY <2>1, <2>5, <3>1, <3>2
  <2>6. S \cap 1..m = {} => f[m] = 0
    <3>1. SUFFICES ASSUME S \cap 1..m = {} PROVE f[m] = 0
      OBVIOUS
    <3>2. m \notin S /\ S \cap 1..n = {}
      BY <2>1, <3>1
    <3>3. f[n] = 0
      BY <1>4, <3>2
    <3> QED
      BY <2>2, <3>2, <3>3
  <2>7. ASSUME NEW r, S = {r} PROVE f[m] = IF r <= m THEN Share(r) ELSE 0
    <3>1. f[n] = (IF r <= n THEN Share(r) ELSE 0) /\ r \in Ranks /\ r \in Nat /\ Share(r) \in Nat
      BY <1>0, <1>4, <2>7
    <3>2. CASE r = m
      BY <2>1, <2>2, <2>7, <3>1, <3>2
    <3>3. CASE r # m
      <4>1. m \notin S /\ (r <= m <=> r <= n)
        BY <2>1, <2>7, <3>1, <3>3
      <4> QED
        BY <2>2, <2>3, <3>1, <4>1
    <3> QED
      BY <3>2, <3>3
  <2> QED
    BY <2>1, <2>4, <2>5, <2>6, <2>7
<1> HIDE DEF Good
<1>5. 1..Places \subseteq Good
  BY <1>0, <1>3, <1>4, Counting
<1>6. Places \in Good
  BY <1>0, <1>5
<1>7. \A r \in S : r <= Places
  BY <1>0
<1> QED
  BY <1>1, <1>6, <1>7 DEF Good

(* What stands in the rankings.                                            *)
RanksOK ==
  /\ IsFiniteSet(store) /\ IsFiniteSet(index) /\ IsFiniteSet(listing) /\ IsFiniteSet(prewarm)
  /\ \E n \in 0..TopDense : DOMAIN dense = 1..n

LEMMA RanksInit == RetrievalInit => RanksOK
<1> SUFFICES ASSUME RetrievalInit PROVE RanksOK
  OBVIOUS
<1>1. IsFiniteSet({}) /\ IsFiniteSet(NoList)
  BY FS_EmptySet, FS_Singleton DEF NoList
<1>2. DOMAIN dense = 1..0 /\ 0 \in 0..TopDense
  BY RetrievalAssumption DEF RetrievalInit
<1> QED
  BY <1>1, <1>2 DEF RetrievalInit, RanksOK

LEMMA LeastTyped ==
  ASSUME NEW a \in Nat, NEW S, IsFiniteSet(S)
  PROVE  Least(a, Cardinality(S)) \in 0..a
<1>1. Cardinality(S) \in Nat
  BY FS_CardinalityType
<1> QED
  BY <1>1 DEF Least

LEMMA RanksStep == RetrievalInv /\ RanksOK /\ [RetrievalNext]_retrievalVars => RanksOK'
<1> SUFFICES ASSUME RetrievalInv, RanksOK, [RetrievalNext]_retrievalVars PROVE RanksOK'
  OBVIOUS
<1>1. IsFiniteSet(store')
  BY RetrievalNextInv DEF RetrievalInv
<1>2. IsFiniteSet(NoList)
  BY FS_Singleton DEF NoList
<1>3. CASE Ask
  <2> DEFINE n == Least(TopDense, Cardinality(store))
  <2>1. n \in 0..TopDense
    BY LeastTyped, RetrievalAssumption DEF RanksOK
  <2>2. DOMAIN dense' = 1..n
    BY <1>3 DEF Ask, Orders
  <2> QED
    BY <1>1, <1>3, <2>1, <2>2 DEF Ask, RanksOK
<1>4. CASE Fuse
  <2>1. DOMAIN dense' = 1..0 /\ 0 \in 0..TopDense
    BY <1>4, RetrievalAssumption DEF Fuse
  <2> QED
    BY <1>1, <1>4, <2>1 DEF Fuse, RanksOK
<1>5. CASE Change
  BY <1>1, <1>5 DEF Change, RanksOK
<1>6. CASE PrewarmList \/ PrewarmBuild
  BY <1>1, <1>2, <1>6 DEF PrewarmList, PrewarmBuild, RanksOK
<1>7. CASE List \/ Build
  BY <1>1, <1>2, <1>7 DEF List, Build, RanksOK
<1>8. CASE Enrich
  BY <1>1, <1>8 DEF Enrich, RanksOK
<1>9. CASE Gates
  BY <1>1, <1>9 DEF Gates, RanksOK
<1>10. CASE UNCHANGED retrievalVars
  BY <1>1, <1>10 DEF retrievalVars, RanksOK
<1> QED
  BY <1>3, <1>4, <1>5, <1>6, <1>7, <1>8, <1>9, <1>10 DEF RetrievalNext

(* Scores of an entry that both rankings have, and of one with one hit.    *)
LEMMA EntryScore ==
  ASSUME RanksOK, NEW m \in 0..TopBm25, NEW hits, DOMAIN hits = 1..m, NEW ci
  PROVE  LET e == Entry(hits, ci) IN
         /\ e.twice => \E r, s \in Ranks : e.score >= Share(r) + Share(s)
         /\ e.once => \E r \in Ranks : e.score = Share(r)
         /\ ci \in Found(hits) => e.score \in Nat
<1> DEFINE d == InDense(ci)  b == InBm25(hits, ci)  e == Entry(hits, ci)
<1>1. PICK n \in 0..TopDense : DOMAIN dense = 1..n
  BY DEF RanksOK
<1>2. d \in SUBSET (1..n) /\ b \in SUBSET (1..m)
  BY <1>1 DEF InDense, InBm25
<1>3. n \in Nat /\ m \in Nat /\ 1..n \subseteq Ranks /\ 1..m \subseteq Ranks
  BY PlacesTyped DEF Ranks
<1>4. /\ e.score = (IF d = {} THEN 0 ELSE Share(Latest(d))) + Sum(b)
      /\ e.twice = (d # {} /\ b # {}) /\ e.once = (Cardinality(d) + Cardinality(b) = 1)
  BY DEF Entry
<1>5. IsFiniteSet(d) /\ IsFiniteSet(b)
  <2>1. 1 \in Int /\ n \in Int /\ m \in Int
    BY <1>3
  <2>2. IsFiniteSet(1..n) /\ IsFiniteSet(1..m)
    BY <2>1, FS_Interval
  <2> QED
    BY <1>2, <2>2, FS_Subset
<1> HIDE DEF d, b, e
<1>6. d # {} => Latest(d) \in d /\ Latest(d) \in Ranks /\ Share(Latest(d)) \in Nat
  BY <1>2, <1>3, LatestIsOne, ShareIs
<1>7. /\ Sum(b) \in Nat /\ \A r \in b : Share(r) <= Sum(b) /\ r \in Ranks /\ Share(r) \in Nat
      /\ b = {} => Sum(b) = 0
      /\ \A r : b = {r} => Sum(b) = Share(r)
  <2>1. b \in SUBSET Ranks
    BY <1>2, <1>3
  <2> QED
    BY <2>1, SumFacts, ShareIs
<1>8. ASSUME e.twice PROVE \E r, s \in Ranks : e.score >= Share(r) + Share(s)
  <2>1. d # {} /\ b # {}
    BY <1>4, <1>8
  <2>2. PICK s \in b : TRUE
    BY <2>1
  <2>3. e.score = Share(Latest(d)) + Sum(b)
    BY <1>4, <2>1
  <2>4. e.score >= Share(Latest(d)) + Share(s)
    BY <1>6, <1>7, <2>1, <2>2, <2>3
  <2> QED
    BY <1>6, <1>7, <2>1, <2>2, <2>4
<1>9. ASSUME e.once PROVE \E r \in Ranks : e.score = Share(r)
  <2>1. Cardinality(d) \in Nat /\ Cardinality(b) \in Nat /\ Cardinality(d) + Cardinality(b) = 1
    BY <1>4, <1>5, <1>9, FS_CardinalityType
  <2>2. \/ Cardinality(d) = 1 /\ Cardinality(b) = 0
        \/ Cardinality(d) = 0 /\ Cardinality(b) = 1
    <3> DEFINE k == Cardinality(d)  l == Cardinality(b)
    <3>1. k \in Nat /\ l \in Nat /\ k + l = 1
      BY <2>1
    <3> HIDE DEF k, l
    <3>2. (k = 1 /\ l = 0) \/ (k = 0 /\ l = 1)
      BY <3>1
    <3> QED
      BY <3>2 DEF k, l
  <2>3. CASE Cardinality(d) = 1 /\ Cardinality(b) = 0
    <3>1. b = {}
      BY <1>5, <2>3, FS_EmptySet
    <3>2. d # {}
      BY <2>3, FS_EmptySet
    <3>3. e.score = Share(Latest(d)) + 0
      BY <1>4, <1>7, <3>1, <3>2
    <3> QED
      BY <1>6, <3>2, <3>3
  <2>4. CASE Cardinality(d) = 0 /\ Cardinality(b) = 1
    <3>1. d = {}
      BY <1>5, <2>4, FS_EmptySet
    <3>2. PICK r : b = {r}
      BY <1>5, <2>4, FS_Singleton
    <3>3. e.score = 0 + Share(r) /\ r \in Ranks /\ Share(r) \in Nat
      BY <1>4, <1>7, <3>1, <3>2
    <3> QED
      BY <3>3
  <2> QED
    BY <2>2, <2>3, <2>4
<1>10. e.score \in Nat
  BY <1>4, <1>6, <1>7
<1> QED
  BY <1>8, <1>9, <1>10 DEF e

LEMMA FoundFinite ==
  ASSUME RanksOK, NEW m \in 0..TopBm25, NEW hits, DOMAIN hits = 1..m
  PROVE  Cardinality(Found(hits)) \in Nat
<1>1. PICK n \in 0..TopDense : DOMAIN dense = 1..n
  BY DEF RanksOK
<1>2. 1 \in Int /\ n \in Int /\ m \in Int
  BY RetrievalAssumption
<1>3. IsFiniteSet(1..n) /\ IsFiniteSet(1..m)
  BY <1>2, FS_Interval
<1> DEFINE D == {dense[r].index : r \in 1..n}  B == {hits[r].index : r \in 1..m}
           f == [r \in 1..n |-> dense[r].index]  g == [r \in 1..m |-> hits[r].index]
<1>4. f \in Surjection(1..n, D) /\ g \in Surjection(1..m, B)
  BY DEF Surjection
<1>5. IsFiniteSet(D) /\ IsFiniteSet(B)
  <2> HIDE DEF D, B, f, g
  <2> QED
    BY <1>3, <1>4, FS_Surjection
<1>6. Found(hits) = D \cup B
  BY <1>1 DEF Found, ToSet
<1> HIDE DEF D, B
<1>7. IsFiniteSet(Found(hits))
  BY <1>5, <1>6, FS_Union
<1> QED
  BY <1>7, FS_CardinalityType

LEMMA FuseBeats ==
  ASSUME Places < RrfK + 2, RanksOK, Fuse
  PROVE  BothBeatOne'
<1>1. PICK m \in 0..Least(TopBm25, Cardinality(index)) :
        \E hits \in Orders(index, m) : fused' \in Ranked(hits)
  BY DEF Fuse
<1>2. PICK hits \in Orders(index, m) : fused' \in Ranked(hits)
  BY <1>1
<1>3. m \in 0..TopBm25 /\ DOMAIN hits = 1..m
  <2>1. Least(TopBm25, Cardinality(index)) \in 0..TopBm25
    BY LeastTyped, RetrievalAssumption DEF RanksOK
  <2> QED
    BY <1>1, <1>2, <2>1, RetrievalAssumption DEF Orders
<1>4. PICK p \in [1..Cardinality(Found(hits)) -> Found(hits)] :
        /\ fused' = [i \in DOMAIN p |-> Entry(hits, p[i])]
        /\ \A i, j \in DOMAIN p : i < j =>
             \/ Entry(hits, p[i]).score > Entry(hits, p[j]).score
             \/ Entry(hits, p[i]).score = Entry(hits, p[j]).score
  BY <1>2, RankedEntries
<1>5. SUFFICES ASSUME NEW i \in DOMAIN fused', NEW j \in DOMAIN fused', fused'[i].twice, fused'[j].once
               PROVE  i < j
  BY DEF BothBeatOne
<1>6. /\ i \in DOMAIN p /\ j \in DOMAIN p /\ i \in Nat /\ j \in Nat
      /\ fused'[i] = Entry(hits, p[i]) /\ fused'[j] = Entry(hits, p[j])
      /\ p[i] \in Found(hits) /\ p[j] \in Found(hits)
  BY <1>3, <1>4, FoundFinite
<1> DEFINE x == Entry(hits, p[i])  y == Entry(hits, p[j])
<1>7. PICK r \in Ranks, s \in Ranks : x.score >= Share(r) + Share(s)
  BY <1>3, <1>5, <1>6, EntryScore
<1>8. PICK t \in Ranks : y.score = Share(t)
  BY <1>3, <1>5, <1>6, EntryScore
<1>9. Share(t) < Share(r) + Share(s) /\ Share(r) \in Nat /\ Share(s) \in Nat /\ Share(t) \in Nat
  BY TwoShares, ShareIs
<1>10. x.score \in Nat /\ y.score \in Nat
  BY <1>3, <1>6, EntryScore
<1>11. j < i => y.score >= x.score
  BY <1>4, <1>6, <1>10
<1>12. i = j => x.score = y.score
  OBVIOUS
<1> HIDE DEF x, y
<1>13. ~(y.score >= x.score) /\ x.score # y.score
  BY <1>7, <1>8, <1>9, <1>10
<1> QED
  BY <1>6, <1>11, <1>12, <1>13

LEMMA EnrichBeats ==
  ASSUME BothBeatOne, Enrich
  PROVE  BothBeatOne'
<1>1. PICK text : fused' = Filled(text)
  BY DEF Enrich
<1>2. /\ DOMAIN fused' = DOMAIN fused
      /\ \A i \in DOMAIN fused : fused'[i].twice = fused[i].twice /\ fused'[i].once = fused[i].once
  BY <1>1 DEF Filled
<1> QED
  BY <1>2 DEF BothBeatOne

(* With rankings shorter than the constant allows (10 each and 60 in the   *)
(* code), what both rankings of search_with_embedding found stands before  *)
(* what one of them found once, wherever it stood there.  The bound is the *)
(* least: two shares at rank RrfK + 2 only equal the one at rank 1.        *)
THEOREM FoundTwiceIsFirst ==
  ASSUME TopDense < RrfK + 2, TopBm25 < RrfK + 2
  PROVE  RetrievalInit /\ [][RetrievalNext]_retrievalVars => []BothBeatOne
<1>0. Places < RrfK + 2
  BY DEF Places
<1>1. RetrievalInit => BothBeatOne
  BY DEF RetrievalInit, BothBeatOne
<1>2. RetrievalInv /\ RanksOK /\ BothBeatOne /\ [RetrievalNext]_retrievalVars => BothBeatOne'
  <2> SUFFICES ASSUME RetrievalInv, RanksOK, BothBeatOne, [RetrievalNext]_retrievalVars
               PROVE  BothBeatOne'
    OBVIOUS
  <2>1. CASE fused' = <<>>
    BY <2>1 DEF BothBeatOne
  <2>2. CASE fused' = fused
    BY <2>2 DEF BothBeatOne
  <2>3. Ask \/ Gates => fused' = <<>>
    BY Zenon DEF Ask, Gates
  <2>4. \/ Change \/ PrewarmList \/ PrewarmBuild \/ List \/ Build \/ UNCHANGED retrievalVars
        => fused' = fused
    BY DEF Change, PrewarmList, PrewarmBuild, List, Build, retrievalVars
  <2> QED
    BY <1>0, <2>1, <2>2, <2>3, <2>4, FuseBeats, EnrichBeats DEF RetrievalNext
<1> QED
  BY <1>1, <1>2, RetrievalInitInv, RetrievalNextInv, RanksInit, RanksStep, PTL
=============================================================================
