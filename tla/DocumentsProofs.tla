-------------------------- MODULE DocumentsProofs --------------------------
(* What holds of a tenant's documents for any number of requests,          *)
(* documents, chunks and texts.                                            *)
EXTENDS Documents, FiniteSetTheorems, WellFoundedInduction, TLAPS

-----------------------------------------------------------------------------
(* Sets of numbers                                                         *)

(* A set of naturals that is not empty has a least member.                 *)
LEMMA LeastOf ==
  ASSUME NEW S \in SUBSET Nat, S # {}
  PROVE  \E m \in S : \A n \in S : m <= n
<1> DEFINE Less == OpToRel(<, Nat)
<1>1. IsWellFoundedOn(Less, Nat)
  BY NatLessThanWellFounded
<1>2. \A a, b \in Nat : a < b => <<a, b>> \in Less
  BY DEF OpToRel
<1> HIDE DEF Less
<1>3. PICK m \in S : \A n \in S : <<n, m>> \notin Less
  BY <1>1, WFMin
<1>4. ASSUME NEW n \in S PROVE m <= n
  <2>1. m \in Nat /\ n \in Nat /\ ~(n < m)
    BY <1>2, <1>3
  <2> QED
    BY <2>1
<1> QED
  BY <1>4

(* A finite one has a greatest.                                            *)
Topless == {S \in SUBSET Nat : IsFiniteSet(S) /\ S # {} /\ \A m \in S : \E n \in S : n > m}

LEMMA GreatestOf ==
  ASSUME NEW S \in SUBSET Nat, IsFiniteSet(S), S # {}
  PROVE  \E m \in S : \A n \in S : n <= m
<1> SUFFICES ASSUME Topless # {} PROVE FALSE
  <2>1. S \notin Topless => \E m \in S : \A n \in S : ~(n > m)
    BY DEF Topless
  <2> QED
    BY <2>1
<1> DEFINE Sizes == {Cardinality(T) : T \in Topless}
<1>1. Sizes \in SUBSET Nat /\ Sizes # {}
  BY FS_CardinalityType DEF Topless
<1>2. PICK T \in Topless : \A U \in Topless : Cardinality(T) <= Cardinality(U)
  <2>1. \E m \in Sizes : \A n \in Sizes : m <= n
    BY <1>1, LeastOf
  <2> QED
    BY <2>1
<1>3. PICK x \in T : TRUE
  BY DEF Topless
<1> DEFINE U == T \ {x}
<1>4. IsFiniteSet(U) /\ Cardinality(U) = Cardinality(T) - 1 /\ Cardinality(T) \in Nat
  BY <1>3, FS_RemoveElement, FS_CardinalityType DEF Topless
<1>5. U \notin Topless
  BY <1>2, <1>4, FS_CardinalityType
<1>6. U # {}
  BY <1>3 DEF Topless
<1>7. PICK m \in U : \A n \in U : ~(n > m)
  BY <1>4, <1>5, <1>6 DEF Topless
<1>8. T \subseteq Nat /\ m \in Nat /\ x \in Nat /\ \A y \in T : \E n \in T : n > y
  BY <1>3, <1>7 DEF Topless
<1>9. PICK n \in T : n > x
  BY <1>3, <1>8
<1>10. PICK k \in T : k > m
  BY <1>7, <1>8
<1>11. k = x /\ n \in U
  BY <1>7, <1>8, <1>9, <1>10
<1> QED
  BY <1>7, <1>8, <1>9, <1>10, <1>11

LEMMA MaxOf ==
  ASSUME NEW S \in SUBSET Nat, IsFiniteSet(S), S # {}
  PROVE  Max(S) \in S
<1>1. \E m \in S : \A n \in S : m >= n
  BY GreatestOf
<1> QED
  BY <1>1 DEF Max

(* Places without a gap are the first ones.                                *)
LEMMA NoGap ==
  ASSUME NEW N \in Nat, NEW S \in SUBSET (1..N),
         \A i \in S, k \in 1..N : k < i => k \in S
  PROVE  /\ S = 1..Cardinality(S)
         /\ Cardinality(S) \in 0..N
<1>1. IsFiniteSet(1..N) /\ IsFiniteSet(S) /\ S \in SUBSET Nat
  <2>1. IsFiniteSet(1..N)
    BY FS_Interval
  <2>2. IsFiniteSet(S)
    BY <2>1, FS_Subset
  <2>3. \A i \in 1..N : i \in Nat
    OBVIOUS
  <2> QED
    BY <2>1, <2>2, <2>3
<1>2. CASE S = {}
  BY <1>2, FS_EmptySet
<1>3. CASE S # {}
  <2>1. PICK m \in S : \A n \in S : n <= m
    BY <1>1, <1>3, GreatestOf
  <2>2. m \in 1..N /\ 1..m \subseteq S /\ S \subseteq 1..m
    BY <2>1
  <2>3. Cardinality(1..m) = m
    BY <2>2, FS_Interval
  <2>4. S = 1..m
    BY <2>2
  <2>5. Cardinality(S) = m
    BY <2>3, <2>4
  <2> QED
    BY <2>2, <2>4, <2>5
<1> QED
  BY <1>2, <1>3

-----------------------------------------------------------------------------
(* Types                                                                   *)

USE DEF chroma

RowSet == [status : {"absent", "processing", "ready", "failed"},
           name : Names \cup {NoText}, count : 0..MaxChunks, deleted : BOOLEAN]
ChunkSet == [text : Texts \cup {NoText}, status : {"absent", "ready", "processing"}]
Written  == [Indices -> Texts \cup {NoText}]
JobSet   == [pc : Calls \cup {"idle", "done"}, kind : Kinds \cup {"none"}, doc : Docs \cup {NoDoc},
             old : Docs \cup {NoDoc}, name : Names \cup {NoText},
             size : 0..MaxChunks, pos : 1..(MaxChunks + 1), read : Written,
             client : {"server", "local"}]

Typed ==
  /\ row \in [Docs -> RowSet]
  /\ chunk \in [Docs -> [Indices -> ChunkSet]]
  /\ vec \in [Docs -> Written] /\ local \in [Docs -> Written]
  /\ cache \subseteq Docs \X Indices \X Texts
  /\ job \in [Jobs -> JobSet]
  /\ edited \in [Docs -> Written]
  /\ overlapped \subseteq Docs /\ degraded \subseteq Docs /\ strayed \subseteq Docs

LEMMA TypedIsTypeOK == Typed <=> TypeOK
BY DEF Typed, TypeOK, RowSet, ChunkSet, Written, JobSet

LEMMA IndicesFacts ==
  /\ Indices \subseteq Nat /\ MaxChunks \in Nat
  /\ \A i \in Nat : i \in Indices <=> 1 <= i /\ i <= MaxChunks
  /\ 1 \in 1..(MaxChunks + 1) /\ 0 \in 0..MaxChunks /\ Indices \subseteq 1..(MaxChunks + 1)
  /\ IsFiniteSet(Indices) /\ Cardinality(Indices) = MaxChunks
  /\ \A S \in SUBSET Indices : Cardinality(S) \in 0..MaxChunks
<1>1. MaxChunks \in Nat
  BY DocumentsAssumption
<1>2. IsFiniteSet(1..MaxChunks) /\ Cardinality(1..MaxChunks) = MaxChunks
  BY <1>1, FS_Interval
<1>3. \A S \in SUBSET (1..MaxChunks) : Cardinality(S) \in Nat /\ Cardinality(S) <= MaxChunks
  BY <1>2, FS_Subset, FS_CardinalityType
<1> QED
  BY <1>1, <1>2, <1>3 DEF Indices

LEMMA NothingFacts ==
  /\ NoText_ \in Written /\ NoRows \in [Indices -> ChunkSet] /\ NoRow \in RowSet
  /\ NoChunk \in ChunkSet /\ Idle \in JobSet /\ NoDoc \notin Docs
  /\ NoRow.status = "absent" /\ NoChunk.text = NoText /\ NoChunk.status = "absent"
  /\ \A i \in Indices : NoText_[i] = NoText /\ NoRows[i] = NoChunk
  /\ Idle.pc = "idle" /\ Idle.pos = 1
<1>1. MaxChunks \in Nat /\ NoDoc \notin Docs
  BY DocumentsAssumption DEF NoDoc
<1>2. Idle \in JobSet
  <2>1. NoText_ \in Written /\ 1 \in 1..(MaxChunks + 1) /\ 0 \in 0..MaxChunks
    BY <1>1 DEF NoText_, Written
  <2> QED
    BY <2>1 DEF Idle, JobSet
<1> QED
  BY <1>1, <1>2
   DEF NoText_, NoRows, NoRow, NoChunk, Idle, Written, ChunkSet, RowSet

LEMMA RowFacts ==
  /\ \A r \in RowSet : /\ r.status \in {"absent", "processing", "ready", "failed"}
                       /\ r.name \in Names \cup {NoText} /\ r.count \in 0..MaxChunks
                       /\ r.deleted \in BOOLEAN
  /\ \A r \in RowSet, s \in {"absent", "processing", "ready", "failed"} :
       /\ [r EXCEPT !.status = s] \in RowSet
       /\ [r EXCEPT !.status = s].status = s
       /\ [r EXCEPT !.status = s].deleted = r.deleted
  /\ \A r \in RowSet, s \in {"absent", "processing", "ready", "failed"}, n \in 0..MaxChunks :
       /\ [r EXCEPT !.status = s, !.count = n] \in RowSet
       /\ [r EXCEPT !.status = s, !.count = n].status = s
       /\ [r EXCEPT !.status = s, !.count = n].deleted = r.deleted
  /\ \A r \in RowSet : /\ [r EXCEPT !.deleted = TRUE] \in RowSet
                       /\ [r EXCEPT !.deleted = TRUE].status = r.status
                       /\ [r EXCEPT !.deleted = TRUE].deleted
BY DEF RowSet

LEMMA ChunkFacts ==
  /\ \A c \in ChunkSet : c.text \in Texts \cup {NoText} /\ c.status \in {"absent", "ready", "processing"}
  /\ \A t \in Texts \cup {NoText}, s \in {"absent", "ready", "processing"} :
       /\ [text |-> t, status |-> s] \in ChunkSet
       /\ [text |-> t, status |-> s].text = t /\ [text |-> t, status |-> s].status = s
  /\ \A c \in ChunkSet : /\ [c EXCEPT !.status = "ready"] \in ChunkSet
                         /\ [c EXCEPT !.status = "ready"].text = c.text
                         /\ [c EXCEPT !.status = "ready"].status = "ready"
BY DEF ChunkSet

LEMMA JobFacts ==
  /\ \A r \in JobSet : /\ r.pc \in Calls \cup {"idle", "done"} /\ r.kind \in Kinds \cup {"none"}
                       /\ r.doc \in Docs \cup {NoDoc} /\ r.old \in Docs \cup {NoDoc}
                       /\ r.name \in Names \cup {NoText} /\ r.size \in 0..MaxChunks
                       /\ r.pos \in 1..(MaxChunks + 1) /\ r.read \in Written
                       /\ r.client \in {"server", "local"}
  /\ DOMAIN job = Jobs /\ Typed => \A j \in Jobs : job[j] \in JobSet
BY DEF JobSet, Typed
-----------------------------------------------------------------------------
(* What a step does to the requests: one moves, the others stay            *)

Labels == Calls \cup {"idle", "done"}

Moved(j, r) == job' \in [Jobs -> JobSet] /\ job'[j] = r /\ \A k \in Jobs : k # j => job'[k] = job[k]

LEMMA MovedTo ==
  ASSUME Typed, NEW j \in Jobs, NEW r \in JobSet, job' = [job EXCEPT ![j] = r]
  PROVE  Moved(j, r)
BY DEF Typed, Moved

LEMMA FinishFacts ==
  ASSUME Typed, NEW j \in Jobs, Finish(j)
  PROVE  Moved(j, job'[j]) /\ job'[j].pc = "done" /\ job'[j].pos = 1 /\ Holds(job'[j]) = {}
<1> DEFINE q == [Idle EXCEPT !.pc = "done"]
<1>1. q \in JobSet /\ q.pc = "done" /\ q.pos = 1
  BY NothingFacts DEF JobSet
<1>2. job' = [job EXCEPT ![j] = q]
  BY DEF Finish
<1> HIDE DEF q
<1> QED
  BY <1>1, <1>2, MovedTo DEF Holds, Moved

Draws(j, l, d, n, f) ==
  job' = [job EXCEPT ![j].doc = d, ![j].pc = l, ![j].size = n, ![j].read = f]

Finds(j, l, d, i, f) ==
  job' = [job EXCEPT ![j].doc = d, ![j].pos = i, ![j].pc = l, ![j].read = f]

LEMMA GotoFacts ==
  ASSUME Typed, NEW j \in Jobs, NEW l \in Labels, Goto(j, l)
  PROVE  /\ Moved(j, job'[j])
         /\ job'[j].pc = l /\ job'[j].kind = job[j].kind /\ job'[j].doc = job[j].doc
         /\ job'[j].old = job[j].old
         /\ job'[j].name = job[j].name /\ job'[j].size = job[j].size
         /\ job'[j].pos = job[j].pos /\ job'[j].read = job[j].read
<1> DEFINE q == [job[j] EXCEPT !.pc = l]
<1>1. job[j] \in JobSet
  BY DEF Typed
<1>2. /\ q \in JobSet
      /\ q.pc = l /\ q.kind = job[j].kind /\ q.doc = job[j].doc /\ q.old = job[j].old
      /\ q.name = job[j].name /\ q.size = job[j].size /\ q.pos = job[j].pos /\ q.read = job[j].read
  BY <1>1, IndicesFacts DEF JobSet, Labels
<1>3. job' = [job EXCEPT ![j] = q]
  BY DEF Goto
<1> HIDE DEF q
<1> QED
  BY <1>2, <1>3, MovedTo DEF Moved

LEMMA FindFacts ==
  ASSUME Typed, NEW j \in Jobs, NEW l \in Labels, NEW d \in Docs \cup {NoDoc},
         NEW c \in {"server", "local"},
         job' = [job EXCEPT ![j].old = d, ![j].client = c, ![j].pc = l]
  PROVE  /\ Moved(j, job'[j])
         /\ job'[j].pc = l /\ job'[j].kind = job[j].kind /\ job'[j].doc = job[j].doc /\ job'[j].old = d
         /\ job'[j].name = job[j].name /\ job'[j].size = job[j].size
         /\ job'[j].pos = job[j].pos /\ job'[j].read = job[j].read
<1> DEFINE q == [job[j] EXCEPT !.old = d, !.client = c, !.pc = l]
<1>1. job[j] \in JobSet
  BY DEF Typed
<1>2. l \in Calls \cup {"idle", "done"} /\ 1 \in 1..(MaxChunks + 1)
  BY IndicesFacts DEF Labels
<1>3. q \in JobSet
  BY <1>1, <1>2 DEF JobSet
<1>4. /\ q.pc = l /\ q.kind = job[j].kind /\ q.doc = job[j].doc /\ q.old = d
      /\ q.name = job[j].name /\ q.size = job[j].size /\ q.pos = job[j].pos /\ q.read = job[j].read
  BY <1>1 DEF JobSet
<1>5. job' = [job EXCEPT ![j] = q]
  BY DEF Typed
<1> HIDE DEF q
<1> QED
  BY <1>3, <1>4, <1>5, MovedTo DEF Moved

LEMMA InsertFacts ==
  ASSUME Typed, NEW j \in Jobs, NEW l \in Labels, NEW d \in Docs, NEW n \in 0..MaxChunks,
         NEW f \in Written, Draws(j, l, d, n, f)
  PROVE  /\ Moved(j, job'[j])
         /\ job'[j].pc = l /\ job'[j].kind = job[j].kind /\ job'[j].doc = d /\ job'[j].old = job[j].old
         /\ job'[j].name = job[j].name /\ job'[j].size = n /\ job'[j].pos = job[j].pos
         /\ job'[j].read = f
<1> DEFINE q == [job[j] EXCEPT !.doc = d, !.pc = l, !.size = n, !.read = f]
<1>1. job[j] \in JobSet
  BY DEF Typed
<1>2. /\ q \in JobSet
      /\ q.pc = l /\ q.kind = job[j].kind /\ q.doc = d /\ q.old = job[j].old
      /\ q.name = job[j].name /\ q.size = n /\ q.pos = job[j].pos /\ q.read = f
  BY <1>1, IndicesFacts DEF JobSet, Labels
<1>3. job' = [job EXCEPT ![j] = q]
  BY DEF Draws
<1> HIDE DEF q
<1> QED
  BY <1>2, <1>3, MovedTo DEF Moved

LEMMA AdvanceFacts ==
  ASSUME Typed, NEW j \in Jobs, NEW i \in 1..(MaxChunks + 1), job' = [job EXCEPT ![j].pos = i]
  PROVE  /\ Moved(j, job'[j])
         /\ job'[j].pc = job[j].pc /\ job'[j].kind = job[j].kind /\ job'[j].doc = job[j].doc
         /\ job'[j].old = job[j].old
         /\ job'[j].name = job[j].name /\ job'[j].size = job[j].size /\ job'[j].pos = i
         /\ job'[j].read = job[j].read
<1> DEFINE q == [job[j] EXCEPT !.pos = i]
<1>1. job[j] \in JobSet
  BY DEF Typed
<1>2. /\ q \in JobSet
      /\ q.pc = job[j].pc /\ q.kind = job[j].kind /\ q.doc = job[j].doc /\ q.old = job[j].old
      /\ q.name = job[j].name /\ q.size = job[j].size /\ q.pos = i /\ q.read = job[j].read
  BY <1>1, IndicesFacts DEF JobSet, Labels
<1>3. job' = [job EXCEPT ![j] = q]
  BY DEF Typed
<1> HIDE DEF q
<1> QED
  BY <1>2, <1>3, MovedTo DEF Moved

LEMMA ReadFacts ==
  ASSUME Typed, NEW j \in Jobs, NEW l \in Labels, NEW f \in Written,
         job' = [job EXCEPT ![j].read = f, ![j].pc = l]
  PROVE  /\ Moved(j, job'[j])
         /\ job'[j].pc = l /\ job'[j].kind = job[j].kind /\ job'[j].doc = job[j].doc
         /\ job'[j].old = job[j].old
         /\ job'[j].name = job[j].name /\ job'[j].size = job[j].size
         /\ job'[j].pos = job[j].pos /\ job'[j].read = f
<1> DEFINE q == [job[j] EXCEPT !.read = f, !.pc = l]
<1>1. job[j] \in JobSet
  BY DEF Typed
<1>2. /\ q \in JobSet
      /\ q.pc = l /\ q.kind = job[j].kind /\ q.doc = job[j].doc /\ q.old = job[j].old
      /\ q.name = job[j].name /\ q.size = job[j].size /\ q.pos = job[j].pos /\ q.read = f
  BY <1>1, IndicesFacts DEF JobSet, Labels
<1>3. job' = [job EXCEPT ![j] = q]
  BY DEF Typed
<1> HIDE DEF q
<1> QED
  BY <1>2, <1>3, MovedTo DEF Moved

(* A page that was read: a reindex goes on with it, a view is over.        *)
LEMMA AfterListFacts ==
  ASSUME Typed, NEW j \in Jobs, NEW f \in Written, AfterList(j, f)
  PROVE  /\ Moved(j, job'[j]) /\ job'[j].pc \in {"mark", "done"}
         /\ \/ Finish(j)
            \/ job'[j].pc = "mark" /\ job'[j].doc = job[j].doc /\ job'[j].read = f
<1>1. "mark" \in Labels
  BY DEF Labels, Calls
<1>2. CASE job' = [job EXCEPT ![j].read = f, ![j].pc = "mark"]
  BY <1>1, <1>2, ReadFacts
<1> QED
  BY <1>2, FinishFacts DEF AfterList

Marks(j, l, c, n) ==
  job' = [job EXCEPT ![j].pc = l, ![j].pos = 1, ![j].client = c, ![j].size = n]

LEMMA MarkFacts ==
  ASSUME Typed, NEW j \in Jobs, NEW l \in Labels, NEW n \in 0..MaxChunks,
         NEW c \in {"server", "local"},
         Marks(j, l, c, n)
  PROVE  /\ Moved(j, job'[j])
         /\ job'[j].pc = l /\ job'[j].kind = job[j].kind /\ job'[j].doc = job[j].doc
         /\ job'[j].old = job[j].old
         /\ job'[j].name = job[j].name /\ job'[j].size = n /\ job'[j].pos = 1
         /\ job'[j].read = job[j].read
<1> DEFINE q == [job[j] EXCEPT !.pc = l, !.pos = 1, !.client = c, !.size = n]
<1>1. job[j] \in JobSet
  BY DEF Typed
<1>2. l \in Calls \cup {"idle", "done"} /\ 1 \in 1..(MaxChunks + 1)
  BY IndicesFacts DEF Labels
<1>3. q \in JobSet
  BY <1>1, <1>2 DEF JobSet
<1>4. /\ q.pc = l /\ q.kind = job[j].kind /\ q.doc = job[j].doc /\ q.old = job[j].old
      /\ q.name = job[j].name /\ q.size = n /\ q.pos = 1 /\ q.read = job[j].read
  BY <1>1 DEF JobSet
<1>5. job' = [job EXCEPT ![j] = q]
  BY DEF Typed, Marks
<1> HIDE DEF q
<1> QED
  BY <1>3, <1>4, <1>5, MovedTo DEF Moved

LEMMA SearchFacts ==
  ASSUME Typed, NEW j \in Jobs, NEW l \in Labels, NEW d \in Docs, NEW i \in Indices,
         NEW f \in Written, Finds(j, l, d, i, f)
  PROVE  /\ Moved(j, job'[j])
         /\ job'[j].pc = l /\ job'[j].kind = job[j].kind /\ job'[j].doc = d /\ job'[j].old = job[j].old
         /\ job'[j].name = job[j].name /\ job'[j].size = job[j].size /\ job'[j].pos = i
         /\ job'[j].read = f
<1> DEFINE q == [job[j] EXCEPT !.doc = d, !.pos = i, !.pc = l, !.read = f]
<1>1. job[j] \in JobSet
  BY DEF Typed
<1>2. /\ q \in JobSet
      /\ q.pc = l /\ q.kind = job[j].kind /\ q.doc = d /\ q.old = job[j].old
      /\ q.name = job[j].name /\ q.size = job[j].size /\ q.pos = i /\ q.read = f
  BY <1>1, IndicesFacts DEF JobSet, Labels
<1>3. job' = [job EXCEPT ![j] = q]
  BY DEF Finds
<1> HIDE DEF q
<1> QED
  BY <1>2, <1>3, MovedTo DEF Moved

LEMMA NamedFacts ==
  ASSUME Typed, NEW j \in Jobs, NEW l \in Labels, NEW kind \in Kinds, NEW name \in Names,
         job' = [job EXCEPT ![j].kind = kind, ![j].name = name, ![j].pc = l]
  PROVE  /\ Moved(j, job'[j])
         /\ job'[j].pc = l /\ job'[j].kind = kind /\ job'[j].doc = job[j].doc
         /\ job'[j].old = job[j].old
         /\ job'[j].name = name /\ job'[j].size = job[j].size /\ job'[j].pos = job[j].pos
         /\ job'[j].read = job[j].read
<1> DEFINE q == [job[j] EXCEPT !.kind = kind, !.name = name, !.pc = l]
<1>1. job[j] \in JobSet
  BY DEF Typed
<1>2. /\ q \in JobSet
      /\ q.pc = l /\ q.kind = kind /\ q.doc = job[j].doc /\ q.old = job[j].old
      /\ q.name = name /\ q.size = job[j].size /\ q.pos = job[j].pos /\ q.read = job[j].read
  BY <1>1, IndicesFacts DEF JobSet, Labels
<1>3. job' = [job EXCEPT ![j] = q]
  BY DEF Typed
<1> HIDE DEF q
<1> QED
  BY <1>2, <1>3, MovedTo DEF Moved

LEMMA TargetFacts ==
  ASSUME Typed, NEW j \in Jobs, NEW l \in Labels, NEW kind \in Kinds, NEW d \in Docs,
         job' = [job EXCEPT ![j].kind = kind, ![j].doc = d, ![j].pc = l]
  PROVE  /\ Moved(j, job'[j])
         /\ job'[j].pc = l /\ job'[j].kind = kind /\ job'[j].doc = d /\ job'[j].old = job[j].old
         /\ job'[j].name = job[j].name /\ job'[j].size = job[j].size
         /\ job'[j].pos = job[j].pos /\ job'[j].read = job[j].read
<1> DEFINE q == [job[j] EXCEPT !.kind = kind, !.doc = d, !.pc = l]
<1>1. job[j] \in JobSet
  BY DEF Typed
<1>2. /\ q \in JobSet
      /\ q.pc = l /\ q.kind = kind /\ q.doc = d /\ q.old = job[j].old
      /\ q.name = job[j].name /\ q.size = job[j].size /\ q.pos = job[j].pos /\ q.read = job[j].read
  BY <1>1, IndicesFacts DEF JobSet, Labels
<1>3. job' = [job EXCEPT ![j] = q]
  BY DEF Typed
<1> HIDE DEF q
<1> QED
  BY <1>2, <1>3, MovedTo DEF Moved

LEMMA KindFacts ==
  ASSUME Typed, NEW j \in Jobs, NEW l \in Labels, NEW kind \in Kinds,
         job' = [job EXCEPT ![j].kind = kind, ![j].pc = l]
  PROVE  /\ Moved(j, job'[j])
         /\ job'[j].pc = l /\ job'[j].kind = kind /\ job'[j].doc = job[j].doc
         /\ job'[j].old = job[j].old
         /\ job'[j].name = job[j].name /\ job'[j].size = job[j].size
         /\ job'[j].pos = job[j].pos /\ job'[j].read = job[j].read
<1> DEFINE q == [job[j] EXCEPT !.kind = kind, !.pc = l]
<1>1. job[j] \in JobSet
  BY DEF Typed
<1>2. /\ q \in JobSet
      /\ q.pc = l /\ q.kind = kind /\ q.doc = job[j].doc /\ q.old = job[j].old
      /\ q.name = job[j].name /\ q.size = job[j].size /\ q.pos = job[j].pos /\ q.read = job[j].read
  BY <1>1, IndicesFacts DEF JobSet, Labels
<1>3. job' = [job EXCEPT ![j] = q]
  BY DEF Typed
<1> HIDE DEF q
<1> QED
  BY <1>2, <1>3, MovedTo DEF Moved

-----------------------------------------------------------------------------
(* What a step may touch                                                   *)

Held(j, d) == d \in Holds(job[j])

Same(d) ==
  /\ row'[d] = row[d] /\ chunk'[d] = chunk[d] /\ vec'[d] = vec[d] /\ edited'[d] = edited[d]
  /\ \A a \in cache' : a[1] = d => a \in cache

StoreTyped ==
  /\ row \in [Docs -> RowSet] /\ chunk \in [Docs -> [Indices -> ChunkSet]]
  /\ vec \in [Docs -> Written] /\ local \in [Docs -> Written] /\ edited \in [Docs -> Written]
  /\ cache \subseteq Docs \X Indices \X Texts /\ degraded \subseteq Docs /\ strayed \subseteq Docs

(* A step of one request writes only documents that it holds before it or  *)
(* after it.                                                               *)
Proper(j) ==
  /\ StoreTyped' /\ Moved(j, job'[j]) /\ degraded \subseteq degraded' /\ strayed \subseteq strayed'
  /\ \A d \in Docs : ~Held(j, d) /\ ~Held(j, d)' => Same(d)

(* A request that has come to its document has one; one that makes answers *)
(* has found a text; the chunks are written from the first on.             *)
Aimed == {"prepare", "vectors", "rows", "ready", "fail", "lookup", "list", "backfill", "relist", "mark",
          "upsert", "clear", "succeed", "refail", "edit", "delVectors", "softDelete", "keep"}
Early == {"idle", "find", "dropVectors", "dropRow", "insert", "prepare", "dropCollection", "dropRows"}

InPlace(r) ==
  /\ r.pc \in {"dropCollection", "dropRows"} => r.kind = "reseed"
  /\ r.pc \in Aimed => r.doc \in Docs
  /\ r.pc \in {"dropVectors", "dropRow"} => r.old \in Docs
  /\ r.pc \in Early => r.pos = 1
  /\ r.pc \in {"prepare", "vectors", "rows", "upsert"} => r.pos <= r.size + 1
  /\ r.pc = "keep" => r.pos \in Indices /\ r.read[r.pos] \in Texts

PlacesOK == \A j \in Jobs : InPlace(job[j])

LEMMA HeldWhileBusy ==
  ASSUME Typed, NEW j \in Jobs, job[j].pc \notin {"idle", "done"}, NEW d \in Docs,
         job[j].doc = d \/ job[j].old = d
  PROVE  Held(j, d)
BY NothingFacts DEF Held, Holds

LEMMA HeldByReseed ==
  ASSUME Typed, NEW j \in Jobs, job[j].pc \notin {"idle", "done"}, NEW d \in Docs,
         job[j].kind = "reseed"
  PROVE  Held(j, d)
BY DEF Held, Holds

LEMMA QuietStep ==
  ASSUME Typed, NEW j \in Jobs, Moved(j, job'[j]), UNCHANGED <<store, edited>>,
         degraded \subseteq degraded', degraded' \subseteq Docs
  PROVE  Proper(j)
BY DEF Proper, StoreTyped, Typed, Same, store

(* A write of vectors goes to one store, and the other learns nothing.     *)
LEMMA WriteFacts ==
  ASSUME Typed, NEW c \in {"server", "local"}, NEW d \in Docs, NEW f \in Written, WriteVectors(c, d, f)
  PROVE  /\ vec' \in [Docs -> Written] /\ local' \in [Docs -> Written]
         /\ strayed \subseteq strayed' /\ strayed' \subseteq Docs
         /\ \A e \in Docs : e # d => vec'[e] = vec[e]
         /\ vec'[d] \in {f, vec[d]} /\ (d \notin strayed' => vec'[d] = f)
<1>1. CASE c = "server"
  BY <1>1 DEF Typed, WriteVectors, Stray
<1>2. CASE c # "server"
  BY <1>2 DEF Typed, WriteVectors, Stray
<1> QED
  BY <1>1, <1>2

LEMMA VectorsFacts ==
  ASSUME Typed, NEW c, NEW d \in Docs PROVE Vectors(c)[d] \in Written
BY DEF Typed, Vectors

LEMMA StrayFacts ==
  ASSUME Typed, NEW c, NEW d \in Docs, Stray(c, d)
  PROVE  /\ strayed \subseteq strayed' /\ strayed' \subseteq Docs
         /\ d \notin strayed' => Vectors(c) = vec
BY DEF Typed, Stray, Vectors

LEMMA UploadFindFacts ==
  ASSUME Typed, NEW j \in Jobs, UploadFind(j)
  PROVE  /\ At(j, "find") /\ UNCHANGED <<store, edited, degraded>>
         /\ Moved(j, job'[j]) /\ job'[j].pos = job[j].pos
         /\ \/ job'[j].pc = "insert"
            \/ job'[j].pc = "dropVectors" /\ job'[j].old \in Docs
<1> DEFINE d == Existing(job[j].name)
<1>1. d \in Docs \cup {NoDoc}
  <2> DEFINE same == {e \in Docs : Alive(e) /\ row[e].status # "failed" /\ row[e].name = job[j].name}
  <2>1. same \in SUBSET Docs /\ Docs \in SUBSET Nat /\ IsFiniteSet(Docs)
    BY DocumentsAssumption
  <2>2. IsFiniteSet(same)
    BY <2>1, FS_Subset
  <2>3. d = IF same = {} THEN NoDoc ELSE Max(same)
    BY DEF Existing
  <2> HIDE DEF same, d
  <2> QED
    BY <2>1, <2>2, <2>3, MaxOf
<1> DEFINE l == IF d = NoDoc THEN "insert" ELSE "dropVectors"
<1>2. l \in Labels /\ (l = "insert" \/ (l = "dropVectors" /\ d # NoDoc))
  BY DEF Labels, Calls
<1>3. UNCHANGED <<store, edited, degraded>> /\ At(j, "find")
  BY DEF UploadFind
<1>c. PICK c \in {"server", "local"} : job' = [job EXCEPT ![j].old = d, ![j].client = c, ![j].pc = l]
  BY DocumentsAssumption DEF UploadFind
<1> HIDE DEF d, l
<1>4. Moved(j, job'[j]) /\ job'[j].pos = job[j].pos /\ job'[j].pc = l /\ job'[j].old = d
  BY ZenonT(30), <1>1, <1>2, <1>c, FindFacts
<1> QED
  BY <1>1, <1>2, <1>3, <1>4

LEMMA UploadFindProper == ASSUME Typed, NEW j \in Jobs, UploadFind(j) PROVE Proper(j)
BY UploadFindFacts, QuietStep DEF Typed

LEMMA UploadDropVectorsProper ==
  ASSUME Typed, PlacesOK, NEW j \in Jobs, UploadDropVectors(j)
  PROVE  Proper(j)
<1>1. Moved(j, job'[j])
  BY GotoFacts DEF UploadDropVectors, Labels, Calls
<1>2. job[j].old \in Docs /\ Held(j, job[j].old)
  BY HeldWhileBusy DEF UploadDropVectors, At, PlacesOK, InPlace
<1>3. /\ WriteVectors(job[j].client, job[j].old, NoText_)
      /\ UNCHANGED <<row, chunk, cache, edited, degraded>>
  BY DEF UploadDropVectors
<1>4. /\ vec' \in [Docs -> Written] /\ local' \in [Docs -> Written]
      /\ strayed \subseteq strayed' /\ strayed' \subseteq Docs
      /\ \A e \in Docs : e # job[j].old => vec'[e] = vec[e]
  <2>1. job[j].client \in {"server", "local"} /\ NoText_ \in Written
    BY NothingFacts, JobFacts DEF Typed
  <2> QED
    BY <1>2, <1>3, <2>1, WriteFacts
<1> QED
  BY <1>1, <1>2, <1>3, <1>4 DEF Proper, StoreTyped, Typed, Same

LEMMA UploadDropRowProper == ASSUME Typed, NEW j \in Jobs, UploadDropRow(j) PROVE Proper(j)
<1>1. Moved(j, job'[j])
  BY GotoFacts, FinishFacts DEF UploadDropRow, Labels, Calls
<1>2. \A d \in Docs : job[j].old = d => Held(j, d)
  BY HeldWhileBusy DEF UploadDropRow, At
<1> QED
  BY <1>1, <1>2, NothingFacts DEF UploadDropRow, Proper, StoreTyped, Typed, Same

(* What an upload starts with.                                             *)
NewRow(name) == [status |-> "processing", name |-> name, count |-> 0, deleted |-> FALSE]

Inserted(j, d, n, f) ==
  /\ Fresh(d)
  /\ row' = [row EXCEPT ![d] = NewRow(job[j].name)]
  /\ Draws(j, "prepare", d, n, f)
  /\ \A i \in Indices : i <= n <=> f[i] # NoText

LEMMA UploadInsertFacts ==
  ASSUME Typed, NEW j \in Jobs, UploadInsert(j)
  PROVE  /\ \E d \in Docs, n \in 0..MaxChunks, f \in Written : Inserted(j, d, n, f)
         /\ UNCHANGED <<chunk, chroma, cache, edited, degraded>>
         /\ At(j, "insert")
<1>1. PICK d \in Docs, n \in 0..MaxChunks, t \in Texts :
        /\ Fresh(d) /\ \A e \in Docs : Fresh(e) => d <= e
        /\ row' = [row EXCEPT ![d] = [status |-> "processing", name |-> job[j].name,
                                      count |-> 0, deleted |-> FALSE]]
        /\ job' = [job EXCEPT ![j].doc = d, ![j].pc = "prepare", ![j].size = n,
                              ![j].read = [i \in Indices |-> IF i <= n THEN t ELSE NoText]]
  BY Zenon DEF UploadInsert
<1> DEFINE f == [i \in Indices |-> IF i <= n THEN t ELSE NoText]
<1>2. f \in Written /\ \A i \in Indices : i <= n <=> f[i] # NoText
  BY DocumentsAssumption DEF Written
<1>3. Draws(j, "prepare", d, n, f)
  BY <1>1 DEF Draws
<1>4. row' = [row EXCEPT ![d] = NewRow(job[j].name)]
  BY <1>1 DEF NewRow
<1>5. UNCHANGED <<chunk, chroma, cache, edited, degraded>> /\ At(j, "insert")
  BY DEF UploadInsert
<1>6. Fresh(d)
  BY <1>1
<1> HIDE DEF f
<1>7. Inserted(j, d, n, f)
  BY <1>2, <1>3, <1>4, <1>6 DEF Inserted
<1> QED
  BY <1>2, <1>5, <1>7

LEMMA InsertedFacts ==
  ASSUME Typed, NEW j \in Jobs, NEW d \in Docs, NEW n \in 0..MaxChunks, NEW f \in Written,
         Inserted(j, d, n, f)
  PROVE  /\ Moved(j, job'[j]) /\ job'[j].pc = "prepare" /\ job'[j].kind = job[j].kind
         /\ job'[j].doc = d /\ job'[j].old = job[j].old
         /\ job'[j].size = n /\ job'[j].pos = job[j].pos /\ job'[j].read = f
         /\ Held(j, d)'
         /\ row' \in [Docs -> RowSet]
         /\ row'[d].status = "processing" /\ ~row'[d].deleted
         /\ \A e \in Docs : e # d => row'[e] = row[e]
<1>1. "prepare" \in Labels
  BY DEF Labels, Calls
<1>2. Draws(j, "prepare", d, n, f)
  BY DEF Inserted
<1>3. /\ Moved(j, job'[j]) /\ job'[j].pc = "prepare" /\ job'[j].kind = job[j].kind
      /\ job'[j].doc = d /\ job'[j].old = job[j].old
      /\ job'[j].size = n /\ job'[j].pos = job[j].pos /\ job'[j].read = f
  BY <1>1, <1>2, InsertFacts
<1>4. Held(j, d)'
  <2>1. NoDoc \notin Docs
    BY NothingFacts
  <2>2. d \in Holds(job'[j])
    BY <1>3, <2>1 DEF Holds
  <2> QED
    BY <2>2 DEF Held
<1>5. job[j].name \in Names \cup {NoText} /\ 0 \in 0..MaxChunks
  BY JobFacts, IndicesFacts DEF Typed
<1>6. NewRow(job[j].name) \in RowSet /\ NewRow(job[j].name).status = "processing"
      /\ ~NewRow(job[j].name).deleted
  BY <1>5 DEF RowSet, NewRow
<1>7. row' = [row EXCEPT ![d] = NewRow(job[j].name)] /\ row \in [Docs -> RowSet]
  BY DEF Inserted, Typed
<1> QED
  BY <1>3, <1>4, <1>6, <1>7

LEMMA UploadInsertProper == ASSUME Typed, NEW j \in Jobs, UploadInsert(j) PROVE Proper(j)
<1>1. PICK d \in Docs, n \in 0..MaxChunks, f \in Written : Inserted(j, d, n, f)
  BY UploadInsertFacts
<1>2. /\ Moved(j, job'[j]) /\ Held(j, d)' /\ row' \in [Docs -> RowSet]
      /\ \A e \in Docs : e # d => row'[e] = row[e]
  BY <1>1, InsertedFacts
<1>3. UNCHANGED <<chunk, chroma, cache, edited, degraded>>
  BY UploadInsertFacts
<1> QED
  BY <1>2, <1>3 DEF Proper, StoreTyped, Typed, Same

LEMMA UploadPrepareProper == ASSUME Typed, NEW j \in Jobs, UploadPrepare(j) PROVE Proper(j)
<1>1. Moved(j, job'[j])
  BY GotoFacts DEF UploadPrepare, Labels, Calls
<1> QED
  BY <1>1, QuietStep DEF UploadPrepare, Typed

(* One upsert, or the end of the upserts.                                  *)
Upserted(j) ==
  WriteVectors(job[j].client, job[j].doc,
               [Vectors(job[j].client)[job[j].doc] EXCEPT ![job[j].pos] = job[j].read[job[j].pos]])

LEMMA WriteVectorFacts ==
  ASSUME Typed, NEW j \in Jobs, NEW l \in Labels, WriteVector(j, l)
  PROVE  \/ /\ job[j].pos > job[j].size
            /\ Goto(j, l) /\ UNCHANGED chroma
         \/ /\ job[j].pos <= job[j].size /\ job[j].pos \in Indices
            /\ job[j].pos + 1 \in 1..(MaxChunks + 1)
            /\ Upserted(j)
            /\ job' = [job EXCEPT ![j].pos = job[j].pos + 1]
<1>1. job[j].pos \in 1..(MaxChunks + 1) /\ job[j].size \in 0..MaxChunks /\ MaxChunks \in Nat
  BY JobFacts, IndicesFacts DEF Typed
<1>2. CASE job[j].pos > job[j].size
  BY <1>1, <1>2 DEF WriteVector
<1>3. CASE job[j].pos <= job[j].size
  BY <1>1, <1>3, IndicesFacts DEF WriteVector, Upserted
<1> QED
  BY <1>1, <1>2, <1>3

(* On the server the place it stands at has the text it read.              *)
LEMMA UpsertedFacts ==
  ASSUME Typed, NEW j \in Jobs, job[j].doc \in Docs, job[j].pos \in Indices, Upserted(j)
  PROVE  /\ vec' \in [Docs -> Written] /\ local' \in [Docs -> Written]
         /\ strayed \subseteq strayed' /\ strayed' \subseteq Docs
         /\ \A e \in Docs : e # job[j].doc => vec'[e] = vec[e]
         /\ job[j].doc \notin strayed' =>
              /\ vec'[job[j].doc][job[j].pos] = job[j].read[job[j].pos]
              /\ \A i \in Indices : i # job[j].pos => vec'[job[j].doc][i] = vec[job[j].doc][i]
<1> DEFINE d == job[j].doc  c == job[j].client  g == Vectors(c)[d]
           f == [g EXCEPT ![job[j].pos] = job[j].read[job[j].pos]]
<1>1. g \in Written /\ c \in {"server", "local"} /\ job[j].read \in Written
  BY VectorsFacts, JobFacts DEF Typed
<1>2. /\ f \in Written /\ f[job[j].pos] = job[j].read[job[j].pos]
      /\ \A i \in Indices : i # job[j].pos => f[i] = g[i]
  <2> HIDE DEF g
  <2> QED
    BY <1>1 DEF Written
<1>3. WriteVectors(c, d, f) /\ Stray(c, d)
  BY DEF Upserted, WriteVectors
<1>4. d \notin strayed' => g = vec[d]
  BY <1>3, StrayFacts
<1> HIDE DEF d, c, f, g
<1>5. /\ vec' \in [Docs -> Written] /\ local' \in [Docs -> Written]
      /\ strayed \subseteq strayed' /\ strayed' \subseteq Docs
      /\ \A e \in Docs : e # d => vec'[e] = vec[e]
      /\ d \notin strayed' => vec'[d] = f
  BY <1>1, <1>2, <1>3, WriteFacts DEF d
<1> QED
  BY <1>2, <1>4, <1>5 DEF d

LEMMA WriteVectorProper ==
  ASSUME Typed, NEW j \in Jobs, NEW l \in Labels, WriteVector(j, l),
         job[j].pc \in Aimed, PlacesOK, UNCHANGED <<row, chunk, cache, edited, degraded>>
  PROVE  Proper(j)
<1>1. CASE Goto(j, l) /\ UNCHANGED chroma
  BY <1>1, GotoFacts, QuietStep DEF Typed, store
<1>2. CASE /\ job[j].pos \in Indices /\ job[j].pos + 1 \in 1..(MaxChunks + 1)
           /\ Upserted(j)
           /\ job' = [job EXCEPT ![j].pos = job[j].pos + 1]
  <2>1. Moved(j, job'[j])
    BY <1>2, AdvanceFacts
  <2>2. job[j].doc \in Docs /\ Held(j, job[j].doc)
    BY HeldWhileBusy DEF PlacesOK, InPlace, Aimed
  <2>3. /\ vec' \in [Docs -> Written] /\ local' \in [Docs -> Written]
        /\ strayed \subseteq strayed' /\ strayed' \subseteq Docs
        /\ \A e \in Docs : e # job[j].doc => vec'[e] = vec[e]
    BY <1>2, <2>2, UpsertedFacts
  <2> QED
    BY <2>1, <2>2, <2>3 DEF Proper, StoreTyped, Typed, Same
<1> QED
  BY <1>1, <1>2, WriteVectorFacts

LEMMA UploadVectorProper == ASSUME Typed, PlacesOK, NEW j \in Jobs, UploadVector(j) PROVE Proper(j)
<1>1. job[j].pc \in Aimed /\ "rows" \in Labels /\ "fail" \in Labels
  BY DEF UploadVector, At, Aimed, Labels, Calls
<1>2. CASE WriteVector(j, "rows")
  BY <1>1, <1>2, WriteVectorProper DEF UploadVector
<1>3. CASE Goto(j, "fail") /\ UNCHANGED chroma
  BY <1>1, <1>3, GotoFacts, QuietStep DEF UploadVector, Typed, store
<1> QED
  BY <1>2, <1>3 DEF UploadVector
(* Rows made from texts.                                                   *)
LEMMA ChunkRowsFacts ==
  ASSUME Typed, NEW d \in Docs, NEW f \in Written, NEW k \in 0..MaxChunks
  PROVE  /\ ChunkRows(d, f, k) \in [Docs -> [Indices -> ChunkSet]]
         /\ \A e \in Docs : e # d => ChunkRows(d, f, k)[e] = chunk[e]
         /\ \A i \in Indices :
              /\ i <= k /\ f[i] # NoText =>
                   ChunkRows(d, f, k)[d][i] = [text |-> f[i], status |-> "ready"]
              /\ ~(i <= k /\ f[i] # NoText) => ChunkRows(d, f, k)[d][i] = chunk[d][i]
<1> DEFINE g == [i \in Indices |->
      IF i <= k /\ f[i] # NoText THEN [text |-> f[i], status |-> "ready"] ELSE chunk[d][i]]
<1>1. g \in [Indices -> ChunkSet]
  <2>1. ASSUME NEW i \in Indices PROVE g[i] \in ChunkSet
    <3>1. chunk[d][i] \in ChunkSet /\ f[i] \in Texts \cup {NoText}
      BY DEF Typed, Written
    <3>2. [text |-> f[i], status |-> "ready"] \in ChunkSet
      BY <3>1 DEF ChunkSet
    <3> QED
      BY <3>1, <3>2
  <2> QED
    BY <2>1
<1>2. /\ \A i \in Indices : i <= k /\ f[i] # NoText => g[i] = [text |-> f[i], status |-> "ready"]
      /\ \A i \in Indices : ~(i <= k /\ f[i] # NoText) => g[i] = chunk[d][i]
  OBVIOUS
<1>3. ChunkRows(d, f, k) = [chunk EXCEPT ![d] = g]
  BY DEF ChunkRows, Typed
<1> HIDE DEF g
<1> QED
  BY <1>1, <1>2, <1>3 DEF Typed

LEMMA RowsBeyond ==
  ASSUME Typed, NEW d \in Docs, NEW f \in Written, NEW k \in 0..MaxChunks,
         NEW i \in Indices, ~(i <= k)
  PROVE  ChunkRows(d, f, k)[d][i] = chunk[d][i]
BY ChunkRowsFacts

LEMMA UploadRowsProper == ASSUME Typed, NEW j \in Jobs, UploadRows(j) PROVE Proper(j)
<1> DEFINE d == job[j].doc
<1>1. PICK k \in 0..job[j].size :
        /\ row[d].status = "absent" => k = 0
        /\ chunk' = ChunkRows(d, job[j].read, k)
        /\ Goto(j, IF k = job[j].size THEN "ready" ELSE "fail")
  BY DEF UploadRows
<1>2. k \in 0..MaxChunks /\ job[j].read \in Written
  BY JobFacts, IndicesFacts DEF Typed
<1>3. Moved(j, job'[j])
  BY <1>1, GotoFacts DEF Labels, Calls
<1>4. UNCHANGED <<row, chroma, cache, edited, degraded>> /\ job[j].pc \notin {"idle", "done"}
  BY DEF UploadRows, At
<1>5. CASE d \in Docs
  <2>1. /\ chunk' \in [Docs -> [Indices -> ChunkSet]]
        /\ \A e \in Docs : e # d => chunk'[e] = chunk[e]
    BY <1>1, <1>2, <1>5, ChunkRowsFacts
  <2>2. \A e \in Docs : e = d => Held(j, e)
    BY <1>4, HeldWhileBusy
  <2> HIDE DEF d
  <2> QED
    BY <1>3, <1>4, <2>1, <2>2 DEF Proper, StoreTyped, Typed, Same
<1>6. CASE d \notin Docs
  <2>1. chunk' = chunk
    BY <1>1, <1>6 DEF ChunkRows, Typed
  <2> QED
    BY <1>3, <1>4, <2>1, QuietStep DEF store, Typed
<1> QED
  BY <1>5, <1>6

(* A step that writes at most the row of the document of its request.      *)
LEMMA RowStep ==
  ASSUME Typed, NEW j \in Jobs, job[j].pc \notin {"idle", "done"}, Moved(j, job'[j]),
         UNCHANGED <<chunk, chroma, cache, edited, degraded>>,
         row' = row \/ \E r \in RowSet : row' = [row EXCEPT ![job[j].doc] = r]
  PROVE  Proper(j)
<1>1. row' \in [Docs -> RowSet] /\ \A e \in Docs : e # job[j].doc => row'[e] = row[e]
  BY DEF Typed
<1>2. \A e \in Docs : job[j].doc = e => Held(j, e)
  BY HeldWhileBusy
<1> QED
  BY <1>1, <1>2 DEF Proper, StoreTyped, Typed, Same

(* The ways in which a row is written.                                     *)
LEMMA RowWrites ==
  ASSUME Typed, NEW d
  PROVE  /\ \A s \in {"absent", "processing", "ready", "failed"} :
              row' = [row EXCEPT ![d].status = s] =>
                row' = row \/ \E r \in RowSet : row' = [row EXCEPT ![d] = r]
         /\ \A n \in 0..MaxChunks :
              row' = [row EXCEPT ![d].status = "ready", ![d].count = n] =>
                row' = row \/ \E r \in RowSet : row' = [row EXCEPT ![d] = r]
         /\ row' = [row EXCEPT ![d].deleted = TRUE] =>
                row' = row \/ \E r \in RowSet : row' = [row EXCEPT ![d] = r]
<1>1. CASE d \notin Docs
  BY <1>1 DEF Typed
<1>2. CASE d \in Docs
  <2>1. row[d] \in RowSet
    BY <1>2 DEF Typed
  <2>2. /\ \A s \in {"absent", "processing", "ready", "failed"} : [row[d] EXCEPT !.status = s] \in RowSet
        /\ \A n \in 0..MaxChunks : [row[d] EXCEPT !.status = "ready", !.count = n] \in RowSet
        /\ [row[d] EXCEPT !.deleted = TRUE] \in RowSet
    BY <2>1, RowFacts
  <2>3. ASSUME NEW s \in {"absent", "processing", "ready", "failed"},
               row' = [row EXCEPT ![d].status = s]
        PROVE  \E r \in RowSet : row' = [row EXCEPT ![d] = r]
    <3> DEFINE q == [row[d] EXCEPT !.status = s]
    <3>1. q \in RowSet /\ row' = [row EXCEPT ![d] = q]
      BY <2>2, <2>3
    <3> HIDE DEF q
    <3> QED
      BY <3>1
  <2>4. ASSUME NEW n \in 0..MaxChunks, row' = [row EXCEPT ![d].status = "ready", ![d].count = n]
        PROVE  \E r \in RowSet : row' = [row EXCEPT ![d] = r]
    <3> DEFINE q == [row[d] EXCEPT !.status = "ready", !.count = n]
    <3>1. q \in RowSet /\ row' = [row EXCEPT ![d] = q]
      BY <2>2, <2>4 DEF Typed
    <3> HIDE DEF q
    <3> QED
      BY <3>1
  <2>5. ASSUME row' = [row EXCEPT ![d].deleted = TRUE]
        PROVE  \E r \in RowSet : row' = [row EXCEPT ![d] = r]
    <3> DEFINE q == [row[d] EXCEPT !.deleted = TRUE]
    <3>1. q \in RowSet /\ row' = [row EXCEPT ![d] = q]
      BY <2>2, <2>5
    <3> HIDE DEF q
    <3> QED
      BY <3>1
  <2> QED
    BY <2>3, <2>4, <2>5
<1> QED
  BY <1>1, <1>2

LEMMA UploadReadyProper == ASSUME Typed, NEW j \in Jobs, UploadReady(j) PROVE Proper(j)
<1>1. Moved(j, job'[j])
  BY GotoFacts, FinishFacts DEF UploadReady, Labels, Calls
<1>2. job[j].size \in 0..MaxChunks
  BY JobFacts DEF Typed
<1>3. row' = row \/ row' = [row EXCEPT ![job[j].doc].status = "ready", ![job[j].doc].count = job[j].size]
  BY DEF UploadReady
<1>4. row' = row \/ \E r \in RowSet : row' = [row EXCEPT ![job[j].doc] = r]
  BY <1>2, <1>3, RowWrites
<1> QED
  BY <1>1, <1>4, RowStep DEF UploadReady, At

LEMMA UploadFailProper == ASSUME Typed, NEW j \in Jobs, UploadFail(j) PROVE Proper(j)
<1>1. Moved(j, job'[j])
  BY FinishFacts DEF UploadFail
<1>3. row' = row \/ row' = [row EXCEPT ![job[j].doc].status = "failed"]
  BY DEF UploadFail
<1>4. row' = row \/ \E r \in RowSet : row' = [row EXCEPT ![job[j].doc] = r]
  BY <1>3, RowWrites
<1> QED
  BY <1>1, <1>4, RowStep DEF UploadFail, At

LEMMA ReseedCollectionProper ==
  ASSUME Typed, PlacesOK, NEW j \in Jobs, ReseedCollection(j) PROVE Proper(j)
<1>1. Moved(j, job'[j])
  BY GotoFacts DEF ReseedCollection, Labels, Calls
<1>2. \A d \in Docs : Held(j, d)
  BY HeldByReseed DEF ReseedCollection, At, PlacesOK, InPlace
<1> QED
  BY <1>1, <1>2, NothingFacts DEF ReseedCollection, Proper, StoreTyped, Typed

LEMMA ReseedRowsProper ==
  ASSUME Typed, PlacesOK, NEW j \in Jobs, ReseedRows(j) PROVE Proper(j)
<1>1. Moved(j, job'[j])
  BY GotoFacts DEF ReseedRows, Labels, Calls
<1>2. \A d \in Docs : Held(j, d)
  BY HeldByReseed DEF ReseedRows, At, PlacesOK, InPlace
<1> QED
  BY <1>1, <1>2, NothingFacts DEF ReseedRows, Proper, StoreTyped, Typed

LEMMA LookupProper == ASSUME Typed, NEW j \in Jobs, Lookup(j) PROVE Proper(j)
<1> DEFINE l == CASE job[j].kind = "edit"   -> "edit"
                  [] job[j].kind = "delete" -> "delVectors"
                  [] OTHER                  -> "list"
<1>1. l \in Labels
  BY DEF Labels, Calls
<1>2. Goto(j, l) \/ Finish(j)
  BY DEF Lookup
<1> HIDE DEF l
<1>3. Moved(j, job'[j])
  BY <1>1, <1>2, GotoFacts, FinishFacts
<1> QED
  BY <1>3, QuietStep DEF Lookup, Typed

LEMMA PageFacts ==
  ASSUME Typed, NEW d
  PROVE  d \in Docs => Page(d) \in Written
BY ChunkFacts DEF Typed, Page, Written

(* What a request reads: a page of its document, or nothing.               *)
LEMMA ReadStep ==
  ASSUME Typed, NEW j \in Jobs, NEW f \in Written, AfterList(j, f),
         UNCHANGED <<store, edited>>, degraded \subseteq degraded', degraded' \subseteq Docs
  PROVE  Proper(j)
<1>1. Moved(j, job'[j])
  BY AfterListFacts
<1> QED
  BY <1>1, QuietStep

LEMMA ListChunksProper == ASSUME Typed, PlacesOK, NEW j \in Jobs, ListChunks(j) PROVE Proper(j)
<1>1. job[j].doc \in Docs
  BY DEF ListChunks, At, PlacesOK, InPlace, Aimed
<1>2. Page(job[j].doc) \in Written
  BY <1>1, PageFacts
<1>3. "backfill" \in Labels
  BY DEF Labels, Calls
<1>4. UNCHANGED <<store, edited>> /\ degraded \subseteq degraded' /\ degraded' \subseteq Docs
  BY <1>1 DEF ListChunks, Typed
<1>5. CASE Goto(j, "backfill")
  BY <1>3, <1>4, <1>5, GotoFacts, QuietStep
<1>6. CASE AfterList(j, Page(job[j].doc))
  BY <1>2, <1>4, <1>6, ReadStep
<1> QED
  BY <1>5, <1>6 DEF ListChunks

(* Rows made from the vectors.                                             *)
Backfilled(d, f) ==
  /\ d \notin strayed' => f = vec[d]
  /\ row[d].status = "absent" => \A i \in Indices : f[i] = NoText
  /\ \A e \in Docs : e # d => chunk'[e] = chunk[e]
  /\ \A i \in Indices : /\ f[i] # NoText => chunk'[d][i] = [text |-> f[i], status |-> "ready"]
                        /\ f[i] = NoText => chunk'[d][i] = chunk[d][i]

LEMMA BackfillFacts ==
  ASSUME Typed, PlacesOK, NEW j \in Jobs, Backfill(j)
  PROVE  /\ UNCHANGED <<row, vec, local, cache, edited, degraded>> /\ At(j, "backfill")
         /\ job[j].doc \in Docs /\ strayed \subseteq strayed' /\ strayed' \subseteq Docs
         /\ chunk' \in [Docs -> [Indices -> ChunkSet]]
         /\ \/ Finish(j) /\ chunk' = chunk
            \/ Goto(j, "relist") /\ \E f \in Written : Backfilled(job[j].doc, f)
<1> DEFINE d == job[j].doc
<1>1. /\ UNCHANGED <<row, vec, local, cache, edited, degraded>> /\ At(j, "backfill") /\ d \in Docs
  BY DEF Backfill, At, PlacesOK, InPlace, Aimed
<1>2. PICK c \in Clients :
        /\ IF Vectors(c)[d] # NoText_ /\ row[d].status = "absent"
             THEN Finish(j) /\ UNCHANGED chunk
             ELSE chunk' = ChunkRows(d, Vectors(c)[d], MaxChunks) /\ Goto(j, "relist")
        /\ Stray(c, d)
  BY DEF Backfill
<1> DEFINE f == Vectors(c)[d]
<1>3. f \in Written /\ MaxChunks \in 0..MaxChunks /\ \A i \in Indices : i <= MaxChunks
  BY <1>1, VectorsFacts, IndicesFacts
<1>4. strayed \subseteq strayed' /\ strayed' \subseteq Docs /\ (d \notin strayed' => f = vec[d])
  BY <1>1, <1>2, StrayFacts
<1>5. CASE Finish(j) /\ chunk' = chunk
  BY <1>1, <1>4, <1>5 DEF Typed
<1>6. CASE /\ Goto(j, "relist") /\ chunk' = ChunkRows(d, f, MaxChunks)
           /\ row[d].status = "absent" => f = NoText_
  <2>1. row[d].status = "absent" => \A i \in Indices : f[i] = NoText
    BY <1>6, NothingFacts
  <2> HIDE DEF d, f
  <2>2. /\ chunk' \in [Docs -> [Indices -> ChunkSet]]
        /\ \A e \in Docs : e # d => chunk'[e] = chunk[e]
        /\ \A i \in Indices : /\ f[i] # NoText => chunk'[d][i] = [text |-> f[i], status |-> "ready"]
                              /\ f[i] = NoText => chunk'[d][i] = chunk[d][i]
    <3> DEFINE g == ChunkRows(d, f, MaxChunks)
    <3>1. d \in Docs
      BY <1>1 DEF d
    <3>2. /\ g \in [Docs -> [Indices -> ChunkSet]]
          /\ \A e \in Docs : e # d => g[e] = chunk[e]
          /\ \A i \in Indices :
               /\ i <= MaxChunks /\ f[i] # NoText => g[d][i] = [text |-> f[i], status |-> "ready"]
               /\ ~(i <= MaxChunks /\ f[i] # NoText) => g[d][i] = chunk[d][i]
      BY <1>3, <3>1, ChunkRowsFacts
    <3> HIDE DEF g
    <3>3. chunk' = g
      BY <1>6 DEF g
    <3> QED
      BY <1>3, <3>2, <3>3
  <2>3. Backfilled(d, f)
    BY <1>4, <2>1, <2>2 DEF Backfilled
  <2> QED
    BY <1>1, <1>3, <1>4, <1>6, <2>2, <2>3 DEF d
<1> QED
  BY <1>2, <1>5, <1>6

LEMMA BackfillProper == ASSUME Typed, PlacesOK, NEW j \in Jobs, Backfill(j) PROVE Proper(j)
<1>1. /\ UNCHANGED <<row, vec, local, cache, edited, degraded>> /\ job[j].doc \in Docs
      /\ strayed \subseteq strayed' /\ strayed' \subseteq Docs
      /\ chunk' \in [Docs -> [Indices -> ChunkSet]]
      /\ Finish(j) \/ Goto(j, "relist")
  BY BackfillFacts
<1>2. Held(j, job[j].doc)
  BY <1>1, HeldWhileBusy, BackfillFacts DEF At
<1>3. Moved(j, job'[j])
  BY <1>1, GotoFacts, FinishFacts DEF Labels, Calls
<1>4. \A e \in Docs : e # job[j].doc => chunk'[e] = chunk[e]
  BY BackfillFacts DEF Backfilled
<1> QED
  BY <1>1, <1>2, <1>3, <1>4 DEF Proper, StoreTyped, Typed, Same

LEMMA RelistProper == ASSUME Typed, PlacesOK, NEW j \in Jobs, Relist(j) PROVE Proper(j)
<1>1. job[j].doc \in Docs
  BY DEF Relist, At, PlacesOK, InPlace, Aimed
<1>2. Page(job[j].doc) \in Written /\ NoText_ \in Written
  BY <1>1, PageFacts, NothingFacts
<1>3. UNCHANGED <<store, edited>> /\ degraded \subseteq degraded' /\ degraded' \subseteq Docs
  BY <1>1 DEF Relist, Typed
<1>4. AfterList(j, NoText_) \/ AfterList(j, Page(job[j].doc))
  BY DEF Relist
<1> QED
  BY <1>2, <1>3, <1>4, ReadStep

LEMMA ReindexMarkFacts ==
  ASSUME Typed, NEW j \in Jobs, ReindexMark(j)
  PROVE  \E n \in 0..MaxChunks :
           /\ n = Cardinality({i \in Indices : job[j].read[i] # NoText})
           /\ Moved(j, job'[j]) /\ job'[j].pc = "upsert" /\ job'[j].kind = job[j].kind
           /\ job'[j].doc = job[j].doc /\ job'[j].old = job[j].old
           /\ job'[j].size = n /\ job'[j].pos = 1 /\ job'[j].read = job[j].read
<1> DEFINE n == Cardinality({i \in Indices : job[j].read[i] # NoText})
<1>1. n \in 0..MaxChunks /\ "upsert" \in Labels
  BY IndicesFacts DEF Labels, Calls
<1>2. PICK c \in {"server", "local"} :
        Marks(j, "upsert", c, n)
  BY DocumentsAssumption DEF ReindexMark, Marks
<1> HIDE DEF n
<1>3. /\ Moved(j, job'[j]) /\ job'[j].pc = "upsert" /\ job'[j].kind = job[j].kind
      /\ job'[j].doc = job[j].doc /\ job'[j].old = job[j].old
      /\ job'[j].size = n /\ job'[j].pos = 1 /\ job'[j].read = job[j].read
  <2>1. n \in 0..MaxChunks /\ "upsert" \in Labels /\ c \in {"server", "local"}
    BY <1>1, <1>2
  <2> QED
    BY <1>2, <2>1, MarkFacts
<1> QED
  BY <1>1, <1>3 DEF n

LEMMA ReindexMarkProper == ASSUME Typed, NEW j \in Jobs, ReindexMark(j) PROVE Proper(j)
<1>1. Moved(j, job'[j])
  BY ReindexMarkFacts
<1>3. row' = row \/ row' = [row EXCEPT ![job[j].doc].status = "processing"]
  BY DEF ReindexMark
<1>4. row' = row \/ \E r \in RowSet : row' = [row EXCEPT ![job[j].doc] = r]
  BY <1>3, RowWrites
<1> QED
  BY <1>1, <1>4, RowStep DEF ReindexMark, At

LEMMA ReindexVectorProper == ASSUME Typed, PlacesOK, NEW j \in Jobs, ReindexVector(j) PROVE Proper(j)
<1>1. job[j].pc \in Aimed /\ "clear" \in Labels /\ "refail" \in Labels
  BY DEF ReindexVector, At, Aimed, Labels, Calls
<1>2. CASE WriteVector(j, "clear")
  BY <1>1, <1>2, WriteVectorProper DEF ReindexVector
<1>3. CASE Goto(j, "refail") /\ UNCHANGED chroma
  BY <1>1, <1>3, GotoFacts, QuietStep DEF ReindexVector, Typed, store
<1> QED
  BY <1>2, <1>3 DEF ReindexVector

LEMMA ReindexClearProper == ASSUME Typed, NEW j \in Jobs, ReindexClear(j) PROVE Proper(j)
<1>1. Moved(j, job'[j])
  BY GotoFacts DEF ReindexClear, Labels, Calls
<1> QED
  BY <1>1 DEF ReindexClear, Proper, StoreTyped, Typed, Same

(* What a reindex that succeeded leaves: the same texts, all ready.        *)
Readied(d) ==
  [i \in Indices |-> IF chunk[d][i] = NoChunk THEN NoChunk ELSE [chunk[d][i] EXCEPT !.status = "ready"]]

LEMMA ReadiedFacts ==
  ASSUME Typed, NEW d \in Docs
  PROVE  /\ Readied(d) \in [Indices -> ChunkSet]
         /\ \A i \in Indices : /\ Readied(d)[i].text = chunk[d][i].text
                               /\ chunk[d][i] = NoChunk => Readied(d)[i] = NoChunk
                               /\ chunk[d][i] # NoChunk => Readied(d)[i].status = "ready"
<1>1. ASSUME NEW i \in Indices
      PROVE  /\ Readied(d)[i] \in ChunkSet
             /\ Readied(d)[i].text = chunk[d][i].text
             /\ chunk[d][i] = NoChunk => Readied(d)[i] = NoChunk
             /\ chunk[d][i] # NoChunk => Readied(d)[i].status = "ready"
  <2>1. chunk[d][i] \in ChunkSet
    BY DEF Typed
  <2>2. Readied(d)[i] = IF chunk[d][i] = NoChunk THEN NoChunk ELSE [chunk[d][i] EXCEPT !.status = "ready"]
    BY DEF Readied
  <2> QED
    BY <2>1, <2>2, ChunkFacts, NothingFacts
<1>2. Readied(d) = [i \in Indices |-> Readied(d)[i]]
  BY DEF Readied
<1> QED
  BY <1>1, <1>2

LEMMA ReindexSucceedFacts ==
  ASSUME NEW j \in Jobs, ReindexSucceed(j)
  PROVE  /\ Finish(j) /\ At(j, "succeed") /\ UNCHANGED <<chroma, cache, edited, degraded>>
         /\ \/ UNCHANGED <<row, chunk>>
            \/ /\ chunk' = [chunk EXCEPT ![job[j].doc] = Readied(job[j].doc)]
               /\ \/ row' = row
                  \/ /\ Alive(job[j].doc)
                     /\ row' = [row EXCEPT ![job[j].doc].status = "ready",
                                           ![job[j].doc].count = Cardinality(Stored(job[j].doc))]
BY DEF ReindexSucceed, Readied

LEMMA ReindexSucceedProper == ASSUME Typed, PlacesOK, NEW j \in Jobs, ReindexSucceed(j) PROVE Proper(j)
<1> DEFINE d == job[j].doc
<1>1. d \in Docs /\ job[j].pc \notin {"idle", "done"}
  BY ReindexSucceedFacts DEF At, PlacesOK, InPlace, Aimed
<1>2. Held(j, d)
  BY <1>1, HeldWhileBusy
<1>3. Moved(j, job'[j]) /\ UNCHANGED <<chroma, cache, edited, degraded>>
  BY ReindexSucceedFacts, FinishFacts
<1>4. CASE UNCHANGED <<row, chunk>>
  BY <1>3, <1>4, QuietStep DEF store, Typed
<1>5. CASE /\ chunk' = [chunk EXCEPT ![d] = Readied(d)]
           /\ \/ row' = row
              \/ row' = [row EXCEPT ![d].status = "ready", ![d].count = Cardinality(Stored(d))]
  <2>1. Cardinality(Stored(d)) \in 0..MaxChunks
    BY IndicesFacts DEF Stored
  <2>2. row' = row \/ \E r \in RowSet : row' = [row EXCEPT ![d] = r]
    <3> DEFINE n == Cardinality(Stored(d))
    <3>1. n \in 0..MaxChunks /\ (row' = row \/ row' = [row EXCEPT ![d].status = "ready", ![d].count = n])
      BY <1>5, <2>1
    <3> HIDE DEF n, d
    <3> QED
      BY <3>1, RowWrites
  <2>3. Readied(d) \in [Indices -> ChunkSet]
    BY <1>1, ReadiedFacts
  <2> HIDE DEF d
  <2>4. row' \in [Docs -> RowSet] /\ \A e \in Docs : e # d => row'[e] = row[e]
    BY <2>2 DEF Typed
  <2>5. chunk' \in [Docs -> [Indices -> ChunkSet]] /\ \A e \in Docs : e # d => chunk'[e] = chunk[e]
    BY <1>5, <2>3 DEF Typed
  <2> QED
    BY <1>2, <1>3, <2>4, <2>5 DEF Proper, StoreTyped, Typed, Same
<1> QED
  BY <1>4, <1>5, ReindexSucceedFacts

LEMMA ReindexFailProper == ASSUME Typed, NEW j \in Jobs, ReindexFail(j) PROVE Proper(j)
<1>1. Moved(j, job'[j])
  BY FinishFacts DEF ReindexFail
<1>3. row' = row \/ row' = [row EXCEPT ![job[j].doc].status = "failed"]
  BY DEF ReindexFail
<1>4. row' = row \/ \E r \in RowSet : row' = [row EXCEPT ![job[j].doc] = r]
  BY <1>3, RowWrites
<1> QED
  BY <1>1, <1>4, RowStep DEF ReindexFail, At
(* An edit saves one text, or nothing.                                     *)
Saved(d, i, t) ==
  /\ Alive(d) /\ i \in Stored(d)
  /\ chunk' = [chunk EXCEPT ![d][i] = [text |-> t, status |-> "processing"]]
  /\ edited' = [edited EXCEPT ![d][i] = t]
  /\ row' = row \/ row' = [row EXCEPT ![d].status = "processing"]

LEMMA EditFacts ==
  ASSUME NEW j \in Jobs, Edit(j)
  PROVE  /\ Finish(j) /\ At(j, "edit") /\ UNCHANGED <<chroma, cache, degraded>>
         /\ \/ UNCHANGED <<chunk, edited, row>>
            \/ \E i \in Indices, t \in Texts : Saved(job[j].doc, i, t)
<1>1. Finish(j) /\ At(j, "edit") /\ UNCHANGED <<chroma, cache, degraded>>
  BY DEF Edit
<1> DEFINE d == job[j].doc
<1>2. CASE UNCHANGED <<chunk, edited, row>>
  BY <1>1, <1>2
<1>3. CASE \E i \in Indices, t \in Texts, ok \in BOOLEAN :
          /\ Alive(d) /\ i \in Stored(d)
          /\ chunk' = [chunk EXCEPT ![d][i] = [text |-> t, status |-> "processing"]]
          /\ edited' = [edited EXCEPT ![d][i] = t]
          /\ row' = IF ok THEN [row EXCEPT ![d].status = "processing"] ELSE row
  <2>1. PICK i \in Indices, t \in Texts, ok \in BOOLEAN :
          /\ Alive(d) /\ i \in Stored(d)
          /\ chunk' = [chunk EXCEPT ![d][i] = [text |-> t, status |-> "processing"]]
          /\ edited' = [edited EXCEPT ![d][i] = t]
          /\ row' = IF ok THEN [row EXCEPT ![d].status = "processing"] ELSE row
    BY <1>3
  <2>2. row' = row \/ row' = [row EXCEPT ![d].status = "processing"]
    BY <2>1
  <2>3. Saved(d, i, t)
    BY <2>1, <2>2 DEF Saved
  <2> HIDE DEF d
  <2>4. \E a \in Indices, b \in Texts : Saved(d, a, b)
    BY <2>3
  <2> QED
    BY <1>1, <2>4 DEF d
<1> QED
  BY <1>2, <1>3 DEF Edit

LEMMA SavedFacts ==
  ASSUME Typed, NEW d \in Docs, NEW i \in Indices, NEW t \in Texts, Saved(d, i, t)
  PROVE  /\ chunk' \in [Docs -> [Indices -> ChunkSet]] /\ edited' \in [Docs -> Written]
         /\ row' \in [Docs -> RowSet] /\ row'[d].deleted = row[d].deleted
         /\ row'[d].status \in {row[d].status, "processing"}
         /\ chunk'[d][i].text = t /\ chunk'[d][i].status = "processing" /\ edited'[d][i] = t
         /\ \A k \in Indices : k # i => chunk'[d][k] = chunk[d][k] /\ edited'[d][k] = edited[d][k]
         /\ \A e \in Docs : e # d => /\ row'[e] = row[e] /\ chunk'[e] = chunk[e]
                                     /\ edited'[e] = edited[e]
<1>1. [text |-> t, status |-> "processing"] \in ChunkSet
      /\ [text |-> t, status |-> "processing"].text = t
      /\ [text |-> t, status |-> "processing"].status = "processing"
  BY DEF ChunkSet
<1> DEFINE q == [text |-> t, status |-> "processing"]
<1>2. q \in ChunkSet /\ q.text = t /\ q.status = "processing"
  BY <1>1
<1>3. chunk' = [chunk EXCEPT ![d][i] = q] /\ edited' = [edited EXCEPT ![d][i] = t]
  BY DEF Saved
<1> HIDE DEF q
<1>4. /\ chunk' \in [Docs -> [Indices -> ChunkSet]] /\ edited' \in [Docs -> Written]
      /\ chunk'[d][i] = q /\ edited'[d][i] = t
      /\ \A k \in Indices : k # i => chunk'[d][k] = chunk[d][k] /\ edited'[d][k] = edited[d][k]
      /\ \A e \in Docs : e # d => chunk'[e] = chunk[e] /\ edited'[e] = edited[e]
  BY <1>2, <1>3 DEF Typed, Written
<1>5. row[d] \in RowSet
  BY DEF Typed
<1> DEFINE r == [row[d] EXCEPT !.status = "processing"]
<1>6. r \in RowSet /\ r.deleted = row[d].deleted /\ r.status = "processing"
  BY <1>5, RowFacts
<1>7. row' = row \/ row' = [row EXCEPT ![d] = r]
  BY DEF Saved
<1> HIDE DEF r
<1>8. /\ row' \in [Docs -> RowSet] /\ row'[d].deleted = row[d].deleted
      /\ row'[d].status \in {row[d].status, "processing"}
      /\ \A e \in Docs : e # d => row'[e] = row[e]
  BY <1>6, <1>7 DEF Typed
<1> QED
  BY <1>2, <1>4, <1>8

LEMMA EditProper == ASSUME Typed, PlacesOK, NEW j \in Jobs, Edit(j) PROVE Proper(j)
<1>1. job[j].doc \in Docs /\ job[j].pc \notin {"idle", "done"}
  BY EditFacts DEF At, PlacesOK, InPlace, Aimed
<1>2. Held(j, job[j].doc)
  BY <1>1, HeldWhileBusy
<1>3. Moved(j, job'[j]) /\ UNCHANGED <<chroma, cache, degraded>>
  BY EditFacts, FinishFacts
<1>4. CASE UNCHANGED <<chunk, edited, row>>
  BY <1>3, <1>4, QuietStep DEF store, Typed
<1>5. ASSUME NEW i \in Indices, NEW t \in Texts, Saved(job[j].doc, i, t) PROVE Proper(j)
  BY <1>1, <1>2, <1>3, <1>5, SavedFacts DEF Proper, StoreTyped, Typed, Same
<1> QED
  BY <1>4, <1>5, EditFacts

LEMMA DeleteVectorsProper == ASSUME Typed, PlacesOK, NEW j \in Jobs, DeleteVectors(j) PROVE Proper(j)
<1>1. Moved(j, job'[j])
  BY GotoFacts DEF DeleteVectors, Labels, Calls
<1>2. job[j].doc \in Docs /\ Held(j, job[j].doc)
  BY HeldWhileBusy DEF DeleteVectors, At, PlacesOK, InPlace, Aimed
<1>3. UNCHANGED <<row, chunk, cache, edited, degraded>>
  BY DEF DeleteVectors
<1>4. /\ vec' \in [Docs -> Written] /\ local' \in [Docs -> Written]
      /\ strayed \subseteq strayed' /\ strayed' \subseteq Docs
      /\ \A e \in Docs : e # job[j].doc => vec'[e] = vec[e]
  <2>1. PICK c \in {"server", "local"} : WriteVectors(c, job[j].doc, NoText_)
    BY DocumentsAssumption DEF DeleteVectors
  <2> QED
    BY <1>2, <2>1, WriteFacts, NothingFacts
<1> QED
  BY <1>1, <1>2, <1>3, <1>4 DEF Proper, StoreTyped, Typed, Same

LEMMA SoftDeleteProper == ASSUME Typed, NEW j \in Jobs, SoftDelete(j) PROVE Proper(j)
<1>1. Moved(j, job'[j])
  BY FinishFacts DEF SoftDelete
<1>3. row' = row \/ row' = [row EXCEPT ![job[j].doc].deleted = TRUE]
  BY DEF SoftDelete
<1>4. row' = row \/ \E r \in RowSet : row' = [row EXCEPT ![job[j].doc] = r]
  BY <1>3, RowWrites
<1> QED
  BY <1>1, <1>4, RowStep DEF SoftDelete, At

(* A search finds the text of one vector.                                  *)
Searched(j, d, i) ==
  /\ Moved(j, job'[j]) /\ job'[j].pc = "keep" /\ job'[j].doc = d
  /\ job'[j].kind = job[j].kind /\ job'[j].old = job[j].old
  /\ job'[j].pos = i /\ job'[j].read[i] \in Texts
  /\ d \notin strayed' => job'[j].read[i] = vec[d][i]

LEMMA AskSearchFacts ==
  ASSUME Typed, NEW j \in Jobs, AskSearch(j)
  PROVE  /\ UNCHANGED <<row, chunk, vec, local, cache, edited, degraded>> /\ At(j, "ask")
         /\ strayed \subseteq strayed' /\ strayed' \subseteq Docs
         /\ Finish(j) \/ \E d \in Docs, i \in Indices : Searched(j, d, i)
<1>1. UNCHANGED <<row, chunk, vec, local, cache, edited, degraded>> /\ At(j, "ask")
  BY DEF AskSearch
<1>2. CASE Finish(j) /\ UNCHANGED strayed
  BY <1>1, <1>2 DEF Typed
<1>3. CASE \E c \in Clients, d \in Docs, i \in Indices :
          /\ Vectors(c)[d][i] # NoText
          /\ job' = [job EXCEPT ![j].doc = d, ![j].pos = i, ![j].pc = "keep",
                                ![j].read = [NoText_ EXCEPT ![i] = Vectors(c)[d][i]]]
          /\ Stray(c, d)
  <2>1. PICK c \in Clients, d \in Docs, i \in Indices :
          /\ Vectors(c)[d][i] # NoText
          /\ job' = [job EXCEPT ![j].doc = d, ![j].pos = i, ![j].pc = "keep",
                                ![j].read = [NoText_ EXCEPT ![i] = Vectors(c)[d][i]]]
          /\ Stray(c, d)
    BY Zenon, <1>3
  <2> DEFINE t == Vectors(c)[d][i]  f == [NoText_ EXCEPT ![i] = t]
  <2>2. t \in Texts
    BY <2>1, VectorsFacts DEF Written
  <2>3. /\ strayed \subseteq strayed' /\ strayed' \subseteq Docs
        /\ d \notin strayed' => t = vec[d][i]
    BY <2>1, StrayFacts
  <2>4. f \in Written /\ f[i] = t
    <3> HIDE DEF t
    <3> QED
      BY <2>2, NothingFacts DEF Written
  <2>5. Finds(j, "keep", d, i, f) /\ "keep" \in Labels
    BY <2>1 DEF Finds, Labels, Calls
  <2> HIDE DEF f, t
  <2>6. Searched(j, d, i)
    BY <2>2, <2>3, <2>4, <2>5, SearchFacts DEF Searched
  <2> QED
    BY <1>1, <2>3, <2>6
<1> QED
  BY <1>2, <1>3 DEF AskSearch

LEMMA AskSearchProper == ASSUME Typed, NEW j \in Jobs, AskSearch(j) PROVE Proper(j)
<1>1. Moved(j, job'[j])
  BY AskSearchFacts, FinishFacts DEF Searched
<1>2. /\ UNCHANGED <<row, chunk, vec, local, cache, edited, degraded>>
      /\ strayed \subseteq strayed' /\ strayed' \subseteq Docs
  BY AskSearchFacts
<1> QED
  BY <1>1, <1>2 DEF Proper, StoreTyped, Typed, Same

LEMMA AskKeepProper == ASSUME Typed, PlacesOK, NEW j \in Jobs, AskKeep(j) PROVE Proper(j)
<1> DEFINE a == <<job[j].doc, job[j].pos, job[j].read[job[j].pos]>>
<1>1. /\ job[j].doc \in Docs /\ job[j].pc \notin {"idle", "done"}
      /\ job[j].pos \in Indices /\ job[j].read[job[j].pos] \in Texts
  BY DEF AskKeep, At, PlacesOK, InPlace, Aimed
<1>2. Held(j, job[j].doc)
  BY <1>1, HeldWhileBusy
<1>3. Moved(j, job'[j]) /\ UNCHANGED <<row, chunk, chroma, edited, degraded>>
  BY FinishFacts DEF AskKeep
<1>4. cache' \subseteq cache \cup {a}
  BY DEF AskKeep
<1>5. a \in Docs \X Indices \X Texts /\ a[1] = job[j].doc
  BY <1>1
<1> HIDE DEF a
<1> QED
  BY <1>2, <1>3, <1>4, <1>5 DEF Proper, StoreTyped, Typed, Same

(* What a request starts with.                                             *)
LEMMA StartFacts ==
  ASSUME Typed, NEW j \in Jobs, Start(j)
  PROVE  /\ UNCHANGED <<store, edited, degraded>> /\ At(j, "idle")
         /\ Moved(j, job'[j]) /\ job'[j].pos = job[j].pos
         /\ \/ job'[j].pc \in {"find", "ask"}
            \/ job'[j].pc = "dropCollection" /\ job'[j].kind = "reseed"
            \/ job'[j].pc = "lookup" /\ job'[j].doc \in Docs
<1>1. UNCHANGED <<store, edited, degraded>> /\ At(j, "idle")
  BY DEF Start
<1>2. ASSUME NEW kind \in {"upload", "reseed"}, NEW name \in Names,
             job' = [job EXCEPT ![j].kind = kind, ![j].name = name,
                       ![j].pc = IF kind = "upload" THEN "find" ELSE "dropCollection"]
      PROVE  /\ Moved(j, job'[j]) /\ job'[j].pos = job[j].pos
             /\ \/ job'[j].pc \in {"find", "ask"}
                \/ job'[j].pc = "dropCollection" /\ job'[j].kind = "reseed"
                \/ job'[j].pc = "lookup" /\ job'[j].doc \in Docs
  <2> DEFINE l == IF kind = "upload" THEN "find" ELSE "dropCollection"
  <2>1. l \in Labels /\ kind \in Kinds /\ (l = "find" \/ (l = "dropCollection" /\ kind = "reseed"))
    BY DEF Labels, Calls, Kinds
  <2>2. job' = [job EXCEPT ![j].kind = kind, ![j].name = name, ![j].pc = l]
    BY <1>2
  <2> HIDE DEF l
  <2>3. Moved(j, job'[j]) /\ job'[j].pos = job[j].pos /\ job'[j].pc = l /\ job'[j].kind = kind
    BY ZenonT(30), <2>1, <2>2, NamedFacts
  <2> QED
    BY <2>1, <2>3
<1>3. ASSUME NEW kind \in {"reindex", "view", "edit", "delete"}, NEW d \in Docs,
             job' = [job EXCEPT ![j].kind = kind, ![j].doc = d, ![j].pc = "lookup"]
      PROVE  /\ Moved(j, job'[j]) /\ job'[j].pos = job[j].pos
             /\ job'[j].pc = "lookup" /\ job'[j].doc \in Docs
  <2>1. "lookup" \in Labels /\ kind \in Kinds
    BY DEF Labels, Calls, Kinds
  <2> QED
    BY <1>3, <2>1, TargetFacts
<1>4. ASSUME job' = [job EXCEPT ![j].kind = "ask", ![j].pc = "ask"]
      PROVE  Moved(j, job'[j]) /\ job'[j].pos = job[j].pos /\ job'[j].pc = "ask"
  <2>1. "ask" \in Labels /\ "ask" \in Kinds
    BY DEF Labels, Calls, Kinds
  <2> QED
    BY <1>4, <2>1, KindFacts
<1> QED
  BY <1>1, <1>2, <1>3, <1>4 DEF Start

LEMMA StartProper == ASSUME Typed, NEW j \in Jobs, Start(j) PROVE Proper(j)
BY StartFacts, QuietStep DEF Typed

LEMMA CrashProper == ASSUME Typed, NEW j \in Jobs, Crash(j) PROVE Proper(j)
<1>1. Moved(j, job'[j])
  BY FinishFacts DEF Crash
<1> QED
  BY <1>1, QuietStep DEF Crash, Typed

Step(j) ==
  \/ Start(j) \/ Crash(j) \/ Lookup(j) \/ Upload(j) \/ ReseedCollection(j) \/ ReseedRows(j)
  \/ Reindex(j) \/ Edit(j) \/ DeleteVectors(j) \/ SoftDelete(j) \/ AskSearch(j) \/ AskKeep(j)

LEMMA StepProper == ASSUME Typed, PlacesOK, NEW j \in Jobs, Step(j) PROVE Proper(j)
<1>1. CASE Upload(j)
  BY <1>1, UploadFindProper, UploadDropVectorsProper, UploadDropRowProper, UploadInsertProper,
     UploadPrepareProper, UploadVectorProper, UploadRowsProper, UploadReadyProper, UploadFailProper
     DEF Upload
<1>2. CASE Reindex(j)
  BY <1>2, ListChunksProper, BackfillProper, RelistProper, ReindexMarkProper, ReindexVectorProper,
     ReindexClearProper, ReindexSucceedProper, ReindexFailProper DEF Reindex
<1> QED
  BY <1>1, <1>2, StartProper, CrashProper, LookupProper, ReseedCollectionProper, ReseedRowsProper,
     EditProper, DeleteVectorsProper, SoftDeleteProper, AskSearchProper, AskKeepProper DEF Step
-----------------------------------------------------------------------------
(* Where a step leaves its request                                         *)

LEMMA FinishPlace == ASSUME Typed, NEW j \in Jobs, Finish(j) PROVE InPlace(job'[j])
BY FinishFacts DEF InPlace, Aimed, Early

(* A request that only goes on, to a call that needs no more than the last *)
LEMMA GotoPlace ==
  ASSUME Typed, PlacesOK, NEW j \in Jobs, NEW l \in Labels, Goto(j, l),
         l \in {"dropCollection", "dropRows"} => job[j].pc \in {"dropCollection", "dropRows"},
         l \in Aimed => job[j].pc \in Aimed,
         l = "dropRow" => job[j].pc = "dropVectors",
         l \in Early => job[j].pc \in Early,
         l = "vectors" => job[j].pc = "prepare",
         l = "rows" => job[j].pc = "vectors",
         l \notin {"keep", "upsert", "prepare", "dropVectors"}
  PROVE  InPlace(job'[j])
<1>1. /\ job'[j].pc = l /\ job'[j].kind = job[j].kind /\ job'[j].doc = job[j].doc
      /\ job'[j].old = job[j].old /\ job'[j].size = job[j].size /\ job'[j].pos = job[j].pos
      /\ job'[j].read = job[j].read
  BY GotoFacts
<1>2. InPlace(job[j])
  BY DEF PlacesOK
<1> QED
  BY <1>1, <1>2 DEF InPlace

LEMMA UploadPlaces == ASSUME Typed, PlacesOK, NEW j \in Jobs, Upload(j) PROVE InPlace(job'[j])
<1>0. InPlace(job[j]) /\ job[j].pos \in Nat /\ job[j].size \in Nat
  BY JobFacts, IndicesFacts DEF PlacesOK, Typed
<1>1. CASE UploadFind(j)
  BY <1>0, <1>1, UploadFindFacts DEF At, InPlace, Aimed, Early
<1>2. CASE UploadDropVectors(j)
  BY <1>2, GotoPlace DEF UploadDropVectors, At, Labels, Calls, Aimed, Early
<1>3. CASE UploadDropRow(j)
  BY <1>3, GotoPlace, FinishPlace DEF UploadDropRow, At, Labels, Calls, Aimed, Early
<1>4. CASE UploadInsert(j)
  <2>1. PICK d \in Docs, n \in 0..MaxChunks, f \in Written : Inserted(j, d, n, f)
    BY <1>4, UploadInsertFacts
  <2>2. job'[j].pc = "prepare" /\ job'[j].doc = d /\ job'[j].pos = job[j].pos /\ job'[j].size = n
    BY <2>1, InsertedFacts
  <2>3. job[j].pc = "insert" /\ n \in Nat
    BY <1>4, IndicesFacts, UploadInsertFacts DEF At
  <2> QED
    BY <1>0, <2>2, <2>3 DEF InPlace, Aimed, Early
<1>5. CASE UploadPrepare(j)
  BY <1>5, GotoPlace DEF UploadPrepare, At, Labels, Calls, Aimed, Early
<1>6. CASE UploadVector(j)
  <2>1. job[j].pc = "vectors" /\ "rows" \in Labels /\ "fail" \in Labels
    BY <1>6 DEF UploadVector, At, Labels, Calls
  <2>2. CASE Goto(j, "rows") \/ Goto(j, "fail")
    BY <2>1, <2>2, GotoPlace DEF Labels, Calls, Aimed, Early
  <2>3. CASE /\ job[j].pos <= job[j].size /\ job[j].pos + 1 \in 1..(MaxChunks + 1)
             /\ job' = [job EXCEPT ![j].pos = job[j].pos + 1]
    <3>1. /\ job'[j].pc = "vectors" /\ job'[j].doc = job[j].doc /\ job'[j].size = job[j].size
          /\ job'[j].pos = job[j].pos + 1
      BY <2>1, <2>3, AdvanceFacts
    <3> QED
      BY <1>0, <2>1, <2>3, <3>1 DEF InPlace, Aimed, Early
  <2> QED
    BY <1>6, <2>1, <2>2, <2>3, WriteVectorFacts DEF UploadVector
<1>7. CASE UploadRows(j)
  BY <1>7, GotoPlace DEF UploadRows, At, Labels, Calls, Aimed, Early
<1>8. CASE UploadReady(j)
  BY <1>8, GotoPlace, FinishPlace DEF UploadReady, At, Labels, Calls, Aimed, Early
<1>9. CASE UploadFail(j)
  BY <1>9, FinishPlace DEF UploadFail
<1> QED
  BY <1>1, <1>2, <1>3, <1>4, <1>5, <1>6, <1>7, <1>8, <1>9 DEF Upload

LEMMA ReindexPlaces == ASSUME Typed, PlacesOK, NEW j \in Jobs, Reindex(j) PROVE InPlace(job'[j])
<1>0. InPlace(job[j]) /\ job[j].pos \in Nat /\ job[j].size \in Nat
  BY JobFacts, IndicesFacts DEF PlacesOK, Typed
<1>a. {"backfill", "relist"} \subseteq Labels
  BY DEF Labels, Calls
<1>b. ASSUME job[j].pc \in Aimed, NEW f \in Written, AfterList(j, f)
      PROVE  InPlace(job'[j])
  <2>1. Finish(j) \/ (job'[j].pc = "mark" /\ job'[j].doc = job[j].doc)
    BY <1>b, AfterListFacts
  <2> QED
    BY <1>0, <1>b, <2>1, FinishPlace DEF InPlace, Aimed, Early
<1>1. CASE ListChunks(j)
  <2>1. job[j].pc = "list" /\ job[j].pc \in Aimed
    BY <1>1 DEF ListChunks, At, Aimed
  <2>2. Page(job[j].doc) \in Written
    BY <1>0, <2>1, PageFacts DEF InPlace
  <2>3. CASE Goto(j, "backfill")
    BY <1>a, <2>1, <2>3, GotoPlace DEF Aimed, Early
  <2>4. CASE AfterList(j, Page(job[j].doc))
    BY <1>b, <2>1, <2>2, <2>4
  <2> QED
    BY <1>1, <2>3, <2>4 DEF ListChunks
<1>2. CASE Backfill(j)
  BY <1>2, GotoPlace, FinishPlace DEF Backfill, At, Labels, Calls, Aimed, Early
<1>3. CASE Relist(j)
  <2>1. job[j].pc = "relist" /\ job[j].pc \in Aimed
    BY <1>3 DEF Relist, At, Aimed
  <2>2. Page(job[j].doc) \in Written /\ NoText_ \in Written
    BY <1>0, <2>1, PageFacts, NothingFacts DEF InPlace
  <2>3. AfterList(j, NoText_) \/ AfterList(j, Page(job[j].doc))
    BY <1>3 DEF Relist
  <2> QED
    BY <1>b, <2>1, <2>2, <2>3
<1>4. CASE ReindexMark(j)
  <2>1. job[j].pc = "mark"
    BY <1>4 DEF ReindexMark, At
  <2>2. PICK n \in 0..MaxChunks : /\ job'[j].pc = "upsert" /\ job'[j].doc = job[j].doc
                                  /\ job'[j].size = n /\ job'[j].pos = 1
    BY <1>4, ReindexMarkFacts
  <2>3. n \in Nat
    BY <2>2, IndicesFacts
  <2> QED
    BY <1>0, <2>1, <2>2, <2>3 DEF InPlace, Aimed, Early
<1>5. CASE ReindexVector(j)
  <2>1. job[j].pc = "upsert" /\ "clear" \in Labels /\ "refail" \in Labels
    BY <1>5 DEF ReindexVector, At, Labels, Calls
  <2>2. CASE Goto(j, "clear") \/ Goto(j, "refail")
    BY <2>1, <2>2, GotoPlace DEF Labels, Calls, Aimed, Early
  <2>3. CASE /\ job[j].pos <= job[j].size /\ job[j].pos + 1 \in 1..(MaxChunks + 1)
             /\ job' = [job EXCEPT ![j].pos = job[j].pos + 1]
    <3>1. /\ job'[j].pc = "upsert" /\ job'[j].doc = job[j].doc /\ job'[j].size = job[j].size
          /\ job'[j].pos = job[j].pos + 1
      BY <2>1, <2>3, AdvanceFacts
    <3> QED
      BY <1>0, <2>1, <2>3, <3>1 DEF InPlace, Aimed, Early
  <2> QED
    BY <1>5, <2>1, <2>2, <2>3, WriteVectorFacts DEF ReindexVector
<1>6. CASE ReindexClear(j)
  BY <1>6, GotoPlace DEF ReindexClear, At, Labels, Calls, Aimed, Early
<1>7. CASE ReindexSucceed(j)
  BY <1>7, FinishPlace DEF ReindexSucceed
<1>8. CASE ReindexFail(j)
  BY <1>8, FinishPlace DEF ReindexFail
<1> QED
  BY <1>1, <1>2, <1>3, <1>4, <1>5, <1>6, <1>7, <1>8 DEF Reindex

LEMMA StepPlaces == ASSUME Typed, PlacesOK, NEW j \in Jobs, Step(j) PROVE InPlace(job'[j])
<1>0. InPlace(job[j])
  BY DEF PlacesOK
<1>1. CASE Start(j)
  BY <1>0, <1>1, StartFacts DEF At, InPlace, Aimed, Early
<1>2. CASE Crash(j)
  BY <1>2, FinishPlace DEF Crash
<1>3. CASE Lookup(j)
  <2> DEFINE l == CASE job[j].kind = "edit"   -> "edit"
                    [] job[j].kind = "delete" -> "delVectors"
                    [] OTHER                  -> "list"
  <2>1. l \in {"edit", "delVectors", "list"} /\ job[j].pc = "lookup"
    BY <1>3 DEF Lookup, At
  <2>2. Goto(j, l) \/ Finish(j)
    BY <1>3 DEF Lookup
  <2> HIDE DEF l
  <2> QED
    BY <2>1, <2>2, GotoPlace, FinishPlace DEF Labels, Calls, Aimed, Early
<1>4. CASE ReseedCollection(j)
  BY <1>4, GotoPlace DEF ReseedCollection, At, Labels, Calls, Aimed, Early
<1>5. CASE ReseedRows(j)
  BY <1>5, GotoPlace DEF ReseedRows, At, Labels, Calls, Aimed, Early
<1>6. CASE Edit(j)
  BY <1>6, EditFacts, FinishPlace
<1>7. CASE DeleteVectors(j)
  BY <1>7, GotoPlace DEF DeleteVectors, At, Labels, Calls, Aimed, Early
<1>8. CASE SoftDelete(j)
  BY <1>8, FinishPlace DEF SoftDelete
<1>9. CASE AskSearch(j)
  BY <1>9, AskSearchFacts, FinishPlace DEF Searched, InPlace, Aimed, Early
<1>10. CASE AskKeep(j)
  BY <1>10, FinishPlace DEF AskKeep
<1> QED
  BY <1>1, <1>2, <1>3, <1>4, <1>5, <1>6, <1>7, <1>8, <1>9, <1>10, UploadPlaces, ReindexPlaces
     DEF Step
-----------------------------------------------------------------------------
(* A document of its own, as long as nobody else holds it                  *)

Exclusive ==
  \A d \in Docs \ overlapped, j, k \in Jobs : j # k => ~(Held(j, d) /\ Held(k, d))

(* After a step of j either j is the only one that can hold the document,  *)
(* or nothing about the document has changed.                              *)
Sole(j, d) == \A k \in Jobs : k # j => job'[k] = job[k] /\ ~Held(k, d)
Elsewhere(j, d) == Same(d) /\ ~Held(j, d)' /\ \A k \in Jobs : k # j => job'[k] = job[k]

LEMMA WatchedStep ==
  ASSUME Typed, PlacesOK, Exclusive, NEW j \in Jobs, Step(j), Watch, NEW d \in Docs, d \notin overlapped'
  PROVE  d \notin overlapped /\ (Sole(j, d) \/ Elsewhere(j, d))
<1>1. Proper(j)
  BY StepProper
<1>2. d \notin overlapped /\ \A k \in Jobs : k # j => ~(d \in Holds(job'[j]) /\ d \in Holds(job'[k]))
  BY DEF Watch
<1>3. \A k \in Jobs : k # j => job'[k] = job[k]
  BY <1>1 DEF Proper, Moved
<1>4. \A k \in Jobs : k # j => ~(Held(j, d) /\ Held(k, d)) /\ ~(Held(j, d)' /\ Held(k, d))
  BY <1>2, <1>3 DEF Exclusive, Held
<1>5. CASE Held(j, d) \/ Held(j, d)'
  BY <1>2, <1>3, <1>4, <1>5 DEF Sole
<1>6. CASE ~Held(j, d) /\ ~Held(j, d)'
  BY <1>1, <1>2, <1>3, <1>6 DEF Elsewhere, Proper
<1> QED
  BY <1>5, <1>6

(* Who does not hold a document is at no call about it.                    *)
LEMMA Bystander ==
  ASSUME NEW r \in JobSet, InPlace(r), NEW d \in Docs, d \notin Holds(r)
  PROVE  /\ r.pc \in Aimed => r.doc # d
         /\ r.pc \in {"dropVectors", "dropRow"} => r.old # d
         /\ r.pc \notin {"dropCollection", "dropRows"}
<1>1. NoDoc \notin Docs
  BY NothingFacts
<1>2. r.pc \notin {"idle", "done"} => r.kind # "reseed" /\ r.doc # d /\ r.old # d
  BY <1>1 DEF Holds
<1> QED
  BY <1>2 DEF InPlace, Aimed

LEMMA WatchExclusive ==
  ASSUME Typed, Watch
  PROVE  Exclusive'
BY DEF Watch, Exclusive, Held

-----------------------------------------------------------------------------
(* Vectors and rows                                                        *)

Working == Aimed \ {"lookup", "keep"}

(* What a request relies on, of a document that it alone holds: it is      *)
(* there while the request works on it, and its vectors are gone before    *)
(* the request takes its row, unless it asked another store.               *)
Cleared(r, d) ==
  /\ d \notin strayed =>
       /\ r.pc = "dropRow" /\ r.old = d => vec[d] = NoText_
       /\ r.pc = "dropRows" => vec[d] = NoText_
       /\ r.pc = "softDelete" /\ r.doc = d => vec[d] = NoText_
  /\ r.pc \in Working /\ r.doc = d => Alive(d)

Shown(d) == vec[d] # NoText_ /\ d \notin strayed => Alive(d)

ShownOK == \A d \in Docs \ overlapped : Shown(d) /\ \A j \in Jobs : Cleared(job[j], d)

(* A new status, other than "absent", keeps a document where it was.       *)
LEMMA StatusKeeps ==
  ASSUME Typed, NEW e, NEW s \in {"processing", "ready", "failed"}, NEW n \in 0..MaxChunks,
         \/ row' = row
         \/ row' = [row EXCEPT ![e].status = s]
         \/ row' = [row EXCEPT ![e].status = s, ![e].count = n],
         NEW d \in Docs
  PROVE  /\ Alive(d) => Alive(d)'
         /\ row'[d].status = "absent" => row[d].status = "absent"
<1>1. row[d] \in RowSet
  BY DEF Typed
<1> DEFINE q == [row[d] EXCEPT !.status = s]
           p == [row[d] EXCEPT !.status = s, !.count = n]
<1>2. /\ q.status # "absent" /\ q.deleted = row[d].deleted
      /\ p.status # "absent" /\ p.deleted = row[d].deleted
  BY <1>1 DEF RowSet
<1>3. row'[d] \in {row[d], q, p}
  BY <1>1 DEF Typed
<1> HIDE DEF p, q
<1> QED
  BY <1>2, <1>3 DEF Alive

LEMMA FinishCleared == ASSUME Typed, NEW j \in Jobs, Finish(j), NEW d PROVE Cleared(job[j], d)'
BY FinishFacts DEF Cleared, Working, Aimed

(* A request that goes on with the same document.                          *)
LEMMA GotoCleared ==
  ASSUME Typed, NEW j \in Jobs, NEW l \in Labels, Goto(j, l), NEW d \in Docs,
         Cleared(job[j], d), l \in Working => job[j].pc \in Working,
         l \notin {"dropRow", "dropRows", "softDelete"},
         Alive(d) => Alive(d)', strayed \subseteq strayed', vec' = vec
  PROVE  Cleared(job[j], d)'
<1>1. job'[j].pc = l /\ job'[j].doc = job[j].doc
  BY GotoFacts
<1> QED
  BY <1>1 DEF Cleared

LEMMA UploadCleared ==
  ASSUME Typed, PlacesOK, NEW j \in Jobs, Upload(j), NEW d \in Docs, Shown(d), Cleared(job[j], d),
         strayed \subseteq strayed'
  PROVE  Shown(d)' /\ Cleared(job[j], d)'
<1>0. InPlace(job[j]) /\ NoText_ \in Written
  BY NothingFacts DEF PlacesOK
<1>1. CASE UploadFind(j)
  BY <1>1, UploadFindFacts DEF Shown, Alive, store, Cleared, Working, Aimed
<1>2. CASE UploadDropVectors(j)
  <2>1. job'[j].pc = "dropRow" /\ job'[j].old = job[j].old
    BY <1>2, GotoFacts DEF UploadDropVectors, Labels, Calls
  <2>2. row' = row /\ WriteVectors(job[j].client, job[j].old, NoText_)
    BY <1>2 DEF UploadDropVectors
  <2>3. vec'[d] \in {vec[d], NoText_} /\ (job[j].old = d /\ d \notin strayed' => vec'[d] = NoText_)
    <3>1. /\ job[j].client \in {"server", "local"} /\ job[j].old \in Docs
          /\ NoText_ \in Written
      BY <1>0, <1>2, JobFacts, NothingFacts DEF Typed, UploadDropVectors, At, InPlace
    <3>2. /\ \A e \in Docs : e # job[j].old => vec'[e] = vec[e]
          /\ vec'[job[j].old] \in {NoText_, vec[job[j].old]}
          /\ job[j].old \notin strayed' => vec'[job[j].old] = NoText_
      BY <2>2, <3>1, WriteFacts
    <3> QED
      BY <3>2
  <2> QED
    BY <2>1, <2>2, <2>3 DEF Shown, Alive, Cleared, Working, Aimed
<1>3. CASE UploadDropRow(j)
  <2>1. job[j].pc = "dropRow" /\ vec' = vec
    BY <1>3 DEF UploadDropRow, At
  <2>2. row'[d] = row[d] \/ job[j].old = d
    BY <1>3 DEF UploadDropRow, Typed
  <2>3. job'[j].pc \in {"insert", "done"}
    BY <1>3, GotoFacts, FinishFacts DEF UploadDropRow, Labels, Calls
  <2> QED
    BY <2>1, <2>2, <2>3 DEF Shown, Alive, Cleared, Working, Aimed
<1>4. CASE UploadInsert(j)
  <2>1. PICK e \in Docs, n \in 0..MaxChunks, f \in Written : Inserted(j, e, n, f)
    BY <1>4, UploadInsertFacts
  <2>2. /\ job'[j].pc = "prepare" /\ job'[j].doc = e
        /\ row'[e].status = "processing" /\ ~row'[e].deleted
        /\ \A b \in Docs : b # e => row'[b] = row[b]
    BY <2>1, InsertedFacts
  <2>3. vec' = vec
    BY <1>4, UploadInsertFacts
  <2> QED
    BY <2>2, <2>3 DEF Shown, Alive, Cleared, Working, Aimed
<1>5. CASE UploadPrepare(j)
  <2>1. row' = row /\ vec' = vec /\ job[j].pc = "prepare"
    BY <1>5 DEF UploadPrepare, store, At
  <2>2. PICK l \in {"vectors", "fail"} : Goto(j, l)
    BY <1>5 DEF UploadPrepare
  <2>3. Cleared(job[j], d)'
    BY <2>1, <2>2, GotoCleared DEF Labels, Calls, Working, Aimed, Alive
  <2> QED
    BY <2>1, <2>3 DEF Shown, Alive
<1>6. CASE UploadVector(j)
  <2>1. job[j].pc = "vectors" /\ row' = row /\ "rows" \in Labels /\ "fail" \in Labels
    BY <1>6 DEF UploadVector, At, Labels, Calls
  <2>2. CASE (Goto(j, "rows") \/ Goto(j, "fail")) /\ vec' = vec
    <3>1. Cleared(job[j], d)'
      BY <2>1, <2>2, GotoCleared DEF Working, Aimed, Alive
    <3> QED
      BY <2>1, <2>2, <3>1 DEF Shown, Alive
  <2>3. CASE /\ job[j].pos \in Indices /\ job[j].pos + 1 \in 1..(MaxChunks + 1)
             /\ Upserted(j)
             /\ job' = [job EXCEPT ![j].pos = job[j].pos + 1]
    <3>1. job'[j].pc = "vectors" /\ job'[j].doc = job[j].doc
      BY <2>1, <2>3, AdvanceFacts
    <3>2. vec'[d] = vec[d] \/ job[j].doc = d
      BY <1>0, <2>1, <2>3, UpsertedFacts DEF InPlace, Aimed
    <3> QED
      BY <2>1, <3>1, <3>2 DEF Shown, Alive, Cleared, Working, Aimed
  <2> QED
    BY <1>6, <2>1, <2>2, <2>3, WriteVectorFacts DEF UploadVector
<1>7. CASE UploadRows(j)
  <2>1. row' = row /\ vec' = vec /\ job[j].pc = "rows"
    BY <1>7 DEF UploadRows, At
  <2>2. Goto(j, "ready") \/ Goto(j, "fail")
    BY <1>7 DEF UploadRows
  <2>3. Cleared(job[j], d)'
    BY <2>1, <2>2, GotoCleared DEF Labels, Calls, Working, Aimed, Alive
  <2> QED
    BY <2>1, <2>3 DEF Shown, Alive
<1>8. CASE UploadReady(j)
  <2>1. vec' = vec /\ job[j].pc = "ready"
    BY <1>8 DEF UploadReady, At
  <2>2. job[j].size \in 0..MaxChunks
    BY JobFacts DEF Typed
  <2>3. \/ row' = row
        \/ row' = [row EXCEPT ![job[j].doc].status = "ready", ![job[j].doc].count = job[j].size]
    BY <1>8 DEF UploadReady
  <2>4. Alive(d) => Alive(d)'
    BY <2>2, <2>3, StatusKeeps
  <2>5. Goto(j, "fail") \/ Finish(j)
    BY <1>8 DEF UploadReady
  <2>6. Cleared(job[j], d)'
    BY <2>1, <2>4, <2>5, GotoCleared, FinishCleared DEF Labels, Calls, Working, Aimed
  <2> QED
    BY <2>1, <2>4, <2>6 DEF Shown
<1>9. CASE UploadFail(j)
  <2>1. vec' = vec /\ Finish(j)
    BY <1>9 DEF UploadFail
  <2>2. row' = row \/ row' = [row EXCEPT ![job[j].doc].status = "failed"]
    BY <1>9 DEF UploadFail
  <2>3. Alive(d) => Alive(d)'
    BY <2>2, StatusKeeps, IndicesFacts
  <2> QED
    BY <2>1, <2>3, FinishCleared DEF Shown
<1> QED
  BY <1>1, <1>2, <1>3, <1>4, <1>5, <1>6, <1>7, <1>8, <1>9 DEF Upload

LEMMA ReindexCleared ==
  ASSUME Typed, PlacesOK, NEW j \in Jobs, Reindex(j), NEW d \in Docs, Shown(d), Cleared(job[j], d),
         strayed \subseteq strayed'
  PROVE  Shown(d)' /\ Cleared(job[j], d)'
<1>0. /\ InPlace(job[j])
      /\ {"backfill", "relist", "mark", "done", "clear", "succeed", "refail"} \subseteq Labels
  BY DEF PlacesOK, Labels, Calls
<1>a. ASSUME job[j].pc \in Working, NEW f \in Written, row' = row, AfterList(j, f)
      PROVE  Cleared(job[j], d)'
  <2>1. Finish(j) \/ (job'[j].pc = "mark" /\ job'[j].doc = job[j].doc)
    BY <1>a, AfterListFacts
  <2> QED
    BY <1>a, <2>1, FinishCleared DEF Cleared, Alive
<1>1. CASE ListChunks(j)
  <2>1. job[j].pc = "list" /\ job[j].pc \in Working /\ row' = row /\ vec' = vec
    BY <1>1 DEF ListChunks, At, Working, Aimed, store
  <2>2. Page(job[j].doc) \in Written
    BY <1>0, <2>1, PageFacts DEF InPlace, Working
  <2>3. CASE Goto(j, "backfill")
    BY <1>0, <2>1, <2>3, GotoCleared DEF Shown, Alive
  <2>4. CASE AfterList(j, Page(job[j].doc))
    BY <1>a, <2>1, <2>2, <2>4 DEF Shown, Alive
  <2> QED
    BY <1>1, <2>3, <2>4 DEF ListChunks
<1>2. CASE Backfill(j)
  <2>1. job[j].pc \in Working /\ row' = row /\ vec' = vec /\ (Goto(j, "relist") \/ Finish(j))
    BY <1>2 DEF Backfill, At, Working, Aimed
  <2> QED
    BY <1>0, <2>1, GotoCleared, FinishCleared DEF Shown, Alive
<1>3. CASE Relist(j)
  <2>1. job[j].pc = "relist" /\ job[j].pc \in Working /\ row' = row /\ vec' = vec
    BY <1>3 DEF Relist, At, Working, Aimed, store
  <2>2. Page(job[j].doc) \in Written /\ NoText_ \in Written
    BY <1>0, <2>1, PageFacts, NothingFacts DEF InPlace, Working
  <2>3. AfterList(j, NoText_) \/ AfterList(j, Page(job[j].doc))
    BY <1>3 DEF Relist
  <2> QED
    BY <1>a, <2>1, <2>2, <2>3 DEF Shown, Alive
<1>4. CASE ReindexMark(j)
  <2>1. job[j].pc \in Working /\ vec' = vec
    BY <1>4 DEF ReindexMark, At, Working, Aimed
  <2>2. job'[j].pc = "upsert" /\ job'[j].doc = job[j].doc
    BY <1>4, ReindexMarkFacts
  <2>3. row' = row \/ row' = [row EXCEPT ![job[j].doc].status = "processing"]
    BY <1>4 DEF ReindexMark
  <2>4. Alive(d) => Alive(d)'
    BY <2>3, StatusKeeps, IndicesFacts
  <2> QED
    BY <2>1, <2>2, <2>4 DEF Shown, Cleared
<1>5. CASE ReindexVector(j)
  <2>1. job[j].pc = "upsert" /\ job[j].pc \in Working /\ row' = row
    BY <1>5 DEF ReindexVector, At, Working, Aimed
  <2>2. CASE (Goto(j, "clear") \/ Goto(j, "refail")) /\ vec' = vec
    BY <1>0, <2>1, <2>2, GotoCleared DEF Shown, Alive
  <2>3. CASE /\ job[j].pos \in Indices /\ job[j].pos + 1 \in 1..(MaxChunks + 1)
             /\ Upserted(j)
             /\ job' = [job EXCEPT ![j].pos = job[j].pos + 1]
    <3>1. job'[j].pc = "upsert" /\ job'[j].doc = job[j].doc
      BY <2>1, <2>3, AdvanceFacts
    <3>2. vec'[d] = vec[d] \/ job[j].doc = d
      BY <1>0, <2>1, <2>3, UpsertedFacts DEF InPlace, Working
    <3> QED
      BY <2>1, <3>1, <3>2 DEF Shown, Alive, Cleared
  <2> QED
    BY <1>5, <1>0, <2>2, <2>3, WriteVectorFacts DEF ReindexVector
<1>6. CASE ReindexClear(j)
  <2>1. job[j].pc \in Working /\ row' = row /\ vec' = vec /\ Goto(j, "succeed")
    BY <1>6 DEF ReindexClear, At, Working, Aimed
  <2> QED
    BY <1>0, <2>1, GotoCleared DEF Shown, Alive
<1>7. CASE ReindexSucceed(j)
  <2> DEFINE n == Cardinality(Stored(job[j].doc))
  <2>1. n \in 0..MaxChunks
    BY IndicesFacts DEF Stored
  <2>2. vec' = vec /\ Finish(j)
    BY <1>7, ReindexSucceedFacts
  <2>3. row' = row \/ row' = [row EXCEPT ![job[j].doc].status = "ready", ![job[j].doc].count = n]
    BY <1>7, ReindexSucceedFacts
  <2> HIDE DEF n
  <2>4. Alive(d) => Alive(d)'
    BY <2>1, <2>3, StatusKeeps
  <2> QED
    BY <2>2, <2>4, FinishCleared DEF Shown
<1>8. CASE ReindexFail(j)
  <2>1. vec' = vec /\ Finish(j)
    BY <1>8 DEF ReindexFail
  <2>2. row' = row \/ row' = [row EXCEPT ![job[j].doc].status = "failed"]
    BY <1>8 DEF ReindexFail
  <2>3. Alive(d) => Alive(d)'
    BY <2>2, StatusKeeps, IndicesFacts
  <2> QED
    BY <2>1, <2>3, FinishCleared DEF Shown
<1> QED
  BY <1>1, <1>2, <1>3, <1>4, <1>5, <1>6, <1>7, <1>8 DEF Reindex

LEMMA StepCleared ==
  ASSUME Typed, PlacesOK, NEW j \in Jobs, Step(j), NEW d \in Docs, Shown(d), Cleared(job[j], d),
         strayed \subseteq strayed'
  PROVE  Shown(d)' /\ Cleared(job[j], d)'
<1>1. CASE Start(j)
  BY <1>1, StartFacts DEF store, Shown, Alive, Cleared, Working, Aimed
<1>2. CASE Crash(j)
  BY <1>2, FinishCleared DEF Crash, store, Shown, Alive
<1>3. CASE Lookup(j)
  <2> DEFINE l == CASE job[j].kind = "edit"   -> "edit"
                    [] job[j].kind = "delete" -> "delVectors"
                    [] OTHER                  -> "list"
  <2>1. l \in {"edit", "delVectors", "list"} /\ l \in Labels /\ row' = row /\ vec' = vec
    BY <1>3 DEF Lookup, store, Labels, Calls
  <2>2. (Alive(job[j].doc) /\ Goto(j, l)) \/ Finish(j)
    BY <1>3 DEF Lookup
  <2> HIDE DEF l
  <2>3. CASE Alive(job[j].doc) /\ Goto(j, l)
    <3>1. job'[j].pc = l /\ job'[j].doc = job[j].doc
      BY <2>1, <2>3, GotoFacts
    <3> QED
      BY <2>1, <2>3, <3>1 DEF Shown, Alive, Cleared
  <2> QED
    BY <2>1, <2>2, <2>3, FinishCleared DEF Shown, Alive
<1>4. CASE ReseedCollection(j)
  <2>1. job'[j].pc = "dropRows"
    BY <1>4, GotoFacts DEF ReseedCollection, Labels, Calls
  <2>2. d \notin strayed' => vec'[d] = NoText_
    BY <1>4 DEF ReseedCollection
  <2> QED
    BY <2>1, <2>2 DEF Shown, Cleared, Working, Aimed
<1>5. CASE ReseedRows(j)
  <2>1. job'[j].pc = "find" /\ job[j].pc = "dropRows" /\ vec' = vec
    BY <1>5, GotoFacts DEF ReseedRows, Labels, Calls, At
  <2> QED
    BY <2>1 DEF Shown, Cleared, Working, Aimed
<1>6. CASE Edit(j)
  <2>1. vec' = vec /\ Finish(j)
    BY <1>6, EditFacts
  <2>2. row' = row \/ row' = [row EXCEPT ![job[j].doc].status = "processing"]
    BY <1>6, EditFacts DEF Saved
  <2>3. Alive(d) => Alive(d)'
    BY <2>2, StatusKeeps, IndicesFacts
  <2> QED
    BY <2>1, <2>3, FinishCleared DEF Shown
<1>7. CASE DeleteVectors(j)
  <2>1. /\ job'[j].pc = "softDelete" /\ job'[j].doc = job[j].doc /\ job[j].pc = "delVectors"
        /\ row' = row
    BY <1>7, GotoFacts DEF DeleteVectors, Labels, Calls, At
  <2>2. vec'[d] \in {vec[d], NoText_} /\ (job[j].doc = d /\ d \notin strayed' => vec'[d] = NoText_)
    <3>1. PICK c \in {"server", "local"} : WriteVectors(c, job[j].doc, NoText_)
      BY <1>7, DocumentsAssumption DEF DeleteVectors
    <3>2. job[j].doc \in Docs
      BY <2>1 DEF PlacesOK, InPlace, Aimed
    <3> QED
      BY <3>1, <3>2, WriteFacts, NothingFacts
  <2> QED
    BY <2>1, <2>2 DEF Shown, Alive, Cleared, Working, Aimed
<1>8. CASE SoftDelete(j)
  <2>1. vec' = vec /\ Finish(j) /\ job[j].pc = "softDelete"
    BY <1>8 DEF SoftDelete, At
  <2>2. row'[d] = row[d] \/ job[j].doc = d
    BY <1>8 DEF SoftDelete, Typed
  <2> QED
    BY <2>1, <2>2, FinishCleared DEF Shown, Alive, Cleared
<1>9. CASE AskSearch(j)
  <2>1. row' = row /\ vec' = vec /\ job'[j].pc \in {"keep", "done"}
    BY <1>9, AskSearchFacts, FinishFacts DEF Searched
  <2> QED
    BY <2>1 DEF Shown, Alive, Cleared, Working, Aimed
<1>10. CASE AskKeep(j)
  BY <1>10, FinishCleared DEF AskKeep, Shown, Alive
<1> QED
  BY <1>1, <1>2, <1>3, <1>4, <1>5, <1>6, <1>7, <1>8, <1>9, <1>10, UploadCleared, ReindexCleared
     DEF Step

LEMMA StepShown ==
  ASSUME Typed, PlacesOK, Exclusive, ShownOK, NEW j \in Jobs, Step(j), Watch
  PROVE  ShownOK'
<1>1. Proper(j) /\ InPlace(job'[j])
  BY StepProper, StepPlaces
<1> SUFFICES ASSUME NEW d \in Docs, d \notin overlapped'
             PROVE  Shown(d)' /\ \A k \in Jobs : Cleared(job[k], d)'
  BY DEF ShownOK
<1>2. d \notin overlapped /\ (Sole(j, d) \/ Elsewhere(j, d))
  BY WatchedStep
<1>3. Shown(d)' /\ Cleared(job[j], d)'
  BY <1>1, <1>2, StepCleared DEF ShownOK, Proper
<1>s. strayed \subseteq strayed'
  BY <1>1 DEF Proper
<1>4. ASSUME NEW k \in Jobs, k # j, Sole(j, d) PROVE Cleared(job[k], d)'
  <2>1. job'[k] = job[k] /\ job[k] \in JobSet /\ InPlace(job[k]) /\ d \notin Holds(job[k])
    BY <1>4 DEF Sole, Typed, PlacesOK, Held
  <2>2. /\ job[k].pc \in Aimed => job[k].doc # d
        /\ job[k].pc \in {"dropVectors", "dropRow"} => job[k].old # d
        /\ job[k].pc \notin {"dropCollection", "dropRows"}
    BY <2>1, Bystander
  <2> QED
    BY <2>1, <2>2 DEF Cleared, Working, Aimed
<1>5. ASSUME NEW k \in Jobs, k # j, Elsewhere(j, d) PROVE Cleared(job[k], d)'
  BY <1>2, <1>5, <1>s DEF Elsewhere, Same, ShownOK, Cleared, Alive
<1> QED
  BY <1>2, <1>3, <1>4, <1>5
-----------------------------------------------------------------------------
(* Rows of chunks                                                          *)

(* A chunk row has a text and a status, or there is none; a document that  *)
(* is not there has no chunk rows, and nothing edited.                     *)
RowOK(d) ==
  /\ \A i \in Indices : \/ chunk[d][i] = NoChunk
                        \/ chunk[d][i].text \in Texts /\ chunk[d][i].status \in {"ready", "processing"}
  /\ row[d].status = "absent" =>
       \A i \in Indices : chunk[d][i] = NoChunk /\ edited[d][i] = NoText

RowsOK == \A d \in Docs : RowOK(d)

(* Only a row changes, and it does not go.                                 *)
LEMMA RowOnly ==
  ASSUME NEW d, RowOK(d), chunk'[d] = chunk[d], edited'[d] = edited[d],
         row'[d].status = "absent" => row[d].status = "absent"
  PROVE  RowOK(d)'
BY DEF RowOK

(* Rows that are added have a text.                                        *)
LEMMA RowsAdded ==
  ASSUME NEW d, RowOK(d), row'[d].status = "absent" => row[d].status = "absent", edited'[d] = edited[d],
         \A i \in Indices :
           \/ chunk'[d][i] = chunk[d][i]
           \/ row[d].status # "absent" /\ \E t \in Texts : chunk'[d][i] = [text |-> t, status |-> "ready"]
  PROVE  RowOK(d)'
<1>1. ASSUME NEW i \in Indices
      PROVE  \/ chunk'[d][i] = NoChunk
             \/ chunk'[d][i].text \in Texts /\ chunk'[d][i].status \in {"ready", "processing"}
  <2>1. CASE chunk'[d][i] = chunk[d][i]
    BY <2>1 DEF RowOK
  <2>2. ASSUME NEW t \in Texts, chunk'[d][i] = [text |-> t, status |-> "ready"]
        PROVE  chunk'[d][i].text \in Texts /\ chunk'[d][i].status = "ready"
    BY <2>2
  <2> QED
    BY <2>1, <2>2
<1>2. row[d].status = "absent" => \A i \in Indices : chunk'[d][i] = NoChunk /\ edited'[d][i] = NoText
  BY DEF RowOK
<1> QED
  BY <1>1, <1>2 DEF RowOK

LEMMA UploadRowOK ==
  ASSUME Typed, PlacesOK, NEW j \in Jobs, Upload(j), NEW d \in Docs, RowOK(d)
  PROVE  RowOK(d)'
<1>1. CASE UploadFind(j)
  BY <1>1, RowOnly, UploadFindFacts DEF store
<1>2. CASE UploadDropVectors(j) \/ UploadPrepare(j) \/ UploadVector(j)
  BY <1>2, RowOnly DEF UploadDropVectors, UploadPrepare, UploadVector, store
<1>3. CASE UploadDropRow(j)
  <2>1. CASE job[j].old = d
    <3>1. chunk'[d] = NoRows /\ edited'[d] = NoText_
      BY <1>3, <2>1 DEF UploadDropRow, Typed
    <3> QED
      BY <3>1, NothingFacts DEF RowOK
  <2>2. CASE job[j].old # d
    <3>1. chunk'[d] = chunk[d] /\ edited'[d] = edited[d] /\ row'[d] = row[d]
      BY <1>3, <2>2 DEF UploadDropRow, Typed
    <3> QED
      BY <3>1, RowOnly
  <2> QED
    BY <2>1, <2>2
<1>4. CASE UploadInsert(j)
  <2>1. PICK e \in Docs, n \in 0..MaxChunks, f \in Written : Inserted(j, e, n, f)
    BY <1>4, UploadInsertFacts
  <2>2. row'[e].status = "processing" /\ \A b \in Docs : b # e => row'[b] = row[b]
    BY <2>1, InsertedFacts
  <2>3. chunk' = chunk /\ edited' = edited
    BY <1>4, UploadInsertFacts
  <2> QED
    BY <2>2, <2>3, RowOnly
<1>5. CASE UploadRows(j)
  <2>1. PICK k \in 0..job[j].size :
          /\ row[job[j].doc].status = "absent" => k = 0
          /\ chunk' = ChunkRows(job[j].doc, job[j].read, k)
    BY <1>5 DEF UploadRows
  <2>2. /\ k \in 0..MaxChunks /\ job[j].read \in Written /\ job[j].doc \in Docs
        /\ row' = row /\ edited' = edited
    BY <1>5, JobFacts, IndicesFacts DEF UploadRows, At, PlacesOK, InPlace, Aimed, Typed
  <2>3. CASE job[j].doc # d
    BY <2>1, <2>2, <2>3, ChunkRowsFacts, RowOnly
  <2>4. CASE job[j].doc = d
    <3>1. ASSUME NEW i \in Indices
          PROVE  \/ chunk'[d][i] = chunk[d][i]
                 \/ /\ row[d].status # "absent"
                    /\ \E t \in Texts : chunk'[d][i] = [text |-> t, status |-> "ready"]
      <4>1. job[j].read[i] # NoText => job[j].read[i] \in Texts
        BY <2>2 DEF Written
      <4>2. ~(i <= 0)
        BY IndicesFacts
      <4>3. CASE i <= k /\ job[j].read[i] # NoText
        <5>1. row[d].status # "absent"
          BY <2>1, <2>4, <4>2, <4>3
        <5>2. chunk'[d][i] = [text |-> job[j].read[i], status |-> "ready"]
          BY <2>1, <2>2, <2>4, <4>3, ChunkRowsFacts
        <5> QED
          BY <4>1, <4>3, <5>1, <5>2
      <4>4. CASE ~(i <= k /\ job[j].read[i] # NoText)
        BY <2>1, <2>2, <2>4, <4>4, ChunkRowsFacts
      <4> QED
        BY <4>3, <4>4
    <3> QED
      BY <2>2, <3>1, RowsAdded
  <2> QED
    BY <2>3, <2>4
<1>6. CASE UploadReady(j)
  <2>1. job[j].size \in 0..MaxChunks
    BY JobFacts DEF Typed
  <2>2. \/ row' = row
        \/ row' = [row EXCEPT ![job[j].doc].status = "ready", ![job[j].doc].count = job[j].size]
    BY <1>6 DEF UploadReady
  <2> QED
    BY <1>6, <2>1, <2>2, StatusKeeps, RowOnly DEF UploadReady
<1>7. CASE UploadFail(j)
  <2>1. row' = row \/ row' = [row EXCEPT ![job[j].doc].status = "failed"]
    BY <1>7 DEF UploadFail
  <2> QED
    BY <1>7, <2>1, StatusKeeps, IndicesFacts, RowOnly DEF UploadFail
<1> QED
  BY <1>1, <1>2, <1>3, <1>4, <1>5, <1>6, <1>7 DEF Upload

LEMMA ReindexRowOK ==
  ASSUME Typed, PlacesOK, NEW j \in Jobs, Reindex(j), NEW d \in Docs, RowOK(d)
  PROVE  RowOK(d)'
<1>1. CASE ListChunks(j) \/ Relist(j) \/ ReindexVector(j) \/ ReindexClear(j)
  BY <1>1, RowOnly DEF ListChunks, Relist, ReindexVector, ReindexClear, store
<1>2. CASE Backfill(j)
  <2>1. row' = row /\ edited' = edited
    BY <1>2, BackfillFacts
  <2>2. CASE chunk'[d] = chunk[d]
    BY <2>1, <2>2, RowOnly
  <2>3. CASE chunk'[d] # chunk[d]
    <3>1. PICK f \in Written :
            /\ \A i \in Indices :
                 /\ f[i] # NoText => chunk'[d][i] = [text |-> f[i], status |-> "ready"]
                 /\ f[i] = NoText => chunk'[d][i] = chunk[d][i]
            /\ row[d].status = "absent" => \A i \in Indices : f[i] = NoText
      BY <1>2, <2>3, BackfillFacts DEF Backfilled
    <3>2. \A i \in Indices : f[i] # NoText => f[i] \in Texts
      BY DEF Written
    <3> QED
      BY <2>1, <3>1, <3>2, RowsAdded
  <2> QED
    BY <2>2, <2>3
<1>3. CASE ReindexMark(j)
  <2>1. row' = row \/ row' = [row EXCEPT ![job[j].doc].status = "processing"]
    BY <1>3 DEF ReindexMark
  <2> QED
    BY <1>3, <2>1, StatusKeeps, IndicesFacts, RowOnly DEF ReindexMark
<1>4. CASE ReindexFail(j)
  <2>1. row' = row \/ row' = [row EXCEPT ![job[j].doc].status = "failed"]
    BY <1>4 DEF ReindexFail
  <2> QED
    BY <1>4, <2>1, StatusKeeps, IndicesFacts, RowOnly DEF ReindexFail
<1>5. CASE ReindexSucceed(j)
  <2> DEFINE n == Cardinality(Stored(job[j].doc))
  <2>1. n \in 0..MaxChunks
    BY IndicesFacts DEF Stored
  <2>2. row' = row \/ row' = [row EXCEPT ![job[j].doc].status = "ready", ![job[j].doc].count = n]
    BY <1>5, ReindexSucceedFacts
  <2> HIDE DEF n
  <2>3. row'[d].status = "absent" => row[d].status = "absent"
    BY <2>1, <2>2, StatusKeeps
  <2>4. edited' = edited
    BY <1>5, ReindexSucceedFacts
  <2>5. CASE chunk'[d] = chunk[d]
    BY <2>3, <2>4, <2>5, RowOnly
  <2>6. CASE chunk'[d] # chunk[d]
    <3>1. chunk'[d] = Readied(d)
      BY <1>5, <2>6, ReindexSucceedFacts DEF Typed
    <3>2. \A i \in Indices : /\ Readied(d)[i].text = chunk[d][i].text
                             /\ chunk[d][i] = NoChunk => Readied(d)[i] = NoChunk
                             /\ chunk[d][i] # NoChunk => Readied(d)[i].status = "ready"
      BY ReadiedFacts
    <3> QED
      BY <2>3, <2>4, <3>1, <3>2 DEF RowOK
  <2> QED
    BY <2>5, <2>6
<1> QED
  BY <1>1, <1>2, <1>3, <1>4, <1>5 DEF Reindex

LEMMA StepRows == ASSUME Typed, PlacesOK, RowsOK, NEW j \in Jobs, Step(j) PROVE RowsOK'
<1> SUFFICES ASSUME NEW d \in Docs PROVE RowOK(d)'
  BY DEF RowsOK
<1>0. RowOK(d)
  BY DEF RowsOK
<1>1. CASE Start(j) \/ Crash(j) \/ Lookup(j) \/ AskSearch(j)
  BY <1>0, <1>1, RowOnly DEF Start, Crash, Lookup, AskSearch, store
<1>2. CASE ReseedCollection(j) \/ DeleteVectors(j) \/ AskKeep(j)
  BY <1>0, <1>2, RowOnly DEF ReseedCollection, DeleteVectors, AskKeep
<1>3. CASE ReseedRows(j)
  <2>1. chunk'[d] = NoRows /\ edited'[d] = NoText_
    BY <1>3 DEF ReseedRows
  <2> QED
    BY <2>1, NothingFacts DEF RowOK
<1>4. CASE Edit(j)
  <2>1. job[j].doc \in Docs
    BY <1>4, EditFacts DEF At, PlacesOK, InPlace, Aimed
  <2>2. CASE UNCHANGED <<chunk, edited, row>>
    BY <1>0, <2>2, RowOnly
  <2>3. ASSUME NEW i \in Indices, NEW t \in Texts, Saved(job[j].doc, i, t) PROVE RowOK(d)'
    <3>1. CASE job[j].doc # d
      BY <1>0, <2>1, <2>3, <3>1, SavedFacts, RowOnly
    <3>2. CASE job[j].doc = d
      <4>1. /\ row'[d].status \in {row[d].status, "processing"}
            /\ chunk'[d][i].text = t /\ chunk'[d][i].status = "processing"
            /\ \A k \in Indices : k # i => chunk'[d][k] = chunk[d][k] /\ edited'[d][k] = edited[d][k]
        BY <2>3, <3>2, SavedFacts
      <4>2. row[d].status # "absent"
        BY <2>3, <3>2 DEF Saved, Alive
      <4> QED
        BY <1>0, <4>1, <4>2 DEF RowOK
    <3> QED
      BY <3>1, <3>2
  <2> QED
    BY <1>4, <2>2, <2>3, EditFacts
<1>5. CASE SoftDelete(j)
  <2>1. row[d] \in RowSet
    BY DEF Typed
  <2>2. row'[d] = row[d] \/ row'[d] = [row[d] EXCEPT !.deleted = TRUE]
    BY <1>5 DEF SoftDelete, Typed
  <2>3. row'[d].status = row[d].status
    BY <2>1, <2>2 DEF RowSet
  <2> QED
    BY <1>0, <1>5, <2>3, RowOnly DEF SoftDelete
<1> QED
  BY <1>0, <1>1, <1>2, <1>3, <1>4, <1>5, UploadRowOK, ReindexRowOK DEF Step
-----------------------------------------------------------------------------
(* Texts, vectors and answers                                              *)

NotCached(d) == \A a \in cache : a[1] # d

(* Vectors and chunk rows are there up to some place; what was edited is   *)
(* in its row.                                                             *)
Ordered(d) ==
  \A i, k \in Indices : k < i =>
    /\ vec[d][i] # NoText => vec[d][k] # NoText
    /\ chunk[d][i] # NoChunk => chunk[d][k] # NoChunk

Kept(d) == \A i \in Indices : edited[d][i] # NoText => chunk[d][i].text = edited[d][i]

(* A chunk that is ready has one text in all places, a chunk without a row *)
(* one text in the vectors and the answers; only a chunk that waits for a  *)
(* reindex may differ.                                                     *)
Agreed(d) ==
  \A i \in Indices :
    /\ i <= ReindexLimit /\ chunk[d][i].status = "ready" =>
         /\ vec[d][i] \in {NoText, chunk[d][i].text}
         /\ \A t \in Texts : <<d, i, t>> \in cache => t = chunk[d][i].text
    /\ chunk[d][i] = NoChunk => \A t \in Texts : <<d, i, t>> \in cache => vec[d][i] \in {NoText, t}

Good(d) == Ordered(d) /\ Kept(d) /\ Agreed(d)

(* What an upload relies on: its document is new, and its vectors are      *)
(* written up to the place it has reached.                                 *)
UpRely(r, d) ==
  r.pc \in {"prepare", "vectors", "rows"} /\ r.doc = d =>
    /\ NotCached(d)
    /\ \A i \in Indices : /\ edited[d][i] = NoText /\ chunk[d][i] = NoChunk
                          /\ i <= r.size <=> r.read[i] # NoText
                          /\ vec[d][i] = IF i < r.pos THEN r.read[i] ELSE NoText
    /\ r.pc = "rows" => r.pos > r.size

(* What a reindex relies on: it read what the rows say, and the vectors    *)
(* agree with them up to the place it has reached; rows are made from      *)
(* vectors only where there are none; the answers are gone before the      *)
(* chunks are ready.  And a question: its text is still the vector's.      *)
ReRely(r, d) ==
  r.doc = d =>
    /\ r.pc = "backfill" => Stored(d) = {}
    /\ r.pc \in {"mark", "upsert"} =>
         \A i \in Indices : r.read[i] = IF i <= ReindexLimit THEN chunk[d][i].text ELSE NoText
    /\ r.pc = "upsert" =>
         \A i \in Indices : /\ i <= r.size <=> r.read[i] # NoText
                            /\ i < r.pos => vec[d][i] = r.read[i]
    /\ r.pc \in {"clear", "succeed"} =>
         \A i \in Indices : i <= ReindexLimit /\ chunk[d][i] # NoChunk => vec[d][i] = chunk[d][i].text
    /\ r.pc = "succeed" => NotCached(d)
    /\ r.pc = "keep" => vec[d][r.pos] = r.read[r.pos]

Relied(r, d) == UpRely(r, d) /\ ReRely(r, d)

TracedOK ==
  \A d \in Docs \ (overlapped \cup degraded \cup strayed) :
    Good(d) /\ \A j \in Jobs : Relied(job[j], d)

Relying == {"prepare", "vectors", "rows", "backfill", "mark", "upsert", "clear", "succeed", "keep"}

LEMMA NoReliance == ASSUME NEW j, NEW d, job'[j].pc \notin Relying PROVE Relied(job[j], d)'
BY DEF Relied, UpRely, ReRely, Relying

LEMMA OtherReliance == ASSUME NEW j, NEW d, job'[j].doc # d PROVE Relied(job[j], d)'
BY DEF Relied, UpRely, ReRely

LEMMA FinishRelied == ASSUME Typed, NEW j \in Jobs, Finish(j), NEW d PROVE Relied(job[j], d)'
BY FinishFacts DEF Relied, UpRely, ReRely

(* What is said of a document stays while the document does.               *)
LEMMA GoodStays ==
  ASSUME NEW d, Good(d), vec'[d] = vec[d], chunk'[d] = chunk[d], edited'[d] = edited[d],
         \A a \in cache' : a[1] = d => a \in cache
  PROVE  Good(d)'
<1>1. \A i, t : <<d, i, t>> \in cache' => <<d, i, t>> \in cache
  OBVIOUS
<1>2. Ordered(d)' /\ Kept(d)'
  BY DEF Good, Ordered, Kept
<1>3. Agreed(d)'
  BY <1>1 DEF Good, Agreed
<1> QED
  BY <1>2, <1>3 DEF Good

LEMMA NotCachedStays ==
  ASSUME NEW d, \A a \in cache' : a[1] = d => a \in cache
  PROVE  NotCached(d) => NotCached(d)'
BY DEF NotCached

LEMMA RelianceStays ==
  ASSUME NEW j, NEW d, Relied(job[j], d), job'[j] = job[j],
         vec'[d] = vec[d], chunk'[d] = chunk[d], edited'[d] = edited[d],
         \A a \in cache' : a[1] = d => a \in cache
  PROVE  Relied(job[j], d)'
<1>1. UpRely(job[j], d)'
  BY NotCachedStays DEF Relied, UpRely
<1>2. ReRely(job[j], d)'
  BY NotCachedStays DEF Relied, ReRely, Stored
<1> QED
  BY <1>1, <1>2 DEF Relied

(* Without its vectors a document still agrees with itself, and so does    *)
(* one without vectors that loses its rows.                                *)
LEMMA GoodWithoutVectors ==
  ASSUME NEW d \in Docs, Good(d), vec'[d] = NoText_, chunk' = chunk, edited' = edited, cache' = cache
  PROVE  Good(d)'
<1>1. \A i \in Indices : vec'[d][i] = NoText
  BY NothingFacts
<1>2. Ordered(d)' /\ Kept(d)'
  BY <1>1 DEF Good, Ordered, Kept
<1>3. Agreed(d)'
  BY <1>1 DEF Good, Agreed
<1> QED
  BY <1>2, <1>3 DEF Good

LEMMA GoodWithoutRows ==
  ASSUME NEW d \in Docs, vec[d] = NoText_, vec' = vec, chunk'[d] = NoRows, edited'[d] = NoText_
  PROVE  Good(d)'
<1>1. \A i \in Indices : /\ vec'[d][i] = NoText /\ chunk'[d][i] = NoChunk /\ edited'[d][i] = NoText
                         /\ chunk'[d][i].status = "absent"
  BY NothingFacts
<1>2. Ordered(d)' /\ Kept(d)'
  BY <1>1 DEF Ordered, Kept
<1>3. Agreed(d)'
  BY <1>1 DEF Agreed
<1> QED
  BY <1>2, <1>3 DEF Good

-----------------------------------------------------------------------------
(* The steps of an upload                                                  *)

(* A vector is written where the upload stands.                            *)
LEMMA UploadWrites ==
  ASSUME Typed, PlacesOK, NEW j \in Jobs, job[j].pc = "vectors", NEW d \in Docs, RowOK(d),
         Good(d), Relied(job[j], d), d \notin strayed',
         job[j].pos <= job[j].size, job[j].pos \in Indices, job[j].pos + 1 \in 1..(MaxChunks + 1),
         Upserted(j),
         job' = [job EXCEPT ![j].pos = job[j].pos + 1],
         UNCHANGED <<row, chunk, cache, edited, degraded>>
  PROVE  Good(d)' /\ Relied(job[j], d)'
<1> DEFINE p == job[j].pos
<1>1. /\ job'[j].pc = "vectors" /\ job'[j].doc = job[j].doc /\ job'[j].size = job[j].size
      /\ job'[j].pos = p + 1 /\ job'[j].read = job[j].read
  BY AdvanceFacts
<1>2. p \in Nat /\ job[j].size \in Nat /\ Indices \subseteq Nat
  BY JobFacts, IndicesFacts DEF Typed
<1>3. CASE job[j].doc # d
  <2>1. vec'[d] = vec[d]
    BY <1>3, UpsertedFacts DEF PlacesOK, InPlace, Aimed
  <2> QED
    BY <1>1, <1>3, <2>1, GoodStays, OtherReliance
<1>4. CASE job[j].doc = d
  <2>1. /\ NotCached(d)
        /\ \A i \in Indices : /\ edited[d][i] = NoText /\ chunk[d][i] = NoChunk
                              /\ i <= job[j].size <=> job[j].read[i] # NoText
                              /\ vec[d][i] = IF i < p THEN job[j].read[i] ELSE NoText
    BY <1>4 DEF Relied, UpRely
  <2>2. vec'[d][p] = job[j].read[p] /\ \A i \in Indices : i # p => vec'[d][i] = vec[d][i]
    BY <1>4, UpsertedFacts
  <2>3. \A i \in Indices : vec'[d][i] = IF i < p + 1 THEN job[j].read[i] ELSE NoText
    BY <1>2, <2>1, <2>2
  <2>4. NotCached(d)'
    BY <2>1 DEF NotCached
  <2>5. Relied(job[j], d)'
    BY <1>1, <2>1, <2>3, <2>4 DEF Relied, UpRely, ReRely
  <2>6. Ordered(d)'
    BY <1>2, <2>1, <2>3 DEF Ordered
  <2>7. Kept(d)'
    BY <2>1 DEF Kept
  <2>8. Agreed(d)'
    BY <2>1, <2>4, NothingFacts DEF Agreed, NotCached
  <2> QED
    BY <2>5, <2>6, <2>7, <2>8 DEF Good
<1> QED
  BY <1>3, <1>4

LEMMA UploadGood ==
  ASSUME Typed, PlacesOK, NEW j \in Jobs, Upload(j), NEW d \in Docs, RowOK(d), Cleared(job[j], d),
         Good(d), Relied(job[j], d), d \notin strayed'
  PROVE  Good(d)' /\ Relied(job[j], d)'
<1>0. InPlace(job[j]) /\ NoText_ \in Written /\ Indices \subseteq Nat
  BY NothingFacts, IndicesFacts DEF PlacesOK
<1>1. CASE UploadFind(j)
  BY <1>1, UploadFindFacts, GoodStays, NoReliance DEF store, Relying
<1>2. CASE UploadDropVectors(j)
  <2>1. job'[j].pc = "dropRow"
    BY <1>2, GotoFacts DEF UploadDropVectors, Labels, Calls
  <2>2. UNCHANGED <<chunk, cache, edited>> /\ WriteVectors(job[j].client, job[j].old, NoText_)
    BY <1>2 DEF UploadDropVectors
  <2>3. vec'[d] = vec[d] \/ vec'[d] = NoText_
    <3>1. /\ job[j].client \in {"server", "local"} /\ job[j].old \in Docs
          /\ NoText_ \in Written
      BY <1>0, <1>2, JobFacts, NothingFacts DEF Typed, UploadDropVectors, At, InPlace
    <3>2. /\ \A e \in Docs : e # job[j].old => vec'[e] = vec[e]
          /\ vec'[job[j].old] \in {NoText_, vec[job[j].old]}
      BY <2>2, <3>1, WriteFacts
    <3> QED
      BY <3>2
  <2> QED
    BY <2>1, <2>2, <2>3, GoodStays, GoodWithoutVectors, NoReliance DEF Relying
<1>3. CASE UploadDropRow(j)
  <2>1. UNCHANGED <<chroma, cache>> /\ job[j].pc = "dropRow"
    BY <1>3 DEF UploadDropRow, At
  <2>2. job'[j].pc \in {"insert", "done"}
    BY <1>3, GotoFacts, FinishFacts DEF UploadDropRow, Labels, Calls
  <2>3. CASE job[j].old = d
    <3>1. vec[d] = NoText_
      BY <2>1, <2>3 DEF Cleared
    <3>2. chunk'[d] = NoRows /\ edited'[d] = NoText_
      BY <1>3, <2>3 DEF UploadDropRow, Typed
    <3> QED
      BY <2>1, <2>2, <3>1, <3>2, GoodWithoutRows, NoReliance DEF Relying
  <2>4. CASE job[j].old # d
    <3>1. chunk'[d] = chunk[d] /\ edited'[d] = edited[d]
      BY <1>3, <2>4 DEF UploadDropRow, Typed
    <3> QED
      BY <2>1, <2>2, <3>1, GoodStays, NoReliance DEF Relying
  <2> QED
    BY <2>3, <2>4
<1>4. CASE UploadInsert(j)
  <2>1. PICK e \in Docs, n \in 0..MaxChunks, f \in Written : Inserted(j, e, n, f)
    BY <1>4, UploadInsertFacts
  <2>2. /\ job'[j].pc = "prepare" /\ job'[j].doc = e /\ job'[j].size = n
        /\ job'[j].pos = job[j].pos /\ job'[j].read = f
    BY <2>1, InsertedFacts
  <2>3. UNCHANGED <<chunk, chroma, cache, edited>> /\ job[j].pc = "insert"
    BY <1>4, UploadInsertFacts DEF At
  <2>4. Good(d)'
    BY <2>3, GoodStays
  <2>5. CASE e # d
    BY <2>2, <2>4, <2>5, OtherReliance
  <2>6. CASE e = d
    <3>1. Fresh(d) /\ \A i \in Indices : i <= n <=> f[i] # NoText
      BY <2>1, <2>6 DEF Inserted
    <3>2. row[d] = NoRow /\ vec[d] = NoText_ /\ NotCached(d)
      <4>1. d >= d
        BY DocumentsAssumption
      <4> QED
        BY <3>1, <4>1 DEF Fresh, NotCached
    <3>3. \A i \in Indices : chunk[d][i] = NoChunk /\ edited[d][i] = NoText /\ vec[d][i] = NoText
      BY <3>2, NothingFacts DEF RowOK
    <3>4. \A i \in Indices : ~(i < job[j].pos)
      <4>1. job[j].pos = 1
        BY <1>0, <2>3 DEF InPlace, Early
      <4>2. \A i \in Indices : i \in Nat /\ 1 <= i
        BY IndicesFacts
      <4> QED
        BY <4>1, <4>2
    <3>5. NotCached(d)'
      BY <2>3, <3>2 DEF NotCached
    <3> QED
      BY <2>2, <2>3, <2>4, <2>6, <3>1, <3>3, <3>4, <3>5 DEF Relied, UpRely, ReRely
  <2> QED
    BY <2>5, <2>6
<1>5. CASE UploadPrepare(j)
  <2>1. UNCHANGED <<row, chunk, chroma, cache, edited>> /\ job[j].pc = "prepare"
    BY <1>5 DEF UploadPrepare, store, At
  <2>2. PICK l \in {"vectors", "fail"} : Goto(j, l)
    BY <1>5 DEF UploadPrepare
  <2>3. /\ job'[j].pc = l /\ job'[j].doc = job[j].doc /\ job'[j].size = job[j].size
        /\ job'[j].pos = job[j].pos /\ job'[j].read = job[j].read
    BY <2>2, GotoFacts DEF Labels, Calls
  <2>4. Relied(job[j], d)'
    BY <2>1, <2>3 DEF Relied, UpRely, ReRely, NotCached
  <2> QED
    BY <2>1, <2>4, GoodStays
<1>6. CASE UploadVector(j)
  <2>1. UNCHANGED <<row, chunk, cache, edited, degraded>> /\ job[j].pc = "vectors"
    BY <1>6 DEF UploadVector, At
  <2>2. CASE Goto(j, "fail") /\ vec' = vec
    <3>1. job'[j].pc = "fail"
      BY <2>2, GotoFacts DEF Labels, Calls
    <3> QED
      BY <2>1, <2>2, <3>1, GoodStays, NoReliance DEF Relying
  <2>3. CASE job[j].pos > job[j].size /\ Goto(j, "rows") /\ vec' = vec
    <3>1. /\ job'[j].pc = "rows" /\ job'[j].doc = job[j].doc /\ job'[j].size = job[j].size
          /\ job'[j].pos = job[j].pos /\ job'[j].read = job[j].read
      BY <2>3, GotoFacts DEF Labels, Calls
    <3>2. Relied(job[j], d)'
      BY <2>1, <2>3, <3>1 DEF Relied, UpRely, ReRely, NotCached
    <3> QED
      BY <2>1, <2>3, <3>2, GoodStays
  <2>4. "rows" \in Labels
    BY DEF Labels, Calls
  <2> QED
    BY <1>6, <2>1, <2>2, <2>3, <2>4, WriteVectorFacts, UploadWrites DEF UploadVector
<1>7. CASE UploadRows(j)
  <2>1. PICK k \in 0..job[j].size :
          /\ chunk' = ChunkRows(job[j].doc, job[j].read, k)
          /\ Goto(j, IF k = job[j].size THEN "ready" ELSE "fail")
    BY <1>7 DEF UploadRows
  <2>2. /\ k \in 0..MaxChunks /\ k \in Nat /\ k <= job[j].size /\ job[j].read \in Written
        /\ job[j].doc \in Docs /\ job[j].size \in Nat /\ job[j].pos \in Nat
    BY <1>0, <1>7, JobFacts, IndicesFacts DEF UploadRows, At, InPlace, Aimed, Typed
  <2>3. UNCHANGED <<row, chroma, cache, edited>> /\ job[j].pc = "rows"
    BY <1>7 DEF UploadRows, At
  <2>4. Relied(job[j], d)'
    <3>1. job'[j].pc \in {"ready", "fail"}
      BY <2>1, GotoFacts DEF Labels, Calls
    <3> QED
      BY <3>1, NoReliance DEF Relying
  <2>5. CASE job[j].doc # d
    <3>1. chunk'[d] = chunk[d]
      BY <2>1, <2>2, <2>5, ChunkRowsFacts
    <3> QED
      BY <2>3, <2>4, <3>1, GoodStays
  <2>6. CASE job[j].doc = d
    <3>1. /\ NotCached(d) /\ job[j].pos > job[j].size
          /\ \A i \in Indices : /\ edited[d][i] = NoText /\ chunk[d][i] = NoChunk
                                /\ i <= job[j].size <=> job[j].read[i] # NoText
                                /\ vec[d][i] = IF i < job[j].pos THEN job[j].read[i] ELSE NoText
      BY <2>3, <2>6 DEF Relied, UpRely
    <3>2. ASSUME NEW i \in Indices
          PROVE  /\ i <= k => /\ chunk'[d][i].text = vec[d][i] /\ chunk'[d][i].status = "ready"
                              /\ chunk'[d][i] # NoChunk
                 /\ ~(i <= k) => chunk'[d][i] = NoChunk
      <4>1. CASE i <= k
        <5>1. job[j].read[i] # NoText /\ vec[d][i] = job[j].read[i]
          BY <1>0, <2>2, <3>1, <4>1
        <5>2. chunk'[d][i] = [text |-> job[j].read[i], status |-> "ready"]
          BY <2>1, <2>2, <2>6, <4>1, <5>1, ChunkRowsFacts
        <5>3. chunk'[d][i].text = job[j].read[i] /\ chunk'[d][i].status = "ready"
          BY <5>2
        <5>4. chunk'[d][i].text # NoChunk.text
          <6>1. NoChunk.text = NoText
            BY NothingFacts
          <6>2. job[j].read[i] # NoChunk.text
            BY <5>1, <6>1
          <6> HIDE DEF NoChunk
          <6> QED
            BY <5>3, <6>2
        <5>5. chunk'[d][i] # NoChunk
          BY <5>4
        <5> QED
          BY <4>1, <5>1, <5>3, <5>5
      <4>2. CASE ~(i <= k)
        <5>1. ChunkRows(job[j].doc, job[j].read, k)[job[j].doc][i] = chunk[job[j].doc][i]
          <6>1. job[j].doc \in Docs /\ job[j].read \in Written /\ k \in 0..MaxChunks
            BY <2>2
          <6> QED
            BY ZenonT(30), <4>2, <6>1, RowsBeyond
        <5>2. chunk'[d][i] = chunk[d][i]
          BY <2>1, <2>6, <5>1
        <5>3. chunk'[d][i] = NoChunk
          BY <3>1, <5>2
        <5> QED
          BY <4>2, <5>3
      <4> QED
        BY <4>1, <4>2
    <3>3. Ordered(d)'
      <4>1. ASSUME NEW a \in Indices, NEW b \in Indices, b < a, vec'[d][a] # NoText
            PROVE  vec'[d][b] # NoText
        BY <2>3, <4>1 DEF Good, Ordered
      <4>2. ASSUME NEW a \in Indices, NEW b \in Indices, b < a, chunk'[d][a] # NoChunk
            PROVE  chunk'[d][b] # NoChunk
        BY <1>0, <2>2, <3>2, <4>2
      <4> QED
        BY <4>1, <4>2 DEF Ordered
    <3>4. Kept(d)'
      BY <2>3, <3>1 DEF Kept
    <3>5. Agreed(d)'
      BY <2>3, <3>1, <3>2, NothingFacts DEF Agreed, NotCached
    <3> QED
      BY <2>4, <3>3, <3>4, <3>5 DEF Good
  <2> QED
    BY <2>5, <2>6
<1>8. CASE UploadReady(j)
  <2>1. job'[j].pc \in {"fail", "done"}
    BY <1>8, GotoFacts, FinishFacts DEF UploadReady, Labels, Calls
  <2>2. UNCHANGED <<chunk, chroma, cache, edited>>
    BY <1>8 DEF UploadReady
  <2> QED
    BY <2>1, <2>2, GoodStays, NoReliance DEF Relying
<1>9. CASE UploadFail(j)
  BY <1>9, GoodStays, FinishRelied DEF UploadFail
<1> QED
  BY <1>1, <1>2, <1>3, <1>4, <1>5, <1>6, <1>7, <1>8, <1>9 DEF Upload
-----------------------------------------------------------------------------
(* The steps of a reindex                                                  *)

(* What was read, has no gap: as many chunks are written as were read.     *)
LEMMA ReadHasNoGap ==
  ASSUME Typed, NEW d \in Docs, Ordered(d), RowOK(d), NEW f \in Written,
         \A i \in Indices : f[i] = IF i <= ReindexLimit THEN chunk[d][i].text ELSE NoText
  PROVE  \A i \in Indices : i <= Cardinality({k \in Indices : f[k] # NoText}) <=> f[i] # NoText
<1> DEFINE S == {k \in Indices : f[k] # NoText}
<1>1. Indices = 1..MaxChunks /\ MaxChunks \in Nat /\ ReindexLimit \in Nat /\ NoText \notin Texts
  BY DocumentsAssumption DEF Indices
<1>2. \A i \in Indices : chunk[d][i] = NoChunk <=> chunk[d][i].text = NoText
  BY <1>1, NothingFacts DEF RowOK
<1>3. ASSUME NEW i \in S, NEW k \in 1..MaxChunks, k < i PROVE k \in S
  <2>1. i \in Indices /\ k \in Indices /\ i <= ReindexLimit /\ chunk[d][i].text # NoText
    BY <1>1, <1>3
  <2>2. k <= ReindexLimit
    BY <1>1, <1>3, <2>1
  <2>3. chunk[d][k].text # NoText
    BY <1>2, <1>3, <2>1 DEF Ordered
  <2> QED
    BY <2>1, <2>2, <2>3
<1>4. S \in SUBSET (1..MaxChunks)
  BY <1>1
<1>5. S = 1..Cardinality(S) /\ Cardinality(S) \in 0..MaxChunks
  <2> HIDE DEF S
  <2> QED
    BY <1>1, <1>3, <1>4, NoGap
<1>6. ASSUME NEW i \in Indices PROVE i <= Cardinality(S) <=> i \in S
  <2> DEFINE n == Cardinality(S)
  <2>1. S = 1..n /\ n \in Nat /\ i \in Nat /\ 1 <= i
    BY <1>1, <1>5
  <2> HIDE DEF n, S
  <2> QED
    BY <2>1 DEF n
<1> QED
  BY <1>6

LEMMA ReindexWrites ==
  ASSUME Typed, PlacesOK, NEW j \in Jobs, job[j].pc = "upsert", NEW d \in Docs, RowOK(d),
         Good(d), Relied(job[j], d), d \notin strayed',
         job[j].pos <= job[j].size, job[j].pos \in Indices, job[j].pos + 1 \in 1..(MaxChunks + 1),
         Upserted(j),
         job' = [job EXCEPT ![j].pos = job[j].pos + 1],
         UNCHANGED <<row, chunk, cache, edited, degraded>>
  PROVE  Good(d)' /\ Relied(job[j], d)'
<1> DEFINE p == job[j].pos
<1>1. /\ job'[j].pc = "upsert" /\ job'[j].doc = job[j].doc /\ job'[j].size = job[j].size
      /\ job'[j].pos = p + 1 /\ job'[j].read = job[j].read
  BY AdvanceFacts
<1>2. p \in Nat /\ job[j].size \in Nat /\ Indices \subseteq Nat
  BY JobFacts, IndicesFacts DEF Typed
<1>3. CASE job[j].doc # d
  <2>1. vec'[d] = vec[d]
    BY <1>3, UpsertedFacts DEF PlacesOK, InPlace, Aimed
  <2> QED
    BY <1>1, <1>3, <2>1, GoodStays, OtherReliance
<1>4. CASE job[j].doc = d
  <2>1. \A i \in Indices :
          /\ job[j].read[i] = IF i <= ReindexLimit THEN chunk[d][i].text ELSE NoText
          /\ i <= job[j].size <=> job[j].read[i] # NoText
          /\ i < p => vec[d][i] = job[j].read[i]
    BY <1>4 DEF Relied, ReRely
  <2>2. vec'[d][p] = job[j].read[p] /\ \A i \in Indices : i # p => vec'[d][i] = vec[d][i]
    BY <1>4, UpsertedFacts
  <2>3. /\ job[j].read[p] # NoText /\ p <= ReindexLimit
        /\ vec'[d][p] = chunk[d][p].text /\ chunk[d][p] # NoChunk
    BY <2>1, <2>2, NothingFacts
  <2>4. ASSUME NEW i \in Indices, i < p + 1 PROVE vec'[d][i] = job[j].read[i]
    <3>1. i < p \/ i = p
      BY <1>2, <2>4
    <3> QED
      BY <2>1, <2>2, <3>1
  <2>5. Relied(job[j], d)'
    BY <1>1, <2>1, <2>4 DEF Relied, UpRely, ReRely
  <2>6. Ordered(d)'
    <3>1. ASSUME NEW a \in Indices, NEW b \in Indices, b < a, vec'[d][a] # NoText
          PROVE  vec'[d][b] # NoText
      <4>1. CASE a = p
        <5>1. b <= job[j].size /\ b < p
          BY <1>2, <3>1, <4>1
        <5> QED
          BY <2>1, <2>2, <5>1
      <4>2. CASE a # p
        <5>1. vec[d][a] # NoText
          BY <2>2, <3>1, <4>2
        <5>2. vec[d][b] # NoText
          BY <3>1, <5>1 DEF Good, Ordered
        <5> QED
          BY <2>2, <2>3, <5>2
      <4> QED
        BY <4>1, <4>2
    <3> QED
      BY <3>1 DEF Good, Ordered
  <2>7. Kept(d)'
    BY DEF Good, Kept
  <2>8. Agreed(d)'
    <3>1. ASSUME NEW i \in Indices, i # p
          PROVE  vec'[d][i] = vec[d][i]
      BY <2>2, <3>1
    <3> QED
      BY <2>3, <3>1 DEF Good, Agreed
  <2> QED
    BY <2>5, <2>6, <2>7, <2>8 DEF Good
<1> QED
  BY <1>3, <1>4

LEMMA BackfillGood ==
  ASSUME Typed, PlacesOK, NEW j \in Jobs, Backfill(j), NEW d \in Docs, RowOK(d),
         Good(d), Relied(job[j], d), d \notin strayed'
  PROVE  Good(d)' /\ Relied(job[j], d)'
<1>1. UNCHANGED <<row, vec, cache, edited>> /\ job[j].pc = "backfill"
  BY BackfillFacts DEF At
<1>2. Relied(job[j], d)'
  <2>1. job'[j].pc \in {"relist", "done"}
    BY BackfillFacts, GotoFacts, FinishFacts DEF Labels, Calls
  <2> QED
    BY <2>1, NoReliance DEF Relying
<1>3. CASE chunk'[d] = chunk[d]
  BY <1>1, <1>2, <1>3, GoodStays
<1>4. CASE chunk'[d] # chunk[d]
  <2>1. /\ job[j].doc = d
        /\ \A i \in Indices :
             /\ vec[d][i] # NoText => chunk'[d][i] = [text |-> vec[d][i], status |-> "ready"]
             /\ vec[d][i] = NoText => chunk'[d][i] = chunk[d][i]
    BY <1>4, BackfillFacts DEF Backfilled
  <2>2. \A i \in Indices : chunk[d][i] = NoChunk
    BY <1>1, <2>1 DEF Relied, ReRely, Stored
  <2>3. ASSUME NEW i \in Indices
        PROVE  /\ edited[d][i] = NoText
               /\ vec[d][i] # NoText => /\ chunk'[d][i].text = vec[d][i] /\ chunk'[d][i].status = "ready"
                                        /\ chunk'[d][i] # NoChunk
               /\ vec[d][i] = NoText => chunk'[d][i] = NoChunk
    <3>1. edited[d][i] = NoText
      BY <2>2, NothingFacts DEF Good, Kept
    <3>2. vec[d][i] # NoText => chunk'[d][i].text = vec[d][i] /\ chunk'[d][i].status = "ready"
      <4>1. \A c, t : c = [text |-> t, status |-> "ready"] => c.text = t /\ c.status = "ready"
        OBVIOUS
      <4>2. vec[d][i] # NoText => chunk'[d][i] = [text |-> vec[d][i], status |-> "ready"]
        BY Zenon, <2>1
      <4> QED
        BY Zenon, <4>1, <4>2
    <3>3. vec[d][i] # NoText => chunk'[d][i].text # NoChunk.text
      BY <3>2, NothingFacts
    <3>4. vec[d][i] = NoText => chunk'[d][i] = NoChunk
      BY <2>1, <2>2
    <3>5. vec[d][i] # NoText => chunk'[d][i] # NoChunk
      BY <3>3
    <3> QED
      BY <3>1, <3>2, <3>4, <3>5
  <2>4. Ordered(d)'
    BY <1>1, <2>3 DEF Good, Ordered
  <2>5. Kept(d)'
    BY <1>1, <2>3 DEF Kept
  <2>6. \A i \in Indices, t \in Texts : <<d, i, t>> \in cache => vec[d][i] \in {NoText, t}
    BY <2>2 DEF Good, Agreed
  <2>7. Agreed(d)'
    <3>1. ASSUME NEW i \in Indices, vec[d][i] # NoText
          PROVE  /\ vec'[d][i] = chunk'[d][i].text /\ chunk'[d][i] # NoChunk
                 /\ \A t \in Texts : <<d, i, t>> \in cache' => t = chunk'[d][i].text
      BY <1>1, <2>3, <2>6, <3>1
    <3>2. ASSUME NEW i \in Indices, vec[d][i] = NoText
          PROVE  /\ chunk'[d][i].status # "ready" /\ vec'[d][i] = NoText
      BY <1>1, <2>3, <3>2, NothingFacts
    <3> QED
      BY <3>1, <3>2 DEF Agreed
  <2> QED
    BY <1>2, <2>4, <2>5, <2>7 DEF Good
<1> QED
  BY <1>3, <1>4

LEMMA SucceedGood ==
  ASSUME Typed, PlacesOK, NEW j \in Jobs, ReindexSucceed(j), NEW d \in Docs, RowOK(d),
         Good(d), Relied(job[j], d)
  PROVE  Good(d)' /\ Relied(job[j], d)'
<1>1. UNCHANGED <<chroma, cache, edited>> /\ job[j].pc = "succeed" /\ Finish(j)
  BY ReindexSucceedFacts DEF At
<1>2. Relied(job[j], d)'
  BY <1>1, FinishRelied
<1>3. CASE chunk'[d] = chunk[d]
  BY <1>1, <1>2, <1>3, GoodStays
<1>4. CASE chunk'[d] # chunk[d]
  <2>1. chunk'[d] = Readied(d) /\ job[j].doc = d
    BY <1>4, ReindexSucceedFacts DEF Typed
  <2>2. /\ NotCached(d)
        /\ \A i \in Indices : i <= ReindexLimit /\ chunk[d][i] # NoChunk => vec[d][i] = chunk[d][i].text
    BY <1>1, <2>1 DEF Relied, ReRely
  <2>3. \A i \in Indices : /\ chunk'[d][i].text = chunk[d][i].text
                           /\ chunk[d][i] = NoChunk => chunk'[d][i] = NoChunk
                           /\ chunk[d][i] # NoChunk => chunk'[d][i] # NoChunk
    BY <2>1, ReadiedFacts, NothingFacts
  <2>4. Ordered(d)' /\ Kept(d)'
    BY <1>1, <2>3 DEF Good, Ordered, Kept
  <2>5. Agreed(d)'
    BY <1>1, <2>2, <2>3, NothingFacts DEF Agreed, NotCached
  <2> QED
    BY <1>2, <2>4, <2>5 DEF Good
<1> QED
  BY <1>3, <1>4

LEMMA ReindexGood ==
  ASSUME Typed, PlacesOK, NEW j \in Jobs, Reindex(j), NEW d \in Docs, RowOK(d),
         d \notin degraded', d \notin strayed', Cleared(job[j], d), Good(d), Relied(job[j], d)
  PROVE  Good(d)' /\ Relied(job[j], d)'
<1>0. /\ InPlace(job[j])
      /\ {"backfill", "relist", "mark", "done", "clear", "succeed", "refail"} \subseteq Labels
  BY DEF PlacesOK, Labels, Calls
<1>a. ASSUME job[j].pc \in Working, NEW f \in Written, UNCHANGED store, UNCHANGED edited,
             job[j].doc = d => f = Page(d), AfterList(j, f)
      PROVE  Good(d)' /\ Relied(job[j], d)'
  <2>1. Finish(j) \/ (job'[j].pc = "mark" /\ job'[j].doc = job[j].doc /\ job'[j].read = f)
    BY <1>a, AfterListFacts
  <2>2. Good(d)'
    BY <1>a, GoodStays DEF store
  <2>3. job[j].doc = d =>
          \A i \in Indices : f[i] = IF i <= ReindexLimit THEN chunk[d][i].text ELSE NoText
    BY <1>a DEF Cleared, Page
  <2>4. CASE job'[j].pc = "mark" /\ job'[j].doc = job[j].doc /\ job'[j].read = f
    <3>1. Relied(job[j], d)'
      BY ZenonT(30), <1>a, <2>3, <2>4 DEF Relied, UpRely, ReRely, store
    <3> QED
      BY <2>2, <3>1
  <2> QED
    BY <2>1, <2>2, <2>4, FinishRelied
<1>1. CASE ListChunks(j)
  <2>1. job[j].pc = "list" /\ job[j].pc \in Working /\ UNCHANGED store /\ UNCHANGED edited
    BY <1>1 DEF ListChunks, At, Working, Aimed
  <2>2. Page(job[j].doc) \in Written
    BY <1>0, <2>1, PageFacts DEF InPlace, Working
  <2>3. CASE Goto(j, "backfill")
    <3>1. job'[j].pc = "backfill" /\ job'[j].doc = job[j].doc
      BY <1>0, <2>3, GotoFacts
    <3>2. job[j].doc = d => Stored(d) = {} \/ AfterList(j, Page(d))
      BY <1>1, <2>1 DEF ListChunks, Cleared
    <3>3. ~AfterList(j, Page(job[j].doc))
      BY <2>2, <3>1, AfterListFacts
    <3>4. job[j].doc = d => Stored(d)' = {}
      BY <2>1, <3>2, <3>3 DEF Stored, store
    <3>5. Relied(job[j], d)'
      BY <3>1, <3>4 DEF Relied, UpRely, ReRely
    <3> QED
      BY <2>1, <3>5, GoodStays DEF store
  <2>4. CASE AfterList(j, Page(job[j].doc))
    BY <1>a, <2>1, <2>2, <2>4
  <2> QED
    BY <1>1, <2>3, <2>4 DEF ListChunks
<1>2. CASE Backfill(j)
  BY <1>2, BackfillGood
<1>3. CASE Relist(j)
  <2>1. job[j].pc = "relist" /\ job[j].pc \in Working /\ UNCHANGED store /\ UNCHANGED edited
    BY <1>3 DEF Relist, At, Working, Aimed
  <2>2. Page(job[j].doc) \in Written /\ NoText_ \in Written
    BY <1>0, <2>1, PageFacts, NothingFacts DEF InPlace, Working
  <2>3. (AfterList(j, NoText_) /\ job[j].doc # d) \/ AfterList(j, Page(job[j].doc))
    BY <1>3 DEF Relist
  <2> QED
    BY <1>a, <2>1, <2>2, <2>3
<1>4. CASE ReindexMark(j)
  <2>1. UNCHANGED <<chunk, chroma, cache, edited>> /\ job[j].pc = "mark"
    BY <1>4 DEF ReindexMark, At
  <2>2. PICK n \in 0..MaxChunks :
          /\ n = Cardinality({i \in Indices : job[j].read[i] # NoText})
          /\ job'[j].pc = "upsert" /\ job'[j].doc = job[j].doc /\ job'[j].size = n
          /\ job'[j].pos = 1 /\ job'[j].read = job[j].read
    BY <1>4, ReindexMarkFacts
  <2>3. Good(d)'
    BY <2>1, GoodStays
  <2>4. CASE job[j].doc # d
    BY <2>2, <2>3, <2>4, OtherReliance
  <2>5. CASE job[j].doc = d
    <3>1. job[j].read \in Written
      BY JobFacts DEF Typed
    <3>2. \A i \in Indices : job[j].read[i] = IF i <= ReindexLimit THEN chunk[d][i].text ELSE NoText
      BY <2>1, <2>5 DEF Relied, ReRely
    <3>3. \A i \in Indices : i <= n <=> job[j].read[i] # NoText
      BY <2>2, <3>1, <3>2, ReadHasNoGap DEF Good
    <3>4. \A i \in Indices : ~(i < 1)
      <4>1. \A i \in Indices : i \in Nat /\ 1 <= i
        BY IndicesFacts
      <4> QED
        BY <4>1
    <3>5. Relied(job[j], d)'
      BY <2>1, <2>2, <3>2, <3>3, <3>4 DEF Relied, UpRely, ReRely
    <3> QED
      BY <2>3, <3>5
  <2> QED
    BY <2>4, <2>5
<1>5. CASE ReindexVector(j)
  <2>1. UNCHANGED <<row, chunk, cache, edited, degraded>> /\ job[j].pc = "upsert"
    BY <1>5 DEF ReindexVector, At
  <2>2. CASE Goto(j, "refail") /\ vec' = vec
    <3>1. job'[j].pc = "refail"
      BY <1>0, <2>2, GotoFacts
    <3> QED
      BY <2>1, <2>2, <3>1, GoodStays, NoReliance DEF Relying
  <2>3. CASE job[j].pos > job[j].size /\ Goto(j, "clear") /\ vec' = vec
    <3>1. job'[j].pc = "clear" /\ job'[j].doc = job[j].doc
      BY <1>0, <2>3, GotoFacts
    <3>2. ASSUME job[j].doc = d, NEW i \in Indices, i <= ReindexLimit, chunk[d][i] # NoChunk
          PROVE  vec[d][i] = chunk[d][i].text
      <4>1. /\ job[j].read[i] = chunk[d][i].text
            /\ i <= job[j].size <=> job[j].read[i] # NoText
            /\ i < job[j].pos => vec[d][i] = job[j].read[i]
        BY <2>1, <3>2 DEF Relied, ReRely
      <4>2. chunk[d][i].text # NoText
        BY <3>2, DocumentsAssumption DEF RowOK
      <4>3. i \in Nat /\ job[j].size \in Nat /\ job[j].pos \in Nat
        BY JobFacts, IndicesFacts DEF Typed
      <4> QED
        BY <2>3, <4>1, <4>2, <4>3
    <3>3. Relied(job[j], d)'
      BY <2>1, <2>3, <3>1, <3>2 DEF Relied, UpRely, ReRely
    <3> QED
      BY <2>1, <2>3, <3>3, GoodStays
  <2> QED
    BY <1>0, <1>5, <2>1, <2>2, <2>3, WriteVectorFacts, ReindexWrites DEF ReindexVector
<1>6. CASE ReindexClear(j)
  <2>1. UNCHANGED <<row, chunk, chroma, edited>> /\ job[j].pc = "clear" /\ cache' = {}
    BY <1>6 DEF ReindexClear, At
  <2>2. job'[j].pc = "succeed" /\ job'[j].doc = job[j].doc
    BY <1>0, <1>6, GotoFacts DEF ReindexClear
  <2>3. NotCached(d)'
    BY <2>1 DEF NotCached
  <2>4. Relied(job[j], d)'
    BY <2>1, <2>2, <2>3 DEF Relied, UpRely, ReRely
  <2> QED
    BY <2>1, <2>4, GoodStays
<1>7. CASE ReindexSucceed(j)
  BY <1>7, SucceedGood
<1>8. CASE ReindexFail(j)
  BY <1>8, GoodStays, FinishRelied DEF ReindexFail
<1> QED
  BY <1>1, <1>2, <1>3, <1>4, <1>5, <1>6, <1>7, <1>8 DEF Reindex

-----------------------------------------------------------------------------
(* The other steps                                                         *)

LEMMA EditGood ==
  ASSUME Typed, PlacesOK, NEW j \in Jobs, Edit(j), NEW d \in Docs, RowOK(d), Good(d)
  PROVE  Good(d)' /\ Relied(job[j], d)'
<1>1. UNCHANGED <<chroma, cache>> /\ Finish(j) /\ job[j].doc \in Docs
  BY EditFacts DEF At, PlacesOK, InPlace, Aimed
<1>2. Relied(job[j], d)'
  BY <1>1, FinishRelied
<1>3. CASE UNCHANGED <<chunk, edited, row>>
  BY <1>1, <1>2, <1>3, GoodStays
<1>4. ASSUME NEW i \in Indices, NEW t \in Texts, Saved(job[j].doc, i, t) PROVE Good(d)'
  <2>1. CASE job[j].doc # d
    BY <1>1, <1>4, <2>1, SavedFacts, GoodStays
  <2>2. CASE job[j].doc = d
    <3>1. /\ chunk'[d][i].text = t /\ chunk'[d][i].status = "processing" /\ edited'[d][i] = t
          /\ \A k \in Indices : k # i => chunk'[d][k] = chunk[d][k] /\ edited'[d][k] = edited[d][k]
      BY <1>4, <2>2, SavedFacts
    <3>2. chunk[d][i] # NoChunk /\ chunk'[d][i] # NoChunk
      BY <1>4, <2>2, <3>1, NothingFacts DEF Saved, Stored
    <3>3. Ordered(d)'
      BY <1>1, <3>1, <3>2 DEF Good, Ordered
    <3>4. Kept(d)'
      BY <3>1 DEF Good, Kept
    <3>5. Agreed(d)'
      BY <1>1, <3>1, <3>2 DEF Good, Agreed
    <3> QED
      BY <3>3, <3>4, <3>5 DEF Good
  <2> QED
    BY <2>1, <2>2
<1> QED
  BY <1>2, <1>3, <1>4, EditFacts

LEMMA AskKeepGood ==
  ASSUME Typed, PlacesOK, NEW j \in Jobs, AskKeep(j), NEW d \in Docs, RowOK(d), Good(d), Relied(job[j], d)
  PROVE  Good(d)' /\ Relied(job[j], d)'
<1> DEFINE p == job[j].pos  t == job[j].read[job[j].pos]
<1>1. UNCHANGED <<row, chunk, chroma, edited>> /\ Finish(j) /\ job[j].pc = "keep"
  BY DEF AskKeep, At
<1>2. cache' \subseteq cache \cup {<<job[j].doc, p, t>>}
  BY DEF AskKeep
<1>3. Relied(job[j], d)'
  BY <1>1, FinishRelied
<1>4. CASE job[j].doc # d
  <2>1. \A a \in cache' : a[1] = d => a \in cache
    BY <1>2, <1>4
  <2> QED
    BY <1>1, <1>3, <2>1, GoodStays
<1>5. CASE job[j].doc = d
  <2>1. p \in Indices /\ t \in Texts /\ vec[d][p] = t /\ t # NoText
    BY <1>1, <1>5, DocumentsAssumption DEF PlacesOK, InPlace, Relied, ReRely
  <2> HIDE DEF p, t
  <2>2. \A i, u : <<d, i, u>> \in cache' => <<d, i, u>> \in cache \/ (i = p /\ u = t)
    BY <1>2, <1>5
  <2>3. Ordered(d)' /\ Kept(d)'
    BY <1>1 DEF Good, Ordered, Kept
  <2>4. Agreed(d)'
    <3>1. ASSUME NEW i \in Indices, i <= ReindexLimit, chunk[d][i].status = "ready"
          PROVE  /\ vec[d][i] \in {NoText, chunk[d][i].text}
                 /\ \A u \in Texts : <<d, i, u>> \in cache' => u = chunk[d][i].text
      BY <2>1, <2>2, <3>1 DEF Good, Agreed
    <3>2. ASSUME NEW i \in Indices, chunk[d][i] = NoChunk
          PROVE  \A u \in Texts : <<d, i, u>> \in cache' => vec[d][i] \in {NoText, u}
      BY <2>1, <2>2, <3>2 DEF Good, Agreed
    <3> QED
      BY <1>1, <3>1, <3>2 DEF Agreed
  <2> QED
    BY <1>3, <2>3, <2>4 DEF Good
<1> QED
  BY <1>4, <1>5

LEMMA StepGood ==
  ASSUME Typed, PlacesOK, NEW j \in Jobs, Step(j), NEW d \in Docs, RowOK(d),
         d \notin degraded', d \notin strayed', strayed \subseteq strayed',
         Cleared(job[j], d), Good(d), Relied(job[j], d)
  PROVE  Good(d)' /\ Relied(job[j], d)'
<1>1. CASE Start(j)
  <2>1. job'[j].pc \in {"find", "ask", "dropCollection", "lookup"} /\ UNCHANGED store /\ edited' = edited
    BY <1>1, StartFacts
  <2> QED
    BY <2>1, GoodStays, NoReliance DEF store, Relying
<1>2. CASE Crash(j)
  BY <1>2, GoodStays, FinishRelied DEF Crash, store
<1>3. CASE Lookup(j)
  <2> DEFINE l == CASE job[j].kind = "edit"   -> "edit"
                    [] job[j].kind = "delete" -> "delVectors"
                    [] OTHER                  -> "list"
  <2>1. l \in {"edit", "delVectors", "list"} /\ l \in Labels /\ UNCHANGED store /\ edited' = edited
    BY <1>3 DEF Lookup, Labels, Calls
  <2>2. Goto(j, l) \/ Finish(j)
    BY <1>3 DEF Lookup
  <2> HIDE DEF l
  <2>3. job'[j].pc \in {"edit", "delVectors", "list", "done"}
    BY <2>1, <2>2, GotoFacts, FinishFacts
  <2> QED
    BY <2>1, <2>3, GoodStays, NoReliance DEF store, Relying
<1>4. CASE ReseedCollection(j)
  <2>1. job'[j].pc = "dropRows"
    BY <1>4, GotoFacts DEF ReseedCollection, Labels, Calls
  <2>2. vec'[d] = NoText_ /\ UNCHANGED <<chunk, cache, edited>>
    BY <1>4 DEF ReseedCollection
  <2> QED
    BY <2>1, <2>2, GoodWithoutVectors, NoReliance DEF Relying
<1>5. CASE ReseedRows(j)
  <2>1. job'[j].pc = "find"
    BY <1>5, GotoFacts DEF ReseedRows, Labels, Calls
  <2>2. job[j].pc = "dropRows" /\ vec' = vec /\ chunk'[d] = NoRows /\ edited'[d] = NoText_
    BY <1>5 DEF ReseedRows, At
  <2>3. vec[d] = NoText_
    BY <2>2 DEF Cleared
  <2> QED
    BY <2>1, <2>2, <2>3, GoodWithoutRows, NoReliance DEF Relying
<1>6. CASE Edit(j)
  BY <1>6, EditGood
<1>7. CASE DeleteVectors(j)
  <2>1. job'[j].pc = "softDelete"
    BY <1>7, GotoFacts DEF DeleteVectors, Labels, Calls
  <2>2. UNCHANGED <<chunk, cache, edited>>
    BY <1>7 DEF DeleteVectors
  <2>3. vec'[d] = vec[d] \/ vec'[d] = NoText_
    <3>1. PICK c \in {"server", "local"} : WriteVectors(c, job[j].doc, NoText_)
      BY <1>7, DocumentsAssumption DEF DeleteVectors
    <3>2. job[j].doc \in Docs
      BY <1>7 DEF DeleteVectors, At, PlacesOK, InPlace, Aimed
    <3> QED
      BY <3>1, <3>2, WriteFacts, NothingFacts
  <2> QED
    BY <2>1, <2>2, <2>3, GoodStays, GoodWithoutVectors, NoReliance DEF Relying
<1>8. CASE SoftDelete(j)
  BY <1>8, GoodStays, FinishRelied DEF SoftDelete
<1>9. CASE AskSearch(j)
  <2>1. UNCHANGED <<row, chunk, vec, local, cache>> /\ edited' = edited
    BY <1>9, AskSearchFacts
  <2>2. Good(d)'
    BY <2>1, GoodStays
  <2>3. CASE Finish(j)
    BY <2>2, <2>3, FinishRelied
  <2>4. ASSUME NEW e \in Docs, NEW i \in Indices, Searched(j, e, i) PROVE Relied(job[j], d)'
    BY <2>1, <2>4 DEF Searched, Relied, UpRely, ReRely
  <2> QED
    BY <1>9, <2>2, <2>3, <2>4, AskSearchFacts
<1>10. CASE AskKeep(j)
  BY <1>10, AskKeepGood
<1> QED
  BY <1>1, <1>2, <1>3, <1>4, <1>5, <1>6, <1>7, <1>8, <1>9, <1>10, UploadGood, ReindexGood DEF Step

LEMMA StepTraced ==
  ASSUME Typed, PlacesOK, Exclusive, ShownOK, RowsOK, TracedOK, NEW j \in Jobs, Step(j), Watch
  PROVE  TracedOK'
<1>1. Proper(j)
  BY StepProper
<1> SUFFICES ASSUME NEW d \in Docs, d \notin overlapped', d \notin degraded', d \notin strayed'
             PROVE  Good(d)' /\ \A k \in Jobs : Relied(job[k], d)'
  BY DEF TracedOK
<1>2. /\ d \notin overlapped /\ d \notin degraded /\ d \notin strayed
      /\ Sole(j, d) \/ Elsewhere(j, d)
  BY <1>1, WatchedStep DEF Proper
<1>3. Good(d)' /\ Relied(job[j], d)'
  BY <1>1, <1>2, StepGood DEF TracedOK, ShownOK, RowsOK, Proper
<1>4. ASSUME NEW k \in Jobs, k # j, Sole(j, d) PROVE Relied(job[k], d)'
  <2>1. job'[k] = job[k] /\ job[k] \in JobSet /\ InPlace(job[k]) /\ d \notin Holds(job[k])
    BY <1>4 DEF Sole, Typed, PlacesOK, Held
  <2>2. job[k].pc \in Aimed => job[k].doc # d
    BY <2>1, Bystander
  <2>3. job'[k].pc \notin Relying \/ job'[k].doc # d
    BY <2>1, <2>2 DEF Relying, Aimed
  <2> QED
    BY <2>3, NoReliance, OtherReliance
<1>5. ASSUME NEW k \in Jobs, k # j, Elsewhere(j, d) PROVE Relied(job[k], d)'
  <2>1. Relied(job[k], d) /\ job'[k] = job[k]
    BY <1>2, <1>5 DEF TracedOK, Elsewhere
  <2> QED
    BY <1>5, <2>1, RelianceStays DEF Elsewhere, Same
<1> QED
  BY <1>2, <1>3, <1>4, <1>5

-----------------------------------------------------------------------------
(* What was edited, in whichever store the vectors are                     *)

(* Chunk rows are made from a file or from vectors only where nothing was  *)
(* edited.                                                                 *)
Making == {"prepare", "vectors", "rows", "backfill"}

Untouched(r, d) == r.pc \in Making /\ r.doc = d => \A i \in Indices : edited[d][i] = NoText

KeptOK == \A d \in Docs \ (overlapped \cup degraded) : Kept(d) /\ \A j \in Jobs : Untouched(job[j], d)

LEMMA KeptStays ==
  ASSUME NEW d, Kept(d), chunk'[d] = chunk[d], edited'[d] = edited[d]
  PROVE  Kept(d)'
BY DEF Kept

LEMMA KeptUnedited ==
  ASSUME NEW d, \A i \in Indices : edited'[d][i] = NoText
  PROVE  Kept(d)' /\ \A j : Untouched(job[j], d)'
BY DEF Kept, Untouched

LEMMA NothingMade == ASSUME NEW j, NEW d, job'[j].pc \notin Making PROVE Untouched(job[j], d)'
BY DEF Untouched

LEMMA StillMaking ==
  ASSUME NEW j, NEW d, Untouched(job[j], d), job[j].pc \in Making, job'[j].doc = job[j].doc,
         edited'[d] = edited[d]
  PROVE  Untouched(job[j], d)'
BY DEF Untouched

LEMMA UploadKept ==
  ASSUME Typed, PlacesOK, NEW j \in Jobs, Upload(j), NEW d \in Docs, RowOK(d), Kept(d),
         Untouched(job[j], d)
  PROVE  Kept(d)' /\ Untouched(job[j], d)'
<1>0. InPlace(job[j]) /\ {"dropRow", "insert", "vectors", "rows", "ready", "fail"} \subseteq Labels
  BY DEF PlacesOK, Labels, Calls
<1>1. CASE UploadFind(j)
  BY <1>1, UploadFindFacts, KeptStays, NothingMade DEF store, Making
<1>2. CASE UploadDropVectors(j)
  <2>1. job'[j].pc = "dropRow" /\ UNCHANGED <<chunk, edited>>
    BY <1>0, <1>2, GotoFacts DEF UploadDropVectors
  <2> QED
    BY <2>1, KeptStays, NothingMade DEF Making
<1>3. CASE UploadDropRow(j)
  <2>1. job'[j].pc \in {"insert", "done"}
    BY <1>0, <1>3, GotoFacts, FinishFacts DEF UploadDropRow
  <2>2. \/ chunk'[d] = chunk[d] /\ edited'[d] = edited[d]
        \/ edited'[d] = NoText_
    BY <1>3 DEF UploadDropRow, Typed
  <2> QED
    BY <2>1, <2>2, KeptStays, KeptUnedited, NothingMade, NothingFacts DEF Making
<1>4. CASE UploadInsert(j)
  <2>1. PICK e \in Docs, n \in 0..MaxChunks, f \in Written : Inserted(j, e, n, f)
    BY <1>4, UploadInsertFacts
  <2>2. job'[j].doc = e /\ UNCHANGED <<chunk, edited>>
    BY <1>4, <2>1, InsertedFacts, UploadInsertFacts
  <2>3. CASE e # d
    BY <2>2, <2>3, KeptStays DEF Untouched
  <2>4. CASE e = d
    <3>1. row[d] = NoRow
      <4>1. Fresh(d) /\ d >= d
        BY <2>1, <2>4, DocumentsAssumption DEF Inserted
      <4> QED
        BY <4>1 DEF Fresh
    <3>2. \A i \in Indices : edited'[d][i] = NoText
      BY <2>2, <3>1, NothingFacts DEF RowOK
    <3> QED
      BY <3>2, KeptUnedited
  <2> QED
    BY <2>3, <2>4
<1>5. CASE UploadPrepare(j)
  <2>1. job[j].pc \in Making /\ UNCHANGED <<chunk, edited>>
    BY <1>5 DEF UploadPrepare, At, Making, store
  <2>2. job'[j].doc = job[j].doc
    BY <1>0, <1>5, GotoFacts DEF UploadPrepare
  <2> QED
    BY <2>1, <2>2, KeptStays, StillMaking
<1>6. CASE UploadVector(j)
  <2>1. job[j].pc \in Making /\ UNCHANGED <<chunk, edited>>
    BY <1>6 DEF UploadVector, At, Making
  <2>2. job'[j].doc = job[j].doc
    BY <1>0, <1>6, GotoFacts, AdvanceFacts, WriteVectorFacts DEF UploadVector
  <2> QED
    BY <2>1, <2>2, KeptStays, StillMaking
<1>7. CASE UploadRows(j)
  <2>1. PICK k \in 0..job[j].size :
          /\ chunk' = ChunkRows(job[j].doc, job[j].read, k)
          /\ Goto(j, IF k = job[j].size THEN "ready" ELSE "fail")
    BY <1>7 DEF UploadRows
  <2>2. job[j].pc = "rows" /\ edited' = edited /\ job'[j].pc \in {"ready", "fail"}
    BY <1>0, <1>7, <2>1, GotoFacts DEF UploadRows, At
  <2>3. CASE job[j].doc = d
    BY <2>2, <2>3, KeptUnedited DEF Untouched, Making
  <2>4. CASE job[j].doc # d
    <3>1. k \in 0..MaxChunks /\ job[j].read \in Written /\ job[j].doc \in Docs
      BY <1>0, <2>2, JobFacts, IndicesFacts DEF InPlace, Aimed, Typed
    <3>2. chunk'[d] = chunk[d]
      BY <2>1, <2>4, <3>1, ChunkRowsFacts
    <3> QED
      BY <2>2, <3>2, KeptStays, NothingMade DEF Making
  <2> QED
    BY <2>3, <2>4
<1>8. CASE UploadReady(j) \/ UploadFail(j)
  <2>1. job'[j].pc \in {"fail", "done"} /\ UNCHANGED <<chunk, edited>>
    BY <1>0, <1>8, GotoFacts, FinishFacts DEF UploadReady, UploadFail
  <2> QED
    BY <2>1, KeptStays, NothingMade DEF Making
<1> QED
  BY <1>1, <1>2, <1>3, <1>4, <1>5, <1>6, <1>7, <1>8 DEF Upload

LEMMA ReindexKept ==
  ASSUME Typed, PlacesOK, NEW j \in Jobs, Reindex(j), NEW d \in Docs, d \notin degraded',
         Cleared(job[j], d), Kept(d), Untouched(job[j], d)
  PROVE  Kept(d)' /\ Untouched(job[j], d)'
<1>0. /\ InPlace(job[j])
      /\ {"backfill", "relist", "mark", "done", "clear", "succeed", "refail"} \subseteq Labels
  BY DEF PlacesOK, Labels, Calls
<1>1. CASE ListChunks(j)
  <2>1. job[j].pc = "list" /\ job[j].pc \in Working /\ UNCHANGED <<chunk, edited>>
    BY <1>1 DEF ListChunks, At, Working, Aimed, store
  <2>2. Page(job[j].doc) \in Written
    BY <1>0, <2>1, PageFacts DEF InPlace, Working
  <2>3. CASE AfterList(j, Page(job[j].doc))
    <3>1. job'[j].pc \in {"mark", "done"}
      BY <2>2, <2>3, AfterListFacts
    <3> QED
      BY <2>1, <3>1, KeptStays, NothingMade DEF Making
  <2>4. CASE Goto(j, "backfill") /\ (job[j].doc = d => Stored(d) = {})
    <3>1. job'[j].doc = job[j].doc
      BY <1>0, <2>4, GotoFacts
    <3>2. ASSUME job[j].doc = d, NEW i \in Indices PROVE edited'[d][i] = NoText
      BY <2>1, <2>4, <3>2, NothingFacts DEF Stored, Kept
    <3> QED
      BY <2>1, <3>1, <3>2, KeptStays DEF Untouched
  <2>5. \/ AfterList(j, Page(job[j].doc))
        \/ Goto(j, "backfill") /\ (job[j].doc = d => Stored(d) = {})
    BY <1>1, <2>1 DEF ListChunks, Cleared
  <2> QED
    BY <2>3, <2>4, <2>5
<1>2. CASE Backfill(j)
  <2>1. /\ edited' = edited /\ job[j].pc = "backfill"
        /\ \A e \in Docs : e # job[j].doc => chunk'[e] = chunk[e]
    BY <1>2, BackfillFacts DEF Backfilled, At
  <2>2. job'[j].pc \in {"relist", "done"}
    BY <1>0, <1>2, BackfillFacts, GotoFacts, FinishFacts
  <2>3. CASE job[j].doc = d
    BY <2>1, <2>3, KeptUnedited DEF Untouched, Making
  <2>4. CASE job[j].doc # d
    BY <2>1, <2>2, <2>4, KeptStays, NothingMade DEF Making
  <2> QED
    BY <2>3, <2>4
<1>3. CASE Relist(j)
  <2>1. job[j].pc = "relist" /\ UNCHANGED <<chunk, edited>>
    BY <1>3 DEF Relist, At, store
  <2>2. Page(job[j].doc) \in Written /\ NoText_ \in Written
    BY <1>0, <2>1, PageFacts, NothingFacts DEF InPlace, Aimed
  <2>3. AfterList(j, NoText_) \/ AfterList(j, Page(job[j].doc))
    BY <1>3 DEF Relist
  <2>4. job'[j].pc \in {"mark", "done"}
    BY <2>2, <2>3, AfterListFacts
  <2> QED
    BY <2>1, <2>4, KeptStays, NothingMade DEF Making
<1>4. CASE ReindexMark(j)
  <2>1. job'[j].pc = "upsert" /\ UNCHANGED <<chunk, edited>>
    BY <1>4, ReindexMarkFacts DEF ReindexMark
  <2> QED
    BY <2>1, KeptStays, NothingMade DEF Making
<1>5. CASE ReindexVector(j)
  <2>1. UNCHANGED <<chunk, edited>> /\ job[j].pc = "upsert"
    BY <1>5 DEF ReindexVector, At
  <2>2. job'[j].pc \in {"upsert", "clear", "refail"}
    BY <1>0, <1>5, <2>1, GotoFacts, AdvanceFacts, WriteVectorFacts DEF ReindexVector
  <2> QED
    BY <2>1, <2>2, KeptStays, NothingMade DEF Making
<1>6. CASE ReindexClear(j)
  <2>1. job'[j].pc = "succeed" /\ UNCHANGED <<chunk, edited>>
    BY <1>0, <1>6, GotoFacts DEF ReindexClear
  <2> QED
    BY <2>1, KeptStays, NothingMade DEF Making
<1>7. CASE ReindexSucceed(j)
  <2>1. edited' = edited /\ Finish(j) /\ (chunk'[d] = chunk[d] \/ chunk'[d] = Readied(d))
    BY <1>7, ReindexSucceedFacts DEF Typed
  <2>2. \A i \in Indices : chunk'[d][i].text = chunk[d][i].text
    BY <2>1, ReadiedFacts
  <2>3. Kept(d)'
    BY <2>1, <2>2 DEF Kept
  <2> QED
    BY <2>1, <2>3, FinishFacts, NothingMade DEF Making
<1>8. CASE ReindexFail(j)
  <2>1. job'[j].pc = "done" /\ UNCHANGED <<chunk, edited>>
    BY <1>8, FinishFacts DEF ReindexFail
  <2> QED
    BY <2>1, KeptStays, NothingMade DEF Making
<1> QED
  BY <1>1, <1>2, <1>3, <1>4, <1>5, <1>6, <1>7, <1>8 DEF Reindex

LEMMA StepKept ==
  ASSUME Typed, PlacesOK, NEW j \in Jobs, Step(j), NEW d \in Docs, d \notin degraded', RowOK(d),
         Cleared(job[j], d), Kept(d), Untouched(job[j], d)
  PROVE  Kept(d)' /\ Untouched(job[j], d)'
<1>0. {"edit", "delVectors", "list", "dropRows", "find", "softDelete"} \subseteq Labels
  BY DEF Labels, Calls
<1>1. CASE Start(j)
  <2>1. job'[j].pc \in {"find", "ask", "dropCollection", "lookup"} /\ UNCHANGED <<chunk, edited>>
    BY <1>1, StartFacts DEF store
  <2> QED
    BY <2>1, KeptStays, NothingMade DEF Making
<1>2. CASE Crash(j) \/ SoftDelete(j) \/ AskKeep(j)
  <2>1. job'[j].pc = "done" /\ UNCHANGED <<chunk, edited>>
    BY <1>2, FinishFacts DEF Crash, SoftDelete, AskKeep, store
  <2> QED
    BY <2>1, KeptStays, NothingMade DEF Making
<1>3. CASE Lookup(j)
  <2> DEFINE l == CASE job[j].kind = "edit"   -> "edit"
                    [] job[j].kind = "delete" -> "delVectors"
                    [] OTHER                  -> "list"
  <2>1. l \in {"edit", "delVectors", "list"} /\ UNCHANGED <<chunk, edited>>
    BY <1>3 DEF Lookup, store
  <2>2. Goto(j, l) \/ Finish(j)
    BY <1>3 DEF Lookup
  <2> HIDE DEF l
  <2>3. job'[j].pc \in {"edit", "delVectors", "list", "done"}
    BY <1>0, <2>1, <2>2, GotoFacts, FinishFacts
  <2> QED
    BY <2>1, <2>3, KeptStays, NothingMade DEF Making
<1>4. CASE ReseedCollection(j) \/ DeleteVectors(j)
  <2>1. job'[j].pc \in {"dropRows", "softDelete"} /\ UNCHANGED <<chunk, edited>>
    BY <1>0, <1>4, GotoFacts DEF ReseedCollection, DeleteVectors
  <2> QED
    BY <2>1, KeptStays, NothingMade DEF Making
<1>5. CASE ReseedRows(j)
  <2>1. edited'[d] = NoText_
    BY <1>5 DEF ReseedRows
  <2> QED
    BY <2>1, KeptUnedited, NothingFacts
<1>6. CASE Edit(j)
  <2>1. job'[j].pc = "done" /\ job[j].doc \in Docs
    BY <1>6, EditFacts, FinishFacts DEF At, PlacesOK, InPlace, Aimed
  <2>2. CASE UNCHANGED <<chunk, edited, row>>
    BY <2>1, <2>2, KeptStays, NothingMade DEF Making
  <2>3. ASSUME NEW i \in Indices, NEW t \in Texts, Saved(job[j].doc, i, t) PROVE Kept(d)'
    <3>1. CASE job[j].doc # d
      BY <2>1, <2>3, <3>1, SavedFacts, KeptStays
    <3>2. CASE job[j].doc = d
      <4>1. /\ chunk'[d][i].text = t /\ edited'[d][i] = t
            /\ \A k \in Indices : k # i => chunk'[d][k] = chunk[d][k] /\ edited'[d][k] = edited[d][k]
        BY <2>3, <3>2, SavedFacts
      <4> QED
        BY <4>1 DEF Kept
    <3> QED
      BY <3>1, <3>2
  <2> QED
    BY <1>6, <2>1, <2>2, <2>3, EditFacts, NothingMade DEF Making
<1>7. CASE AskSearch(j)
  <2>1. job'[j].pc \in {"keep", "done"} /\ UNCHANGED <<chunk, edited>>
    BY <1>7, AskSearchFacts, FinishFacts DEF Searched
  <2> QED
    BY <2>1, KeptStays, NothingMade DEF Making
<1> QED
  BY <1>1, <1>2, <1>3, <1>4, <1>5, <1>6, <1>7, UploadKept, ReindexKept DEF Step

LEMMA StepKeptOK ==
  ASSUME Typed, PlacesOK, Exclusive, ShownOK, RowsOK, KeptOK, NEW j \in Jobs, Step(j), Watch
  PROVE  KeptOK'
<1>1. Proper(j)
  BY StepProper
<1> SUFFICES ASSUME NEW d \in Docs, d \notin overlapped', d \notin degraded'
             PROVE  Kept(d)' /\ \A k \in Jobs : Untouched(job[k], d)'
  BY DEF KeptOK
<1>2. d \notin overlapped /\ d \notin degraded /\ (Sole(j, d) \/ Elsewhere(j, d))
  BY <1>1, WatchedStep DEF Proper
<1>3. Kept(d)' /\ Untouched(job[j], d)'
  BY <1>2, StepKept DEF KeptOK, ShownOK, RowsOK
<1>4. ASSUME NEW k \in Jobs, k # j, Sole(j, d) PROVE Untouched(job[k], d)'
  <2>1. job'[k] = job[k] /\ job[k] \in JobSet /\ InPlace(job[k]) /\ d \notin Holds(job[k])
    BY <1>4 DEF Sole, Typed, PlacesOK, Held
  <2>2. job[k].pc \in Aimed => job[k].doc # d
    BY <2>1, Bystander
  <2> QED
    BY <2>1, <2>2 DEF Untouched, Making, Aimed
<1>5. ASSUME NEW k \in Jobs, k # j, Elsewhere(j, d) PROVE Untouched(job[k], d)'
  BY <1>2, <1>5 DEF KeptOK, Elsewhere, Same, Untouched
<1> QED
  BY <1>2, <1>3, <1>4, <1>5

-----------------------------------------------------------------------------
(* The invariant and the theorems                                          *)

DocumentsInv == Typed /\ PlacesOK /\ Exclusive /\ ShownOK /\ RowsOK /\ TracedOK /\ KeptOK

LEMMA InitInv == Init => DocumentsInv
<1> SUFFICES ASSUME Init PROVE DocumentsInv
  OBVIOUS
<1>1. PICK d \in Docs, name \in Names, t \in Texts, legacy \in BOOLEAN :
        /\ \A e \in Docs : d <= e
        /\ row   = [e \in Docs |-> IF e = d THEN [status |-> "ready", name |-> name,
                                     count |-> MaxChunks, deleted |-> FALSE] ELSE NoRow]
        /\ vec   = [e \in Docs |-> IF e = d THEN [i \in Indices |-> t] ELSE NoText_]
        /\ chunk = [e \in Docs |-> IF e = d /\ ~legacy
                      THEN [i \in Indices |-> [text |-> t, status |-> "ready"]] ELSE NoRows]
        /\ cache = {}
        /\ job   = [j \in Jobs |-> Idle]
        /\ edited = [e \in Docs |-> NoText_]
        /\ local = [e \in Docs |-> NoText_]
        /\ overlapped = {} /\ degraded = {} /\ strayed = {}
  BY Zenon DEF Init
<1> DEFINE first == [status |-> "ready", name |-> name, count |-> MaxChunks, deleted |-> FALSE]
           ready == [text |-> t, status |-> "ready"]
<1>2. first \in RowSet /\ first.status = "ready" /\ ~first.deleted
  BY IndicesFacts DEF RowSet
<1>3. ready \in ChunkSet /\ ready.text = t /\ ready.status = "ready"
  BY DEF ChunkSet
<1>4. /\ row = [e \in Docs |-> IF e = d THEN first ELSE NoRow]
      /\ chunk = [e \in Docs |-> IF e = d /\ ~legacy THEN [i \in Indices |-> ready] ELSE NoRows]
  BY <1>1
<1> HIDE DEF first, ready
<1>5. Typed
  <2>1. row \in [Docs -> RowSet]
    BY <1>2, <1>4, NothingFacts
  <2>2. chunk \in [Docs -> [Indices -> ChunkSet]]
    BY <1>3, <1>4, NothingFacts
  <2>3. vec \in [Docs -> Written] /\ local \in [Docs -> Written] /\ edited \in [Docs -> Written]
    BY <1>1, NothingFacts DEF Written
  <2>4. job \in [Jobs -> JobSet] /\ cache \subseteq Docs \X Indices \X Texts
    BY <1>1, NothingFacts
  <2> QED
    BY <1>1, <2>1, <2>2, <2>3, <2>4 DEF Typed
<1>6. \A j \in Jobs : job[j].pc = "idle" /\ job[j].pos = 1 /\ Holds(job[j]) = {}
  BY <1>1, NothingFacts DEF Holds
<1>7. PlacesOK
  BY <1>6 DEF PlacesOK, InPlace, Aimed
<1>8. Exclusive
  BY <1>6 DEF Exclusive, Held
<1>9. ASSUME NEW e \in Docs PROVE Shown(e) /\ RowOK(e) /\ Good(e)
  <2>1. \A i \in Indices : edited[e][i] = NoText
    BY <1>1, NothingFacts
  <2>2. CASE e # d
    <3>1. vec[e] = NoText_ /\ \A i \in Indices : vec[e][i] = NoText /\ chunk[e][i] = NoChunk
      BY <1>1, <1>4, <2>2, NothingFacts
    <3>2. Shown(e) /\ RowOK(e)
      BY <2>1, <3>1 DEF Shown, RowOK
    <3>3. Ordered(e) /\ Kept(e) /\ Agreed(e)
      BY <1>1, <2>1, <3>1, NothingFacts DEF Ordered, Kept, Agreed
    <3> QED
      BY <3>2, <3>3 DEF Good
  <2>3. CASE e = d
    <3>1. row[e] = first /\ \A i \in Indices : vec[e][i] = t /\ chunk[e][i] \in {ready, NoChunk}
      BY <1>1, <1>4, <2>3, NothingFacts
    <3>2. t \in Texts /\ t # NoText
      BY DocumentsAssumption
    <3>3. Shown(e) /\ RowOK(e)
      BY <1>2, <1>3, <3>1, <3>2 DEF Shown, RowOK, Alive
    <3>4. \A i \in Indices : chunk[e][i] # NoChunk <=> ~legacy
      BY <1>3, <1>4, <2>3, <3>2, NothingFacts
    <3>5. Ordered(e) /\ Kept(e)
      BY <2>1, <3>1, <3>2, <3>4 DEF Ordered, Kept
    <3>6. Agreed(e)
      BY <1>1, <1>3, <3>1, NothingFacts DEF Agreed
    <3> QED
      BY <3>3, <3>5, <3>6 DEF Good
  <2> QED
    BY <2>2, <2>3
<1>10. ASSUME NEW e \in Docs, NEW j \in Jobs
       PROVE  Cleared(job[j], e) /\ Relied(job[j], e) /\ Untouched(job[j], e)
  BY <1>6 DEF Cleared, Working, Aimed, Relied, UpRely, ReRely, Untouched, Making
<1> QED
  BY <1>5, <1>7, <1>8, <1>9, <1>10 DEF DocumentsInv, ShownOK, RowsOK, TracedOK, KeptOK, Good

LEMMA NextInv == DocumentsInv /\ [Next]_vars => DocumentsInv'
<1> SUFFICES ASSUME DocumentsInv, [Next]_vars PROVE DocumentsInv'
  OBVIOUS
<1>1. CASE UNCHANGED vars
  <2>1. Typed' /\ PlacesOK'
    BY <1>1 DEF vars, store, DocumentsInv, Typed, PlacesOK
  <2>2. Exclusive' /\ ShownOK'
    BY <1>1 DEF vars, store, DocumentsInv, Exclusive, Held, ShownOK, Shown, Cleared, Alive
  <2>3. RowsOK'
    BY <1>1 DEF vars, store, DocumentsInv, RowsOK, RowOK
  <2>4. ASSUME NEW d \in Docs, Good(d) PROVE Good(d)'
    BY <1>1, <2>4, GoodStays DEF vars, store
  <2>5. ASSUME NEW d \in Docs, NEW j \in Jobs, Relied(job[j], d) PROVE Relied(job[j], d)'
    BY <1>1, <2>5, RelianceStays DEF vars, store
  <2>6. TracedOK'
    BY <1>1, <2>4, <2>5 DEF vars, store, DocumentsInv, TracedOK
  <2>7. KeptOK'
    BY <1>1 DEF vars, store, DocumentsInv, KeptOK, Kept, Untouched
  <2> QED
    BY <2>1, <2>2, <2>3, <2>6, <2>7 DEF DocumentsInv
<1>2. ASSUME NEW j \in Jobs, Step(j), Watch PROVE DocumentsInv'
  <2>1. Proper(j) /\ InPlace(job'[j])
    BY <1>2, StepProper, StepPlaces DEF DocumentsInv
  <2>2. Typed'
    BY <1>2, <2>1 DEF Proper, StoreTyped, Moved, Typed, Watch, DocumentsInv
  <2>3. PlacesOK'
    BY <2>1 DEF Proper, Moved, PlacesOK, DocumentsInv
  <2>4. Exclusive' /\ ShownOK' /\ RowsOK' /\ TracedOK' /\ KeptOK'
    BY <1>2, WatchExclusive, StepShown, StepRows, StepTraced, StepKeptOK DEF DocumentsInv
  <2> QED
    BY <2>2, <2>3, <2>4 DEF DocumentsInv
<1> QED
  BY <1>1, <1>2 DEF Next, Step

LEMMA AlwaysDocumentsInv == Spec => []DocumentsInv
BY InitInv, NextInv, PTL DEF Spec

(* The values of the variables stay in their sets: in particular a request *)
(* is always before one of the calls of its handler, and an answer is kept *)
(* under a document, a place and a text.                                   *)
THEOREM TypeCorrect == Spec => []TypeOK
<1>1. DocumentsInv => TypeOK
  BY TypedIsTypeOK DEF DocumentsInv
<1> QED
  BY <1>1, AlwaysDocumentsInv, PTL

(* Wherever a request dies and whichever write raises, a document has no   *)
(* vectors on the Chroma server that the admin cannot see, if no two       *)
(* requests held it at once, none worked on it in the local store, and no  *)
(* reseed failed to delete its collection.                                 *)
THEOREM NoOrphanVectors == Spec => []VectorsHaveADocument
<1>1. DocumentsInv => VectorsHaveADocument
  BY DEF DocumentsInv, ShownOK, Shown, VectorsHaveADocument
<1> QED
  BY <1>1, AlwaysDocumentsInv, PTL

(* No reindex and no backfill, from either store, undoes what the admin    *)
(* saved.                                                                  *)
THEOREM EditsSurvive == Spec => []EditSurvives
<1>1. DocumentsInv => EditSurvives
  BY DEF DocumentsInv, KeptOK, Kept, EditSurvives
<1> QED
  BY <1>1, AlwaysDocumentsInv, PTL

(* Once an edit was indexed, the answers made from the text it replaced    *)
(* are gone.                                                               *)
THEOREM AnswersFollowEdits == Spec => []KeptAnswerIsCurrent
<1>1. DocumentsInv => KeptAnswerIsCurrent
  BY DEF DocumentsInv, TracedOK, Good, Agreed, KeptAnswerIsCurrent
<1> QED
  BY <1>1, AlwaysDocumentsInv, PTL
=============================================================================
