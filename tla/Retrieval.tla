----------------------------- MODULE Retrieval ------------------------------
(***************************************************************************)
(* How the FAQ branch finds what it answers from (HybridRetriever over     *)
(* Chroma and BM25Service, then the gates of faq_branch): two rankings,    *)
(* one of vectors and one of an index in memory that is built once, are    *)
(* fused by reciprocal ranks.  The store changes under it: Documents says  *)
(* how; here vectors come and go one by one.                               *)
(*                                                                         *)
(* Chunks are fused under their chunk_index, which two documents of one    *)
(* tenant share.  Left out: the answer cache (in Documents), the text of   *)
(* the question, the picture gate, scores other than their order.          *)
(***************************************************************************)
EXTENDS Integers, Sequences, FiniteSets, SequencesExt

CONSTANTS
  Chunks,       \* what documents may hold: [doc, index, version, protected]
  TopK,         \* _TOP_K: 5 in the code
  TopDense, TopBm25,   \* 10 each
  RrfK,         \* DEFAULT_RRF_K: 60
  Scale,        \* a common denominator of the shares 1 / (RrfK + rank)
  MaxAsked, MaxChanges   \* bounds on questions, and on changes of the store

Places == IF TopDense > TopBm25 THEN TopDense ELSE TopBm25
Ranks  == 1..Places

ASSUME RetrievalAssumption ==
  /\ TopK \in Nat \ {0} /\ TopDense \in Nat \ {0} /\ TopBm25 \in Nat \ {0} /\ RrfK \in Nat
  /\ Scale \in Nat \ {0} /\ \A r \in Ranks : Scale % (RrfK + r) = 0
  /\ MaxAsked \in Nat /\ MaxChanges \in Nat

VARIABLES
  store,        \* the vectors of the tenant
  index,        \* _cache of BM25Service: the chunks it was built from
  step,         \* where the question is
  dense,        \* its ranking by distance
  near,         \* how many of these are within the threshold
  listing,      \* what list_chunks answered
  fused,        \* the entries, best first once ranked
  answer,       \* what the branch answers, and the texts it answers from
  prewarm,      \* the listing that prewarm_all_tenants awaits, or has
  live,         \* history: vectors stored at some time since the question
  asked, changes

retrievalVars == <<store, index, step, dense, near, listing, fused, answer, prewarm, live,
                   asked, changes>>

NoText   == [doc |-> "none", index |-> 0, version |-> 0, protected |-> FALSE]
NoAnswer == [kind |-> "none", texts |-> {}]
NoList   == {NoText}

RetrievalInit ==
  /\ store \in SUBSET Chunks /\ IsFiniteSet(store)
  /\ \A a, b \in store : a.doc = b.doc /\ a.index = b.index => a = b
  /\ index = {} /\ step = "idle"
  /\ dense = <<>> /\ near = 0 /\ listing = NoList /\ fused = <<>> /\ answer = NoAnswer
  /\ prewarm = NoList /\ live = {} /\ asked = 0 /\ changes = 0

-----------------------------------------------------------------------------
(* The store: an upsert replaces the vector of the same id.                *)
Change ==
  /\ changes < MaxChanges
  /\ \/ \E c \in Chunks \ store :
          store' = {d \in store : d.doc # c.doc \/ d.index # c.index} \cup {c}
     \/ \E c \in store : store' = store \ {c}
  /\ live' = IF step = "idle" THEN live ELSE live \cup store'
  /\ changes' = changes + 1
  /\ UNCHANGED <<index, step, dense, near, listing, fused, answer, prewarm, asked>>

(* _ensure_bm25 at the start: the listing is awaited, then the index built.*)
(* An empty corpus leaves none; an index that is there is kept.            *)
PrewarmList ==
  /\ prewarm = NoList /\ index = {} /\ asked = 0
  /\ prewarm' = store
  /\ UNCHANGED <<store, index, step, dense, near, listing, fused, answer, live, asked, changes>>

PrewarmBuild ==
  /\ prewarm # NoList
  /\ index' = prewarm
  /\ prewarm' = NoList
  /\ UNCHANGED <<store, step, dense, near, listing, fused, answer, live, asked, changes>>

-----------------------------------------------------------------------------
Orders(S, n) == {s \in [1..n -> S] : \A i, j \in 1..n : s[i] = s[j] => i = j}
Least(a, b)  == IF a < b THEN a ELSE b

(* search_with_meta: the nearest vectors, and all of them if there are few.*)
Ask ==
  /\ step = "idle" /\ asked < MaxAsked
  /\ asked' = asked + 1
  /\ live' = store
  /\ \E s \in Orders(store, Least(TopDense, Cardinality(store))) :
       /\ dense' = s
       /\ near' \in 0..Len(s)
  /\ fused' = <<>> /\ answer' = NoAnswer
  /\ step' = IF index = {} THEN "listing" ELSE "searching"
  /\ UNCHANGED <<store, index, listing, prewarm, changes>>

(* _ensure_bm25 within a question.                                         *)
List ==
  /\ step = "listing"
  /\ listing' = store
  /\ step' = "building"
  /\ UNCHANGED <<store, index, dense, near, fused, answer, prewarm, live, asked, changes>>

Build ==
  /\ step = "building"
  /\ index' = listing
  /\ listing' = NoList
  /\ step' = "searching"
  /\ UNCHANGED <<store, dense, near, fused, answer, prewarm, live, asked, changes>>

-----------------------------------------------------------------------------
(* 1 / (k + rank), on the common denominator.                              *)
Share(r) == Scale \div (RrfK + r)

(* The hits of BM25 are chunk indices; an index two documents share may be *)
(* hit twice.                                                              *)
InDense(ci)      == {r \in DOMAIN dense : dense[r].index = ci}
InBm25(hits, ci) == {r \in DOMAIN hits : hits[r].index = ci}

Sum(S) ==
  LET upto[n \in Ranks] == (IF n = 1 THEN 0 ELSE upto[n - 1]) + (IF n \in S THEN Share(n) ELSE 0)
  IN  upto[Places]

Latest(S) == CHOOSE r \in S : \A t \in S : t <= r

Entry_Overwritten(hits, ci) ==
  LET d == InDense(ci)  b == InBm25(hits, ci) IN
  [index |-> ci,
   text  |-> IF d = {} THEN NoText ELSE dense[Latest(d)],
   measured |-> d # {}, near |-> d # {} /\ Latest(d) <= near,
   words |-> b # {},
   score |-> IF b = {} THEN Share(Latest(d)) ELSE Share(Latest(b)),
   twice |-> d # {} /\ b # {}, once |-> Cardinality(d) + Cardinality(b) = 1]

(* A later vector with the same index replaces the earlier one; a hit in   *)
(* the index adds to what is there.                                        *)
Entry(hits, ci) ==
  LET d == InDense(ci)  b == InBm25(hits, ci) IN
  [index |-> ci,
   text  |-> IF d = {} THEN NoText ELSE dense[Latest(d)],
   measured |-> d # {}, near |-> d # {} /\ Latest(d) <= near,
   words |-> b # {},
   score |-> (IF d = {} THEN 0 ELSE Share(Latest(d))) + Sum(b),
   twice |-> d # {} /\ b # {}, once |-> Cardinality(d) + Cardinality(b) = 1]

Found(hits) == {c.index : c \in ToSet(dense) \cup ToSet(hits)}

Earliest(S) == CHOOSE r \in S : \A t \in S : r <= t

(* Equal scores stay in the order in which the entries were made.          *)
Ranked(hits) ==
  LET found == Found(hits)
      score(ci) == Entry(hits, ci).score
      made(ci)  == IF InDense(ci) # {} THEN Earliest(InDense(ci))
                                       ELSE Len(dense) + Earliest(InBm25(hits, ci))
      before(a, b) == \/ score(a) > score(b)
                      \/ score(a) = score(b) /\ made(a) < made(b)
      ranked(o) == \A i, j \in DOMAIN o : i < j => before(o[i], o[j])
  IN  {[i \in DOMAIN o |-> Entry(hits, o[i])] :
         o \in {q \in [1..Cardinality(found) -> found] : ranked(q)}}

(* BM25Service.search and the two loops of search_with_embedding.          *)
Fuse ==
  /\ step = "searching"
  /\ \E n \in 0..Least(TopBm25, Cardinality(index)) : \E hits \in Orders(index, n) :
       fused' \in Ranked(hits)
  /\ dense' = <<>> /\ near' = 0
  /\ step' = IF \E i \in DOMAIN fused' : fused'[i].text = NoText THEN "enriching" ELSE "gates"
  /\ UNCHANGED <<store, index, listing, answer, prewarm, live, asked, changes>>

Blank == {i \in DOMAIN fused : fused[i].text = NoText}

Filled(text) ==
  [i \in DOMAIN fused |-> IF i \in Blank THEN [fused[i] EXCEPT !.text = text[i]] ELSE fused[i]]

MayFill(S, i) ==
  LET same == {c \in S : c.index = fused[i].index} IN IF same = {} THEN {NoText} ELSE same

Enrich_FromIndex ==
  /\ step = "enriching"
  /\ \E text \in [Blank -> index \cup {NoText}] :
       /\ \A i \in Blank : text[i] \in MayFill(index, i)
       /\ fused' = Filled(text)
  /\ step' = "gates"
  /\ UNCHANGED <<store, index, dense, near, listing, answer, prewarm, live, asked, changes>>

(* _enrich_bm25_only: the vectors are listed again; of those that share an *)
(* index the last one is taken, and an index that is gone stays without    *)
(* text.                                                                   *)
Enrich ==
  /\ step = "enriching"
  /\ \E text \in [Blank -> store \cup {NoText}] :
       /\ \A i \in Blank : text[i] \in MayFill(store, i)
       /\ fused' = Filled(text)
  /\ step' = "gates"
  /\ UNCHANGED <<store, index, dense, near, listing, answer, prewarm, live, asked, changes>>

-----------------------------------------------------------------------------
(* faq_branch: what is near, or has the words, goes to the model, unless   *)
(* some of it is for callers who have proved who they are, or a chunk that *)
(* the distances found, near or not, is about a product that the caller    *)
(* did not name and must photograph.                                       *)
Results == {fused[i] : i \in {k \in DOMAIN fused : k <= TopK}}
Related == {r \in Results : r.near \/ r.words}

Polite(kind) == [kind |-> kind, texts |-> {}]

Gates ==
  /\ step = "gates"
  /\ IF \E r \in Related : r.text.protected THEN answer' = Polite("auth")
     ELSE \/ answer' = Polite("vision") /\ \E r \in Results : r.measured
          \/ IF Related = {} THEN answer' = Polite("no result")
             ELSE answer' = [kind |-> "text", texts |-> {r.text : r \in Related}]
  /\ step' = "idle" /\ fused' = <<>>
  /\ UNCHANGED <<store, index, dense, near, listing, prewarm, live, asked, changes>>

RetrievalNext ==
  \/ Change \/ PrewarmList \/ PrewarmBuild
  \/ Ask \/ List \/ Build \/ Fuse \/ Enrich \/ Gates

-----------------------------------------------------------------------------
(* What both rankings have stands before whatever only one of them has,    *)
(* be it the first there: with the constant and the lengths of the         *)
(* rankings that the code uses, two low places outweigh one high place.    *)
BothBeatOne ==
  \A i, j \in DOMAIN fused : fused[i].twice /\ fused[j].once => i < j

(* The texts an answer is made from were all stored at some time since the *)
(* question was asked, although the index that led to them may be older    *)
(* than any of them and index numbers are shared between documents.        *)
TextIsCurrent == answer.texts \ {NoText} \subseteq live
=============================================================================
