------------------------------ MODULE Chunking ------------------------------
(***************************************************************************)
(* What PDFProcessor.process does with one file between the row it inserts *)
(* and the row it marks ready (both in Documents): the tree that the PDF   *)
(* reader returns is flattened, grouped into chunks, short chunks are      *)
(* joined, and four rounds of model calls rewrite and label the chunks,    *)
(* which are then zipped with their vectors and labels and stored.         *)
(*                                                                         *)
(* A text is its length and the numbers in it: what the code measures.     *)
(* "els", the elements a chunk was built from, is what the code joins into *)
(* the text of the chunk; the model call may return any text at all.       *)
(*                                                                         *)
(* Left out: bounding boxes after the sort, titles, keywords, categories.  *)
(***************************************************************************)
EXTENDS Integers, Sequences, FiniteSets, SequencesExt

CONSTANTS
  Files,        \* trees the PDF reader may return: sequences of kids
  MinChars, MaxChars,         \* 200 and 800 characters
  PolishBatch, EnrichBatch,   \* 5 and 10 chunks per call
  Replies,      \* texts that the model may return
  Extra         \* bound: items a reply may have beyond the batch

Measured == [size: Nat, nums: SUBSET Nat]

ASSUME ChunkingAssumption ==
  /\ \A f \in Files : f \in Seq([type: STRING, level: Nat, page: Nat, top: Int,
                                 size: Nat, nums: SUBSET Nat])
  /\ MinChars \in Nat /\ MaxChars \in Nat /\ Extra \in Nat
  /\ PolishBatch \in Nat \ {0} /\ EnrichBatch \in Nat \ {0}
  /\ Replies \subseteq Measured

VARIABLES
  phase,    \* "parse", "group", "merge", "tables", "polish", "enrich", "store", "stored", "failed"
  kids,     \* what the reader returned
  elems,    \* the flat list
  pos,      \* the next element or chunk, or the next section of the polish loop
  stack,    \* headings the next text is under: indices of elems
  section,  \* texts not yet in a chunk: indices of elems
  chunks,
  merged,   \* the list that _merge_short builds
  metas,    \* labels, one per chunk labelled so far
  stored    \* chunks that were written

vars == <<phase, kids, elems, pos, stack, section, chunks, merged, metas, stored>>

-----------------------------------------------------------------------------
(* _flatten_json: by page, then from the top down, otherwise as given;     *)
(* kids of other types and kids without text are dropped.                  *)
Above(ks, i, j) ==
  LET a == ks[i]  b == ks[j] IN
  \/ a.page < b.page
  \/ a.page = b.page /\ a.top > b.top
  \/ a.page = b.page /\ a.top = b.top /\ i < j

Kept(k) == k.type \in {"heading", "paragraph", "list", "table"} /\ k.size > 0

FlattenJson(ks) ==
  LET keep == {i \in DOMAIN ks : Kept(ks[i])}
      sorted(s) == \A m, n \in DOMAIN s : m < n => Above(ks, s[m], s[n])
  IN  {[n \in DOMAIN s |-> ks[s[n]]] : s \in {t \in [1..Cardinality(keep) -> keep] : sorted(t)}}

(* A heading without a level is below all others.                          *)
Level(i) == IF elems[i].level = 0 THEN 99 ELSE elems[i].level

-----------------------------------------------------------------------------
(* _group_into_chunks                                                      *)

(* Texts are joined with an empty line.                                    *)
Joined(a, b) == [size |-> a.size + b.size + 2, nums |-> a.nums \cup b.nums]
TextOf(i)    == [size |-> elems[i].size, nums |-> elems[i].nums]
Running(s)   == FoldLeft(LAMBDA n, i : n + elems[i].size, 0, s)

TextOfAll(s) ==
  LET upto[n \in 1..Len(s)] ==
        IF n = 1 THEN TextOf(s[1]) ELSE Joined(upto[n - 1], TextOf(s[n]))
  IN  upto[Len(s)]

Chunk(type, s) == [type |-> type, path |-> stack, els |-> s, text |-> TextOfAll(s)]

FlushSection(s) == IF s = <<>> THEN chunks ELSE Append(chunks, Chunk("section", s))

Deepest(S) == CHOOSE k \in S : \A m \in S : m <= k

Enter_KeepsSiblings(i) ==
  LET above == {k \in DOMAIN stack : Level(stack[k]) <= Level(i)}
  IN  Append(SubSeq(stack, 1, Deepest({0} \cup above)), i)

(* Headings of the same depth or deeper are left.                          *)
Enter(i) ==
  LET above == {k \in DOMAIN stack : Level(stack[k]) < Level(i)}
  IN  Append(SubSeq(stack, 1, Deepest({0} \cup above)), i)

GroupHeading ==
  /\ phase = "group" /\ pos <= Len(elems) /\ elems[pos].type = "heading"
  /\ chunks' = FlushSection(section)
  /\ section' = <<>>
  /\ stack' = Enter(pos)
  /\ pos' = pos + 1
  /\ UNCHANGED <<phase, kids, elems, merged, metas, stored>>

GroupTable ==
  /\ phase = "group" /\ pos <= Len(elems) /\ elems[pos].type = "table"
  /\ chunks' = Append(FlushSection(section), Chunk("table", <<pos>>))
  /\ section' = <<>>
  /\ pos' = pos + 1
  /\ UNCHANGED <<phase, kids, elems, stack, merged, metas, stored>>

GroupText ==
  LET longer == Append(section, pos) IN
  /\ phase = "group" /\ pos <= Len(elems) /\ elems[pos].type \in {"paragraph", "list"}
  /\ IF Running(longer) >= MaxChars
       THEN chunks' = FlushSection(longer) /\ section' = <<>>
       ELSE section' = longer /\ UNCHANGED chunks
  /\ pos' = pos + 1
  /\ UNCHANGED <<phase, kids, elems, stack, merged, metas, stored>>

GroupEnd ==
  /\ phase = "group" /\ pos > Len(elems)
  /\ chunks' = FlushSection(section)
  /\ section' = <<>>
  /\ phase' = "merge" /\ pos' = 1
  /\ UNCHANGED <<kids, elems, stack, merged, metas, stored>>

(* _merge_short: a short section goes to the section right before it, and  *)
(* takes that section's heading.                                           *)
Joins(done, c) ==
  /\ done # <<>> /\ Last(done).type = "section"
  /\ c.type = "section" /\ c.text.size < MinChars

JoinLast(done, c) ==
  [done EXCEPT ![Len(done)].els = @ \o c.els, ![Len(done)].text = Joined(@, c.text)]

MergeShort ==
  LET c == chunks[pos] IN
  /\ phase = "merge" /\ pos <= Len(chunks)
  /\ merged' = IF Joins(merged, c) THEN JoinLast(merged, c) ELSE Append(merged, c)
  /\ pos' = pos + 1
  /\ UNCHANGED <<phase, kids, elems, stack, section, chunks, metas, stored>>

MergeEnd ==
  /\ phase = "merge" /\ pos > Len(chunks)
  /\ chunks' = merged
  /\ phase' = "tables"
  /\ UNCHANGED <<kids, elems, pos, stack, section, merged, metas, stored>>

-----------------------------------------------------------------------------
(* The model calls.  A call that fails, or whose reply is no JSON array,   *)
(* is <<>>.                                                                *)
Answers(S, n) == UNION {[1..k -> S] : k \in 0..(n + Extra)}

Sections == {i \in DOMAIN chunks : chunks[i].type = "section"}
Tables   == {i \in DOMAIN chunks : chunks[i].type = "table"}

Smaller(a, b) == IF a < b THEN a ELSE b

(* Sections are polished a batch at a time; Place is where one stands in   *)
(* section_indices.                                                        *)
Place(i) == Cardinality(Sections \cap 1..i)
Batch    == {i \in Sections : Place(i) \in pos..(pos + PolishBatch - 1)}

(* _naturalize_table: nothing is asked of the text that comes back.        *)
Naturalize(orig, said) == IF said.size = 0 THEN orig ELSE said

(* _validate_polish.  A number counts as kept when it occurs in the text,  *)
(* be it inside another number: 5 is found in 15.                          *)
Inside(n, m) == n = m \/ n = m \div 10 \/ n = m % 10
ValidatePolish(orig, said) ==
  /\ said.size * 10 >= orig.size * 7
  /\ \A n \in orig.nums : \E m \in said.nums : Inside(n, m)

Polish_Unchecked(answer, j, orig) ==
  IF j \in DOMAIN answer /\ answer[j].size > 0 THEN answer[j] ELSE orig

(* The j-th item of the reply is taken for the j-th text of the batch; an  *)
(* item that is blank, refused or missing leaves the text as it was.       *)
Polish(answer, j, orig) ==
  IF j \in DOMAIN answer /\ answer[j].size > 0 /\ ValidatePolish(orig, answer[j])
    THEN answer[j] ELSE orig

Labels_NotFilled(answer, n) == SubSeq(answer, 1, Smaller(Len(answer), n))

(* _enrich_chunks_with_llm: labels are cut to the batch, then filled up.   *)
Labels(answer, n) ==
  [j \in 1..n |-> IF j \in DOMAIN answer THEN answer[j] ELSE "default"]

-----------------------------------------------------------------------------
Parse ==
  /\ phase = "parse"
  /\ elems' \in FlattenJson(kids)
  /\ phase' = "group"
  /\ UNCHANGED <<kids, pos, stack, section, chunks, merged, metas, stored>>

NaturalizeTables ==
  /\ phase = "tables"
  /\ \E said \in [Tables -> Replies] :
       chunks' = [i \in DOMAIN chunks |->
                    IF i \in Tables THEN [chunks[i] EXCEPT !.text = Naturalize(@, said[i])]
                                    ELSE chunks[i]]
  /\ phase' = "polish" /\ pos' = 1
  /\ UNCHANGED <<kids, elems, stack, section, merged, metas, stored>>

PolishChunks ==
  /\ phase = "polish" /\ pos <= Cardinality(Sections)
  /\ \E answer \in Answers(Replies, Cardinality(Batch)) :
       chunks' = [i \in DOMAIN chunks |->
         IF i \in Batch THEN [chunks[i] EXCEPT !.text = Polish(answer, Place(i) - pos + 1, @)]
                        ELSE chunks[i]]
  /\ pos' = pos + PolishBatch
  /\ UNCHANGED <<phase, kids, elems, stack, section, merged, metas, stored>>

(* embed_passages stands between the two loops.                            *)
Embed ==
  /\ phase = "polish" /\ pos > Cardinality(Sections)
  /\ phase' = "enrich" /\ pos' = 1
  /\ UNCHANGED <<kids, elems, stack, section, chunks, merged, metas, stored>>

EnrichChunks ==
  LET n == Smaller(EnrichBatch, Len(chunks) - pos + 1) IN
  /\ phase = "enrich" /\ pos <= Len(chunks)
  /\ \E answer \in Answers({"label", "default"}, n) : metas' = metas \o Labels(answer, n)
  /\ pos' = pos + EnrichBatch
  /\ UNCHANGED <<phase, kids, elems, stack, section, chunks, merged, stored>>

(* The loop over zip(chunks, embeddings, metas) ends with the shortest.    *)
Store ==
  /\ phase = "enrich" /\ pos > Len(chunks)
  /\ stored' = SubSeq(chunks, 1, Smaller(Len(chunks), Len(metas)))
  /\ phase' = "stored"
  /\ UNCHANGED <<kids, elems, pos, stack, section, chunks, merged, metas>>

(* The reader, the embedder and the stores may fail: _fail_rag_document.   *)
Fail ==
  /\ \/ phase = "parse"
     \/ phase = "polish" /\ pos > Cardinality(Sections)
     \/ phase = "enrich" /\ pos > Len(chunks)
  /\ phase' = "failed"
  /\ UNCHANGED <<kids, elems, pos, stack, section, chunks, merged, metas, stored>>

Init ==
  /\ phase = "parse" /\ kids \in Files
  /\ elems = <<>> /\ pos = 1 /\ stack = <<>> /\ section = <<>>
  /\ chunks = <<>> /\ merged = <<>> /\ metas = <<>> /\ stored = <<>>

Next ==
  \/ Parse \/ GroupHeading \/ GroupTable \/ GroupText \/ GroupEnd
  \/ MergeShort \/ MergeEnd \/ NaturalizeTables \/ PolishChunks \/ Embed
  \/ EnrichChunks \/ Store \/ Fail

Spec == Init /\ [][Next]_vars

-----------------------------------------------------------------------------
Texts(n) == {i \in 1..n : elems[i].type # "heading"}
Headings == {i \in DOMAIN elems : elems[i].type = "heading"}

InChunks(K) == UNION {ToSet(chunks[k].els) : k \in K}

(* The chunks hold these elements, in the order of the file, each once.    *)
Hold(cs, S) ==
  /\ UNION {ToSet(cs[k].els) : k \in DOMAIN cs} = S
  /\ \A k, l \in DOMAIN cs : \A a \in DOMAIN cs[k].els, b \in DOMAIN cs[l].els :
       k < l \/ (k = l /\ a < b) => cs[k].els[a] < cs[l].els[b]

(* Every text of the file is in exactly one chunk, in the order of the     *)
(* file, through grouping, joining and the zip with the labels, whatever   *)
(* the model replied: the loops flush at the right moments and labels are  *)
(* never fewer than chunks (which the zip would cut).                      *)
EveryTextOnce ==
  CASE phase = "group"  -> Hold(FlushSection(section), Texts(pos - 1))
    [] phase = "merge"  -> Hold(chunks, Texts(Len(elems))) /\ Hold(merged, InChunks(1..(pos - 1)))
    [] phase = "stored" -> Hold(stored, Texts(Len(elems)))
    [] phase \in {"tables", "polish", "enrich"} -> Hold(chunks, Texts(Len(elems)))
    [] OTHER -> TRUE

(* The headings a place in the file is under: those that no later heading  *)
(* of the same or a higher rank has closed.                                *)
Enclosing(i) ==
  {h \in Headings : h < i /\ \A g \in Headings : h < g /\ g < i => Level(g) > Level(h)}

Lists(p, S) == ToSet(p) = S /\ \A m, n \in DOMAIN p : m < n => p[m] < p[n]

(* The path put before a chunk when it is embedded is the chain of         *)
(* headings its first text is under, from the outermost in, though the     *)
(* loop keeps only a stack and levels may be skipped or missing.           *)
PathEncloses == \A k \in DOMAIN chunks : Lists(chunks[k].path, Enclosing(chunks[k].els[1]))

(* A section that went through the polish has the numbers of all its       *)
(* elements (as digits that occur in it) and seven tenths of their length, *)
(* whatever the model replied and however its reply was aligned.           *)
SectionNumbersKept ==
  phase \in {"enrich", "stored"} =>
    \A k \in DOMAIN chunks : chunks[k].type = "section" =>
      LET c == chunks[k]  orig == TextOfAll(c.els) IN
      /\ c.text.size * 10 >= orig.size * 7
      /\ \A i \in DOMAIN c.els : \A n \in elems[c.els[i]].nums :
           \E m \in c.text.nums : Inside(n, m)
=============================================================================
