----------------------------- MODULE Documents -----------------------------
(***************************************************************************)
(* The documents of one tenant: the admin's requests (upload, list chunks, *)
(* edit a chunk, reindex, delete), the scripts that reseed a tenant, and   *)
(* the questions of callers that are answered from what was indexed.       *)
(*                                                                         *)
(* One text lives in four places: the row of rag_documents, its rows in    *)
(* rag_document_chunks, the vectors in Chroma and the answers kept in the  *)
(* answer cache.  Nothing spans them: each handler writes them one after   *)
(* the other over connections that commit on their own, and each write may *)
(* fail.  A job is one request; its steps are the calls in its handler.    *)
(*                                                                         *)
(* There are two Chromas.  A service that cannot reach the server opens a  *)
(* store in a directory of its host and keeps to it; every request builds  *)
(* a service of its own, so two requests may use different stores and      *)
(* neither is told.                                                        *)
(*                                                                         *)
(* Left out: the tenant (every query names one, and one is enough), what   *)
(* the text says and how it is cut (see Chunking), categories kept in      *)
(* Redis (written once per upload, a failure ignored).                     *)
(***************************************************************************)
EXTENDS Naturals, FiniteSets, FiniteSetsExt

CONSTANTS
  Jobs,          \* requests and scripts, each handled once
  Docs,          \* document ids in the order they are drawn (naturals)
  Names,         \* file names
  Texts,         \* what a chunk says
  MaxChunks,     \* chunks of a document
  ReindexLimit,  \* chunks a reindex reads (1000 in the code)
  MaxActive,     \* bound: requests in progress at a time
  Clients,       \* what a service may connect to: "server", and "local" if that may be down
  NoText

ASSUME DocumentsAssumption ==
  /\ Docs \subseteq Nat /\ IsFiniteSet(Docs)
  /\ 0 \notin Docs
  /\ MaxChunks \in Nat /\ ReindexLimit \in Nat /\ MaxActive \in Nat
  /\ NoText \notin Texts
  /\ Clients \subseteq {"server", "local"}

Indices == 1..MaxChunks
NoDoc   == 0
NoRow   == [status |-> "absent", name |-> NoText, count |-> 0, deleted |-> FALSE]
NoChunk == [text |-> NoText, status |-> "absent"]
NoText_ == [i \in Indices |-> NoText]
NoRows  == [i \in Indices |-> NoChunk]
Idle    == [pc |-> "idle", kind |-> "none", doc |-> NoDoc, old |-> NoDoc, name |-> NoText,
            size |-> 0, pos |-> 1, read |-> NoText_, client |-> "server"]

VARIABLES
  row,        \* row[d]: rag_documents, status "absent" where there is none
  chunk,      \* chunk[d][i]: rag_document_chunks
  vec,        \* vec[d][i]: the text the vector of chunk i in Chroma was made from
  local,      \* the same in the store a service falls back to
  cache,      \* answers kept, each with the vector it was made from
  job,        \* the requests
  edited,     \* history: what the admin last saved for a chunk
  overlapped, \* history: documents two jobs held at once
  degraded,   \* history: documents of which a read or a clear failed unnoticed
  strayed     \* history: documents handled in the other store, or kept by a reseed's Chroma

chroma == <<vec, local, strayed>>
store  == <<row, chunk, chroma, cache>>
vars   == <<store, job, edited, overlapped, degraded>>

-----------------------------------------------------------------------------
Alive(d) == row[d].status # "absent" /\ ~row[d].deleted

Kinds == {"upload", "reindex", "view", "edit", "delete", "reseed", "ask"}

(* Where a request is: the call of its handler that comes next.            *)
Calls ==
  {"find", "dropVectors", "dropRow", "insert", "prepare", "vectors", "rows", "ready", "fail",
   "dropCollection", "dropRows", "lookup", "list", "backfill", "relist", "mark", "upsert",
   "clear", "succeed", "refail", "edit", "delVectors", "softDelete", "ask", "keep"}

Goto(j, l)  == job' = [job EXCEPT ![j].pc = l]
At(j, l)    == job[j].pc = l
Finish(j)   == job' = [job EXCEPT ![j] = [Idle EXCEPT !.pc = "done"]]

(* What a job works on, from its first look to its end.                    *)
Holds(r) ==
  IF r.pc \in {"idle", "done"} THEN {}
  ELSE IF r.kind = "reseed" THEN Docs
  ELSE {r.doc, r.old} \ {NoDoc}

Watch ==
  overlapped' = overlapped \cup
    {d \in Docs : \E j, k \in Jobs : j # k /\ d \in Holds(job'[j]) \cap Holds(job'[k])}

(* ChromaRAGService: the vectors of a document, in the store of the client *)
(* that the service got at its first call and keeps.                       *)
Vectors(c) == IF c = "server" THEN vec ELSE local

Stray(c, d) == strayed' = IF c = "server" THEN strayed ELSE strayed \cup {d}

WriteVectors(c, d, texts) ==
  /\ vec'   = IF c = "server" THEN [vec EXCEPT ![d] = texts] ELSE vec
  /\ local' = IF c = "server" THEN local ELSE [local EXCEPT ![d] = texts]
  /\ Stray(c, d)

(* A document of the old scheme has vectors and no chunk rows              *)
(* (rag_document_chunks came with migration v008).                         *)
Init ==
  \E d \in Docs, name \in Names, t \in Texts, legacy \in BOOLEAN :
    /\ \A e \in Docs : d <= e
    /\ row   = [e \in Docs |-> IF e = d THEN [status |-> "ready", name |-> name,
                                 count |-> MaxChunks, deleted |-> FALSE] ELSE NoRow]
    /\ vec   = [e \in Docs |-> IF e = d THEN [i \in Indices |-> t] ELSE NoText_]
    /\ chunk = [e \in Docs |-> IF e = d /\ ~legacy
                  THEN [i \in Indices |-> [text |-> t, status |-> "ready"]] ELSE NoRows]
    /\ cache = {}
    /\ job   = [j \in Jobs |-> Idle]
    /\ edited = [e \in Docs |-> NoText_]
    /\ local = [e \in Docs |-> NoText_]
    /\ overlapped = {} /\ degraded = {} /\ strayed = {}

-----------------------------------------------------------------------------
(* PDFProcessor.process: upload_document and the reseed scripts            *)

(* The newest document of that name that has not failed.                   *)
Existing(name) ==
  LET same == {d \in Docs : Alive(d) /\ row[d].status # "failed" /\ row[d].name = name} IN
  IF same = {} THEN NoDoc ELSE Max(same)

(* Its service connects at the next call of Chroma.                        *)
UploadFind(j) ==
  /\ At(j, "find")
  /\ \E c \in Clients :
       LET d == Existing(job[j].name) IN
       job' = [job EXCEPT ![j].old = d, ![j].client = c,
                          ![j].pc = IF d = NoDoc THEN "insert" ELSE "dropVectors"]
  /\ UNCHANGED <<store, edited, degraded>>

(* delete_by_document; an error leaves the request (Crash).                *)
UploadDropVectors(j) ==
  /\ At(j, "dropVectors")
  /\ WriteVectors(job[j].client, job[j].old, NoText_)
  /\ Goto(j, "dropRow")
  /\ UNCHANGED <<row, chunk, cache, edited, degraded>>

(* Its chunk rows, then its row; an error may stop it between the two.     *)
UploadDropRow(j) ==
  LET d == job[j].old IN
  /\ At(j, "dropRow")
  /\ chunk' = [chunk EXCEPT ![d] = NoRows]
  /\ edited' = [edited EXCEPT ![d] = NoText_]
  /\ \/ /\ row' = [row EXCEPT ![d] = NoRow]
        /\ Goto(j, "insert")
     \/ /\ Finish(j)
        /\ UNCHANGED row
  /\ UNCHANGED <<chroma, cache, degraded>>

Fresh(d) ==
  \A e \in Docs : e >= d =>
    /\ row[e] = NoRow /\ vec[e] = NoText_ /\ local[e] = NoText_
    /\ e \notin overlapped \cup strayed
    /\ \A a \in cache : a[1] # e
    /\ \A j \in Jobs : e \notin {job[j].doc, job[j].old}

(* A new id, above all that are known: an id nothing refers to any more is *)
(* as good as one never drawn.                                             *)
UploadInsert(j) ==
  /\ At(j, "insert")
  /\ \E d \in Docs, n \in 0..MaxChunks, t \in Texts :
       /\ Fresh(d) /\ \A e \in Docs : Fresh(e) => d <= e
       /\ row' = [row EXCEPT ![d] = [status |-> "processing", name |-> job[j].name,
                                     count |-> 0, deleted |-> FALSE]]
       /\ job' = [job EXCEPT ![j].doc = d, ![j].pc = "prepare", ![j].size = n,
                             ![j].read = [i \in Indices |-> IF i <= n THEN t ELSE NoText]]
  /\ UNCHANGED <<chunk, chroma, cache, edited, degraded>>

(* Extraction, chunking, the LLM and the embedder; the LLM never fails     *)
(* (each call falls back), the others may.                                 *)
UploadPrepare(j) ==
  /\ At(j, "prepare")
  /\ \E l \in {"vectors", "fail"} : Goto(j, l)
  /\ UNCHANGED <<store, edited, degraded>>

(* One upsert per chunk, each its own call; then the chunk rows.           *)
WriteVector(j, then) ==
  LET d == job[j].doc  i == job[j].pos  c == job[j].client IN
  IF i > job[j].size
    THEN /\ Goto(j, then)
         /\ UNCHANGED chroma
    ELSE /\ WriteVectors(c, d, [Vectors(c)[d] EXCEPT ![i] = job[j].read[i]])
         /\ job' = [job EXCEPT ![j].pos = i + 1]

UploadVector(j) ==
  /\ At(j, "vectors")
  /\ \/ WriteVector(j, "rows")
     \/ /\ Goto(j, "fail")
        /\ UNCHANGED chroma
  /\ UNCHANGED <<row, chunk, cache, edited, degraded>>

(* upsert_rag_document_chunks_for_tenant: one statement per chunk.  A row  *)
(* that refers to no document is refused, and the error is raised.         *)
ChunkRows(d, texts, k) ==
  [chunk EXCEPT ![d] = [i \in Indices |->
     IF i <= k /\ texts[i] # NoText THEN [text |-> texts[i], status |-> "ready"] ELSE @[i]]]

UploadRows(j) ==
  LET d == job[j].doc  n == job[j].size IN
  /\ At(j, "rows")
  /\ \E k \in 0..n :
       /\ row[d].status = "absent" => k = 0
       /\ chunk' = ChunkRows(d, job[j].read, k)
       /\ Goto(j, IF k = n THEN "ready" ELSE "fail")
  /\ UNCHANGED <<row, chroma, cache, edited, degraded>>

(* _update_rag_document asks only for the id: a deleted row is updated too *)
UploadReady(j) ==
  LET d == job[j].doc IN
  /\ At(j, "ready")
  /\ \/ /\ row' = IF row[d].status = "absent" THEN row
                  ELSE [row EXCEPT ![d].status = "ready", ![d].count = job[j].size]
        /\ Finish(j)
     \/ /\ Goto(j, "fail")
        /\ UNCHANGED row
  /\ UNCHANGED <<chunk, chroma, cache, edited, degraded>>

(* _fail_rag_document; when that fails too the row stays "processing".     *)
UploadFail(j) ==
  LET d == job[j].doc IN
  /\ At(j, "fail")
  /\ \E marked \in BOOLEAN :
       row' = IF marked /\ row[d].status # "absent"
                THEN [row EXCEPT ![d].status = "failed"] ELSE row
  /\ Finish(j)
  /\ UNCHANGED <<chunk, chroma, cache, edited, degraded>>

-----------------------------------------------------------------------------
(* reindex_all_tenants, reseed_one_tenant: the collection of the tenant is *)
(* dropped on the server, then its rows; then the file is processed.  The  *)
(* second takes any error of delete_collection for a collection that is    *)
(* not there, and goes on: the vectors stay.                               *)
ReseedCollection(j) ==
  /\ At(j, "dropCollection")
  /\ \/ /\ vec' = [d \in Docs |-> NoText_]
        /\ UNCHANGED strayed
     \/ /\ strayed' = strayed \cup {d \in Docs : vec[d] # NoText_}
        /\ UNCHANGED vec
  /\ Goto(j, "dropRows")
  /\ UNCHANGED <<row, chunk, local, cache, edited, degraded>>

ReseedRows(j) ==
  /\ At(j, "dropRows")
  /\ row' = [d \in Docs |-> NoRow]
  /\ chunk' = [d \in Docs |-> NoRows]
  /\ edited' = [d \in Docs |-> NoText_]
  /\ Goto(j, "find")
  /\ UNCHANGED <<chroma, cache, degraded>>

-----------------------------------------------------------------------------
(* reindex_document, list_document_chunks, update_document_chunk           *)

(* get_rag_document_for_tenant: 404 unless there is a live row.            *)
Lookup(j) ==
  LET r == job[j] IN
  /\ At(j, "lookup")
  /\ IF Alive(r.doc)
       THEN Goto(j, CASE r.kind = "edit"   -> "edit"
                      [] r.kind = "delete" -> "delVectors"
                      [] OTHER             -> "list")
       ELSE Finish(j)
  /\ UNCHANGED <<store, edited, degraded>>

Stored(d) == {i \in Indices : chunk[d][i] # NoChunk}

(* list_rag_document_chunks_for_tenant: the chunk rows of a live document. *)
(* An error is answered with an empty page.                                *)
Page(d) ==
  [i \in Indices |-> IF Alive(d) /\ i <= ReindexLimit THEN chunk[d][i].text ELSE NoText]

(* A reindex goes on with the page, a view returns it.                     *)
AfterList(j, page) ==
  IF job[j].kind = "reindex"
    THEN job' = [job EXCEPT ![j].read = page, ![j].pc = "mark"]
    ELSE Finish(j)

ListChunks_AlwaysBackfill(j) ==   \* mutant: rows that are there are made again
  /\ At(j, "list")
  /\ Goto(j, "backfill")
  /\ UNCHANGED <<store, edited, degraded>>

ListChunks(j) ==
  LET d == job[j].doc IN
  /\ At(j, "list")
  /\ \E failed \in BOOLEAN :
       /\ degraded' = IF failed THEN degraded \cup {d} ELSE degraded
       /\ IF failed \/ ~Alive(d) \/ Stored(d) = {}
            THEN Goto(j, "backfill")
            ELSE AfterList(j, Page(d))
  /\ UNCHANGED <<store, edited>>

(* _backfill_document_chunks_from_chroma: rows made from the vectors, over *)
(* any that are there, with a service of its own.  An error (no document   *)
(* to refer to) leaves the request, before reindex has marked anything.    *)
Backfill(j) ==
  LET d == job[j].doc IN
  /\ At(j, "backfill")
  /\ \E c \in Clients :
       LET texts == Vectors(c)[d] IN
       /\ IF texts # NoText_ /\ row[d].status = "absent"
            THEN /\ Finish(j)
                 /\ UNCHANGED chunk
            ELSE /\ chunk' = ChunkRows(d, texts, MaxChunks)
                 /\ Goto(j, "relist")
       /\ Stray(c, d)
  /\ UNCHANGED <<row, vec, local, cache, edited, degraded>>

Relist(j) ==
  LET d == job[j].doc IN
  /\ At(j, "relist")
  /\ \E failed \in BOOLEAN :
       /\ degraded' = IF failed THEN degraded \cup {d} ELSE degraded
       /\ AfterList(j, IF failed THEN NoText_ ELSE Page(d))
  /\ UNCHANGED <<store, edited>>

(* mark_rag_document_processing_for_tenant; an error is swallowed.  The    *)
(* service of the upserts connects at the first.                           *)
ReindexMark(j) ==
  LET d == job[j].doc IN
  /\ At(j, "mark")
  /\ \E ok \in BOOLEAN :
       row' = IF ok /\ Alive(d) THEN [row EXCEPT ![d].status = "processing"] ELSE row
  /\ \E c \in Clients :
       job' = [job EXCEPT ![j].pc = "upsert", ![j].pos = 1, ![j].client = c,
                          ![j].size = Cardinality({i \in Indices : job[j].read[i] # NoText})]
  /\ UNCHANGED <<chunk, chroma, cache, edited, degraded>>

(* Embedding and one upsert per chunk read; either may raise.              *)
ReindexVector(j) ==
  /\ At(j, "upsert")
  /\ \/ WriteVector(j, "clear")
     \/ /\ Goto(j, "refail")
        /\ UNCHANGED chroma
  /\ UNCHANGED <<row, chunk, cache, edited, degraded>>

ReindexClear_Forgotten(j) ==   \* mutant: a reindex leaves the answers
  /\ At(j, "clear")
  /\ Goto(j, "succeed")
  /\ UNCHANGED <<store, edited, degraded>>

(* ChromaCacheService.clear drops every answer; an error is only logged.   *)
ReindexClear(j) ==
  /\ At(j, "clear")
  /\ \/ /\ cache' = {}
        /\ UNCHANGED degraded
     \/ /\ degraded' = Docs
        /\ UNCHANGED cache
  /\ Goto(j, "succeed")
  /\ UNCHANGED <<row, chunk, chroma, edited>>

(* mark_rag_document_reindex_succeeded_for_tenant: all chunk rows of the   *)
(* document, read or not, then its row; an error in between is swallowed.  *)
ReindexSucceed(j) ==
  LET d == job[j].doc
      ready == [i \in Indices |-> IF chunk[d][i] = NoChunk THEN NoChunk
                                  ELSE [chunk[d][i] EXCEPT !.status = "ready"]] IN
  /\ At(j, "succeed")
  /\ \/ UNCHANGED <<row, chunk>>
     \/ /\ chunk' = [chunk EXCEPT ![d] = ready]
        /\ \E ok \in BOOLEAN :
             row' = IF ok /\ Alive(d)
                      THEN [row EXCEPT ![d].status = "ready", ![d].count = Cardinality(Stored(d))]
                      ELSE row
  /\ Finish(j)
  /\ UNCHANGED <<chroma, cache, edited, degraded>>

ReindexFail(j) ==
  LET d == job[j].doc IN
  /\ At(j, "refail")
  /\ \E ok \in BOOLEAN :
       row' = IF ok /\ Alive(d) THEN [row EXCEPT ![d].status = "failed"] ELSE row
  /\ Finish(j)
  /\ UNCHANGED <<chunk, chroma, cache, edited, degraded>>

(* update_rag_document_chunk_for_tenant: the chunk waits for a reindex, and *)
(* so does its document unless marking it fails.  404 without a chunk.     *)
Edit(j) ==
  LET d == job[j].doc IN
  /\ At(j, "edit")
  /\ \/ \E i \in Indices, t \in Texts, ok \in BOOLEAN :
          /\ Alive(d) /\ i \in Stored(d)
          /\ chunk' = [chunk EXCEPT ![d][i] = [text |-> t, status |-> "processing"]]
          /\ edited' = [edited EXCEPT ![d][i] = t]
          /\ row' = IF ok THEN [row EXCEPT ![d].status = "processing"] ELSE row
     \/ UNCHANGED <<chunk, edited, row>>
  /\ Finish(j)
  /\ UNCHANGED <<chroma, cache, degraded>>

-----------------------------------------------------------------------------
(* delete_document: the vectors, and only then the row                     *)

DeleteVectors_Later(j) ==      \* mutant: the row is deleted although its vectors were not
  /\ At(j, "delVectors")
  /\ \/ UNCHANGED chroma
     \/ \E c \in Clients : WriteVectors(c, job[j].doc, NoText_)
  /\ Goto(j, "softDelete")
  /\ UNCHANGED <<row, chunk, cache, edited, degraded>>

DeleteVectors(j) ==         \* an error is a 502 (Crash)
  /\ At(j, "delVectors")
  /\ \E c \in Clients : WriteVectors(c, job[j].doc, NoText_)
  /\ Goto(j, "softDelete")
  /\ UNCHANGED <<row, chunk, cache, edited, degraded>>

(* soft_delete_rag_document_for_tenant; on an error the document stays,    *)
(* without vectors.                                                        *)
SoftDelete(j) ==
  LET d == job[j].doc IN
  /\ At(j, "softDelete")
  /\ \E ok \in BOOLEAN :
       row' = IF ok /\ Alive(d) THEN [row EXCEPT ![d].deleted = TRUE] ELSE row
  /\ Finish(j)
  /\ UNCHANGED <<chunk, chroma, cache, edited, degraded>>

-----------------------------------------------------------------------------
(* faq_branch: a kept answer, or one made from a vector that is found.     *)
(* The search asks Chroma only: it does not look at rows.  The service is  *)
(* one per process, and each process has its own.                          *)
AskSearch(j) ==
  /\ At(j, "ask")
  /\ \/ /\ Finish(j)                         \* a kept answer, nothing found, or a gate
        /\ UNCHANGED strayed
     \/ \E c \in Clients, d \in Docs, i \in Indices :
          LET t == Vectors(c)[d][i] IN
          /\ t # NoText
          /\ job' = [job EXCEPT ![j].doc = d, ![j].pos = i, ![j].pc = "keep",
                                ![j].read = [NoText_ EXCEPT ![i] = t]]
          /\ Stray(c, d)
  /\ UNCHANGED <<row, chunk, vec, local, cache, edited, degraded>>

(* The LLM answers from it and the answer is kept, or it has none.         *)
AskKeep(j) ==
  LET r == job[j] IN
  /\ At(j, "keep")
  /\ \E useful \in BOOLEAN :
       cache' = IF useful THEN cache \cup {<<r.doc, r.pos, r.read[r.pos]>>} ELSE cache
  /\ Finish(j)
  /\ UNCHANGED <<row, chunk, chroma, edited, degraded>>

-----------------------------------------------------------------------------
(* A request arrives.                                                      *)
Start(j) ==
  /\ At(j, "idle")
  /\ Cardinality({k \in Jobs : ~At(k, "idle") /\ ~At(k, "done")}) < MaxActive
  /\ \/ \E kind \in {"upload", "reseed"}, name \in Names :
          job' = [job EXCEPT ![j].kind = kind, ![j].name = name,
                    ![j].pc = IF kind = "upload" THEN "find" ELSE "dropCollection"]
     \/ \E kind \in {"reindex", "view", "edit", "delete"}, d \in Docs :
          /\ row[d].status # "absent"
          /\ job' = [job EXCEPT ![j].kind = kind, ![j].doc = d, ![j].pc = "lookup"]
     \/ job' = [job EXCEPT ![j].kind = "ask", ![j].pc = "ask"]
  /\ UNCHANGED <<store, edited, degraded>>

(* The process dies, or an error before a step has done anything leaves    *)
(* the request.                                                            *)
Crash(j) ==
  /\ ~At(j, "idle") /\ ~At(j, "done")
  /\ Finish(j)
  /\ UNCHANGED <<store, edited, degraded>>

Upload(j) ==
  \/ UploadFind(j) \/ UploadDropVectors(j) \/ UploadDropRow(j) \/ UploadInsert(j)
  \/ UploadPrepare(j) \/ UploadVector(j) \/ UploadRows(j) \/ UploadReady(j) \/ UploadFail(j)

Reindex(j) ==
  \/ ListChunks(j) \/ Backfill(j) \/ Relist(j) \/ ReindexMark(j) \/ ReindexVector(j)
  \/ ReindexClear(j) \/ ReindexSucceed(j) \/ ReindexFail(j)

Next ==
  /\ \E j \in Jobs :
       \/ Start(j) \/ Crash(j) \/ Lookup(j) \/ Upload(j) \/ ReseedCollection(j) \/ ReseedRows(j)
       \/ Reindex(j) \/ Edit(j) \/ DeleteVectors(j) \/ SoftDelete(j) \/ AskSearch(j) \/ AskKeep(j)
  /\ Watch

Spec == Init /\ [][Next]_vars

-----------------------------------------------------------------------------
(* On the Chroma server a vector belongs to a document the admin can see.  *)
(* Wherever a request dies, and whichever write raises, none stays behind  *)
(* that nobody can delete and every search would find.  Three things break *)
(* it and are excluded: two requests on one document at once, a request    *)
(* that worked on the document in the local store because the server was   *)
(* down, and a reseed whose delete_collection failed.                      *)
VectorsHaveADocument ==
  \A d \in Docs \ (overlapped \cup strayed) : vec[d] # NoText_ => Alive(d)

(* What the admin saved stays: no reindex and no backfill of chunk rows    *)
(* from the vectors, of either store, puts the old text back.              *)
EditSurvives ==
  \A d \in Docs \ (overlapped \cup degraded), i \in Indices :
    edited[d][i] # NoText => chunk[d][i].text = edited[d][i]

(* Once an edit was indexed, no caller is told the text it replaced: the   *)
(* answers made from it were dropped by the reindex.  (A document of which *)
(* the local store has older vectors is excluded.)                         *)
KeptAnswerIsCurrent ==
  \A d \in Docs \ (overlapped \cup degraded \cup strayed), i \in Indices, t \in Texts :
    <<d, i, t>> \in cache /\ i <= ReindexLimit /\ chunk[d][i].status = "ready"
      => vec[d][i] \in {NoText, t}

(* What 08_rag_documents.sql:6 asks for and an overlapping reindex or      *)
(* upload breaks: a deleted document has no vectors.                       *)
DeletedNotSearchable == \A d \in Docs : row[d].deleted => vec[d] = NoText_

(* The same where no two requests met: what the fallback breaks.           *)
DeletedWithItsVectors == \A d \in Docs \ overlapped : row[d].deleted => vec[d] = NoText_

(* What reseed_one_tenant.py:3 says and its swallowed error breaks: the    *)
(* file is processed after the tenant's collection is gone.                *)
ReseedStartsEmpty ==
  \A j \in Jobs, d \in Docs \ overlapped :
    job[j].kind = "reseed" /\ At(j, "find") => vec[d] = NoText_

TypeOK ==
  /\ row   \in [Docs -> [status : {"absent", "processing", "ready", "failed"},
                         name : Names \cup {NoText}, count : 0..MaxChunks, deleted : BOOLEAN]]
  /\ chunk \in [Docs -> [Indices -> [text : Texts \cup {NoText},
                                     status : {"absent", "ready", "processing"}]]]
  /\ vec   \in [Docs -> [Indices -> Texts \cup {NoText}]]
  /\ local \in [Docs -> [Indices -> Texts \cup {NoText}]]
  /\ cache \subseteq Docs \X Indices \X Texts
  /\ job   \in [Jobs -> [pc : Calls \cup {"idle", "done"}, kind : Kinds \cup {"none"},
                         doc : Docs \cup {NoDoc}, old : Docs \cup {NoDoc}, name : Names \cup {NoText},
                         size : 0..MaxChunks, pos : 1..(MaxChunks + 1),
                         read : [Indices -> Texts \cup {NoText}], client : {"server", "local"}]]
  /\ edited \in [Docs -> [Indices -> Texts \cup {NoText}]]
  /\ overlapped \subseteq Docs /\ degraded \subseteq Docs /\ strayed \subseteq Docs
=============================================================================
