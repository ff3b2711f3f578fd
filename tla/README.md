# A TLA+ model of sisicallcall

sisicallcall is a telephone agent: a Twilio WebSocket feeds a conversational
LangGraph graph while a customer talks, and when the call is over a second graph
analyses it, has the analysis reviewed, publishes it and sends follow-up actions
(SMS, Slack, Gmail, Calendar, Jira, Notion) through an MCP server. This directory
models the parts of it in which order, failure and repetition matter, checks them
with TLC on small instances and proves the most important facts with TLAPS.

Paths below are relative to the repository; `post_call/` is `app/agents/post_call/`.

## The system

| part | state | operations | talks to |
|---|---|---|---|
| Post-call pipeline (`post_call/graph.py`, `agent.py`, `nodes/`) | the graph state of one run: context, retry counter, analysis, proposals, verdict, approved actions, results | load context, plan, review, retry, notify, queue, execute, save | LLM, executor, repositories |
| Ways to start it (`runner.py`, `completed_call_runner.py`, `api/v1/post_call.py`, the batch script) | none of their own; they seed the global context store | fetch, seed, run | database, pipeline |
| Reviewer loop (`nodes/reviewer_agent_node.py`, `tools/review_catalog.py`) | decisions, patches, corrected analysis, dropped corrections, escalation, finalization | one per review tool; verdict | LLM |
| Action executor and log (`actions/executor.py`, `mcp_action_log_repo.py`) | rows of `mcp_action_logs` | look up, skip, call, write rows | MCP gateway, Postgres |
| Call records (`call_summary_repo.py`, `voc_analysis_repo.py`, `dashboard_repo.py`) | in-memory stores in front of two tables | save (memory, then upsert), read | Postgres, admin API |
| MCP (`services/mcp/`) | one stdio subprocess per client; tool registry | list, call with timeout | connectors of the outside services |
| Live call (`api/v1/call.py`) | audio buffers, `is_speaking`, `turn_index`, listener task | media, turn, push speech, stop, disconnect | STT, TTS, conversational graph, session, database |
| Call session (`services/session/redis_session.py`) | one JSON value per call: history, `auth_id`, `pending_task`, `vision_id`, `ocr_id` | load, change, store; each not atomic | KV store |
| Conversational graph (`agents/conversational/`) | graph state of one turn | refine, route, faq, task, auth, vision, ocr, escalate | session, MCP, RAG |
| Face authentication (`api/v1/auth.py`, `services/auth/`) | a hash per authentication: status, attempts, verified; pub/sub channel | create, liveness, verify, block, publish | KV store, live call |
| KV store (`services/cache/kv.py`) | Redis or an in-memory dictionary; a permanent switch between them | get, set, hset, hincrby, expire | Redis |
| Tenant documents (`api/v1/tenant.py`, `rag_document_repo.py`, `services/rag`) | `rag_documents` rows, vectors, files | upload, reindex, delete | Postgres, Chroma |
| OAuth (`services/oauth/`, `api/v1/oauth.py`, `tenant_integration_repo.py`) | one-time states with TTL; encrypted tokens per tenant | start, callback, refresh, disconnect | providers |
| Admin and read side (`admin_auth.py`, `dashboard.py`, `call_history.py`) | none that changes | queries | Postgres |

Everything runs in one asyncio process. Two tasks interleave at `await`s; nothing
locks. What makes the system hard:

- several runs of the pipeline may process one call (teardown hook, API route,
  batch), and they share tables, in-memory stores and the outside world;
- an action is looked up in the log before it is sent, and logged only after all
  actions of the run have been sent; an MCP call may time out after it took effect;
- repositories swallow database errors, so memory and database part ways silently;
- the LLM answers anything, in any order, and is asked again after a refusal;
- a document is a row, chunk rows, vectors and kept answers, written one after the other
  over connections that commit on their own;
- an OAuth row is read, refreshed and written by the API, the MCP server and scripts;
- during a call the turn loop, the authentication listener and HTTP requests of the
  customer's phone read and write the same session without atomicity.

What each part has to get right:

- pipeline: only what the reviewer let through is published; what leaves the system
  fits the verdict; a refused call reaches a human; every run ends;
- reviewer: an escalation or a missing decision never lets an action through;
- executor and log: an intent is not sent again by a later run, and the log is true;
- records: all places that show an analysis show the same one;
- authentication and session: a protected task runs after verification and once;
- live call: transcripts in turn order, one finalization, pipeline started after it;
- documents: rows, vectors and files agree after any mix of upload, reindex, delete;
- connections: a consent is used once, tokens and site belong to one account, a
  disconnected service is not used;
- booking: the time that is said is the time that is booked, and it was free;
- store: all services of a process read and write the same one;
- search and chunking: every text is found once, in its place, as it is now.

## Modules

| module | what it is |
|---|---|
| `PostCall` | the pipeline, its executor, log and records, for any number of runs of one call |
| `PostCallPromise` | what the pipeline promises: an abstract specification that `PostCall` implements |
| `Reviewer` | the reviewer's tool-calling loop and how it becomes a verdict |
| `FaceAuth` | face authentication: session records, picture requests, events |
| `Conversation` | a live call on top of `FaceAuth`: turns, the listener, the shared session |
| `LiveCall` | the media socket of a call, its rows in the database and the runs that read them |
| `Booking` | booking a time by phone: understanding it, asking the calendar, offering, inserting |
| `Vision` | the routing of a turn and the branch that asks for a picture |
| `KeyValue` | the store behind the sessions: Redis, or memory after Redis failed |
| `Retrieval` | hybrid search: two rankings, their fusion, the gates, while the store changes |
| `Documents` | a tenant's documents in four places, and the requests and scripts that write them |
| `Chunking` | one file from the tree of the PDF reader to stored chunks |
| `Normalizer` | the fields of an analysis, put in order on the way to the rows |
| `Integrations` | the connection of a tenant to one outside service, its tokens and its users |
| `MC...` | values, symmetry and combinations for TLC (`MCTurns` holds `KeyValue`, `Vision` and `Retrieval`, `MCAlgorithms` holds `Chunking` and `Normalizer`, in one run each; `MCDocuments` says when the Chroma server may be down) |
| `...Proofs` | TLAPS proofs about the module of that name; `ConversationProofs` is about `FaceAuth` as well, `TurnsProofs` about `KeyValue`, `Vision` and `Booking`, `AlgorithmsProofs` about `Chunking`, `Normalizer` and `Retrieval` |

The modules meet where the code does: `Conversation` extends `FaceAuth` and takes its
actions as they are; `PostCall` instantiates `PostCallPromise` under a refinement mapping;
`LiveCall` starts the run that `PostCall` follows; `Reviewer` produces the verdicts
that `PostCall` takes as given, and `Normalizer` puts in order what it approved; `Chunking`
is what `Documents` does in its `parse` step; `Integrations` supplies the token `Booking` assumes.

### PostCall

A step is what a run does between two awaits. `pc[r]` is the graph node run `r` is at;
a node with several awaits has several values (`save_summary`, `summary_db`, ...). Each
node is one action or, where it has several exits, one action per exit: the planner is
`PlanEmpty`, `PlanFailed` and `PlanAnalysed`, the reviewer `ReviewMissing` and
`Review`, the executor `SkipAction`, `PassLookup`, `Deliver`, `DeliverTimeout` and
`Refuse`. `RouteAfterPlanner` and `RouteAfterReview` are the conditional edges.

- An analysis is known by the planner call that made it (`run`, `try`), whether it is
  severe (what injects a VOC record) and whether the reviewer edited it.
- An action is known by its place in the plan, its idempotency token, the analysis its
  parameters were filled from, and the `[REVIEW_FAILED]` mark.
- `sent` is what the outside world received. It has no counterpart in the code; the
  properties are about it.
- `Faults` switches on lost database reads and writes (`db`), MCP calls that time out
  after taking effect (`mcp`) and the death of the process (`crash`), after which the
  in-memory stores are empty and the tables are not.
- `Serial` restricts runs to one after another; without it they overlap at every await.
- The batch script is a process of its own; the model gives it the in-memory stores of
  the server. This only adds behaviours to what the stores can hold.
- LLM answers are nondeterministic choices: any severity, any list of up to
  `MaxProposals` proposals with repetitions, any verdict with any approved subset.
- A verdict in `PostCall` is any combination `Reviewer` can produce, and more.

### Reviewer

One step of the loop is `Ask`, tool calls in any order and number (`MaxCalls` bounds
them), and `EndAnswer`. The tools that only observe are `OnlyObserves`. `Decide` is the
code after the loop: undecided actions are rejected, the verdict is the explicit one or
derived, the confidence may lower it, and a failed review approves nothing. A field's
value is abstracted to whether it is original, a default (null, neutral, low) or
something else, the distinction the evidence rule makes.

### FaceAuth

`auth[a]` is the hash `auth:session:{a}`: `Issue` is `create_session` and the SMS,
`Expire` the TTL. A request of `verify_face` is `Check`, `Count`, `Compare`, `Publish`,
one action per stretch between awaits; requests overlap freely. A write into a hash that
has expired creates it again without TTL and without the fields of `create_session`
(`made = "recreated"`); a request that read such a record raises after counting. The page
behind the link posts pictures and reads the status and does nothing else, so the
liveness routes are left out; what the comparison says is a choice.

### Conversation

The turn of `call_ws` and the listener it spawns are two processes that share
`session:{call_id}` and `is_speaking`. Every setter of `RedisSessionService` loads the
whole session, changes one field and stores all of it; each is two actions here
(`ClearLoad`/`ClearStore`, `OfferLoad`/`OfferStore`, `SetAuthLoad`/`SetAuthStore`,
`AppendLoad`/`AppendStore`), and `view[p]` is the session as process `p` loaded it.

| code | actions |
|---|---|
| media loop up to STT (`call.py:374-465`) | `Hear`, `RejectVoice`, `Begin`, `Filler` |
| `task_branch_node` | `ReadPending`, `ClearLoad`, `ClearStore`, `Resume`, `Select`, `GateLoad`, `GateStatus`, `OfferLoad`, `OfferStore` |
| `auth_branch_node` | `AuthLoad`, `AuthStatus`, `TakePending`, `ClearLoad`, `ClearStore`, `Resume`, `IssueAuth`, `SetAuthLoad`, `SetAuthStore` |
| end of the turn | `AppendLoad`, `AppendStore` or `GraphFails`; `Spawn`, `Answer`, `EndTurn` |
| `_auth_event_listener`, `_build_verified_response`, `_push_speak` | `Subscribe`, `TakeEvent`, `TakePending`, ..., `Resume`, `Speak`, `Played`, `AppendLoad`, `AppendStore` |
| stop, disconnect, exception | `Hangup` |
| HTTP requests, pub/sub | `Customer`, `Tell` |

A pending task is known by its kind (`protected`: `requires_auth`; `booking`: kind
`availability_confirmed`) and the turn that created it. `runs` counts how often each
was carried out and `agreed` holds the bookings the caller consented to; both exist for the
properties only. Other branches of the graph and tools without a gate do not touch
the session except by the final append and are one choice. Left out: the text of the
history, the one-hour TTL of the session, vision and OCR ids, the greeting, audio, transcripts.

### LiveCall

`pc` is where the coroutine of `call_ws` is, `lpc` where the listener is; an action is a stretch
between two awaits that matter. Twilio's messages wait in `socket` while a turn is worked on.
`Start` and `Greet` are the start event, `Receive` reads one message, `Verify`, `Hear`, `Silence`,
`Enroll` are the speech path (VAD, voice check, end of a sentence, STT, enrolment), `CustomerLine`,
`AgentLine`, `Count` the two transcript rows and the turn number, `Answer` and `Play` the speech;
`Teardown` and `Finalize` are the `finally` block with `finalize_call` and the task it leaves.
`Event`, `Push`, `PushLine` and `PushEnd` are the listener. `BatchStart`, `BatchRun` are
`completed_call_runner` over rows that are completed; `Load` is a run reading its context.
Every database write may be lost, since the repository swallows the error. `raced` is a history
variable: the listener began to speak while a turn was verifying the voice.

### Booking

A time is a number of half hours. `ExtractTime` and the operators before it are
`utils/korean_time`: week, weekday, part of the day, hour. `Availability`, `FreeSlots`,
`NextFreeSlot` are the calendar connector with the opening hours per industry. The turns:
`AskTime` (or `DirectSchedule`, a tool call without a check), `CheckThenConfirm` (the outside call, with
the events as they are then), `Reply` (what `task_branch_node` takes as a yes, a no or another time), `Insert`.
`Staff` enters events between any two of them. `met` remembers whether an event stood at that
time when the caller was offered it.

### Vision

`RouterReads` and `Route` are the intent router: an open link takes every turn to the
picture branch, before anything else is looked at. `CreateLink`, `SendLink`, `RememberLoad`, `RememberStore`
are the awaits of a new link; `Wait`, `ReadFailure`, `ReadResult`, `ForgetLoad`, `ForgetStore`, `Tell` those of its
later turns: a link is forgotten before anything is told of it. As in `Conversation`, a setter of the session is a
load and a store of all of it, two actions; `view` and `heard` are the `vision_id` in the session as the turn and the
listener loaded it. Every turn ends with such a pair (`AppendLoad`, `AppendStore`) unless the graph raised
(`GraphFails`), and after an auth turn the listener may run: `ListenerLoad`, `ListenerStore` are its
`clear_pending_task`, which it calls without waiting for `is_speaking`, and its `append_turn`. `putBack` counts how
often such a store brought a link back. The service that
looks at the picture is not in the repository; `Post`, `PredictStart`, `PredictEnd` do what the setters of
`VisionSessionService` are for and are marked external. `LoseStore` is the switch of `KeyValue`.

### KeyValue

`get_kv` is three actions, `GetKv`, `TakeInitLock`, `Connect`, because several services may ask
before the first connection is made. `Call`, `Answer`, `Broken` are one operation of a service: in
memory at once, in Redis with the awaited answer, or with a broken connection, after which
the wrapper repeats it in its dictionary and stays there (`_fail`).

### Retrieval

`Ask`, `List`, `Build`, `Fuse`, `Enrich`, `Gates` are one question from `retrieve` to the answer
or the fallback; `PrewarmList` and `PrewarmBuild` are the start-up task that builds the same
index. `Change` adds or removes a vector at any point between them. Scores are kept as orders;
the reciprocal ranks are whole numbers over a common denominator (`Scale`) of the shares of all ranks, so
equal sums are equal, as they are for the code up to rounding. The fused list is stated by its pairs (`Ranked`).

### Documents

A job is one request or script (`upload`, `reindex`, `view`, `edit`, `delete`, `reseed`, `ask`) and
its steps are the calls of its handler in order, each of which may fail or be the last. `row`, `chunk`,
`vec` and `cache` are the four places, and `local` is a fifth: the store in a directory that a `ChromaRAGService` opens
when it cannot reach the server (`chroma.py:27`). Every request builds a service of its own, so every request chooses
among `Clients` where its service connects first, and its vectors are written there (`WriteVectors`) without anyone being
told. `ReseedCollection` may fail and go on, as `reseed_one_tenant.py:80-84` does with any error. The history
variables record which documents two requests held at the same time (`overlapped`), of which a read or a clear failed
without a trace (`degraded`), and which were handled in the local store or kept by a reseed whose collection was not
dropped (`strayed`). Each property names the ones it excludes; `DeletedNotSearchable`, `DeletedWithItsVectors` and
`ReseedStartsEmpty` show what happens inside.

### Chunking

The stages of `PDFProcessor.process`: `Parse` flattens and sorts the tree (`FlattenJson`: the one list of the kept
kids in which every pair is in order), `GroupHeading`, `GroupTable`, `GroupText`, `GroupEnd` are the grouping loop,
`MergeShort` the joining loop, one chunk a step into `merged`, `MergeEnd` its end, and `NaturalizeTables`,
`PolishChunks`, `Embed`, `EnrichChunks`, `Store` what follows. A text is its length and its numbers, what the
code measures; the model's reply is any list of the constant `Replies`, too long or too short, dealt to the
sections of a batch by their place (`Batch`, `Place`).

### Normalizer

`Record` is `record_analysis` under every answer of the model, `OverwriteField` the reviewer's
overwriting of any field, tiers, reasons and whole results included, which gives a result that was nulled before its
fields back (`_set_path`), `SaveReviewed` and `SaveFinal` the two passes of
`normalize_post_call_result`. A text is the set of the words the rules look for; the reasons of the intent and of the
priority are among the texts they read. A priority stands in four places, priority and tier of the analysis and of the
copy in the VOC result; one of them counts and is written to all four (`ValidOutputKept`). That a valid value in another
place is kept, as the docstring has it, is false: `ValidVocPriorityPreserved` and `ValidTierPreserved` below.

### Integrations

One provider of any kind, its row and the row of its older name. `Authorize`, `CallbackVerify`,
`CallbackStore`, `SelectRead`, `SelectWrite`, `Disconnect` are the routes; `ConnectorRead` and
`GetTenantToken` the two ways to a token, `RefreshAccessToken` and `Reread` the renewal, one
action per connector and tool for the request that leaves. A token is known by its account,
an expiry by whether it has passed. `last`, `named`, `off`, `blended` are history variables for the properties.

## Runs

| run | instance | shows |
|---|---|---|
| `one_run` | 1 run, 2 retries (the code's limit), 1 proposal, all faults, fair | `SentRespectsReview`, `SentFromLastTry`, `EscalationLeavesNoTrace`, `EveryPlannedActionAttempted`, `KeepsPromise`, `RunsEnd`, `RefusalAlertsAdmin` |
| `overlap` | 2 overlapping runs, 1 retry, crashes | `OnlyReviewedPublished` whichever way two runs interleave |
| `serial` | 2 runs in turn, 2 proposals, lost MCP answers | `NoResendAcrossRuns`, `LogTellsTruth`, `RecordsAgree` |
| `reviewer_loop` | 2 actions, 1 field, 3 steps of up to 3 calls, fair | `EscalationIsFinal`, `ReviewEnds` |
| `conversation` | 3 turns, 2 auth sessions, 2 face requests, limit 2 | `ProtectedNeedsFace`, `FailuresEndTheSession`, `SessionStaysCleared`, `OnceWithoutListener` |
| `live_call` | 2 sentences, 2 events for the listener, 1 batch, any write lost, server dies | `OneIndexPerExchange`, `AnalysedWhole`, `HangupEnds` |
| `booking` | 2 callers and the staff, 2 events, 5 ways to name a time, 2 industries | `BookedTimeWasFree`, `SuggestionIsOpen`, `OfferSaidBackIsUnderstood` |
| `documents` | 3 requests, 2 documents of 2 chunks, a reindex that reads 1; 2 at a time on the server, or 1 at a time, each on the server or on the local store, with reseeds that keep the collection | `VectorsHaveADocument`, `EditSurvives`, `KeptAnswerIsCurrent` |
| `integrations` | 2 requests at a time, 2 states, 2 accounts, 2 sites, every provider | `OneExchangePerState`, `IssueGoesToAChosenSite`, `RowIsOneAccount`, `DisconnectStays` |
| `turns` | 3 services and 2 starts; 4 turns, 2 links, 2 pictures, 1 store of the listener; 2 documents, 1 question, 2 changes | `OneStore`, `ToldAgainOnlyWhenPutBack`, `RouterIsFreed`, `BothBeatOne`, `TextIsCurrent` |
| `algorithms` | all files of up to 4 of 9 kinds of element; all analyses, 2 corrections | `EveryTextOnce`, `PathEncloses`, `SectionNumbersKept`, `ValidOutputKept`, `WorseNewsIsNotLower` |
| `deleted_not_searchable` | 2 requests on 1 document | violated: `DeletedNotSearchable` |

What the passing runs say, in the words of the code:

- pipeline: what was sent is what the verdict of the last review permits, drawn from the last plan;
  a call that is escalated leaves no analysis; whatever was planned was tried even when a database
  write or an MCP answer was lost; a later run does not repeat an action of an earlier one; log,
  summary and VOC row agree; every run ends and a final refusal reaches an admin;
- call: a protected task needs a face that matched; two concurrent pictures cannot exceed the limit;
  the session stays deleted after a hangup; a run started by the hook or the batch reads a transcript to
  which nothing is added; a hangup that waits behind a turn still ends the call;
- documents: vectors and rows part only when requests overlap on one document, when a request worked on the local store,
  or when a reseed did not drop its collection; edits are lost only by an overlap or a listing that failed unnoticed,
  whichever store was used; kept answers go stale in any of these cases only;
- pictures: a result is told again only after the listener put its link back into the session, and an open link always
  ends;
- connections: what `oauth.py`, `state.py` and `provider_lookup.py` do between read and write mixes
  accounts only when a renewal was under way, never the state, never the site.

The violation: `08_rag_documents.sql:6` wants the vectors deleted with the document, but a
reindex or upload that is under way upserts them again after the delete (`tenant.py:183`), and
no request reaches them any more.

### What comments say and the code does not do

These definitions are in the modules but in no run: each states what a comment, docstring or
test promises, and TLC gives a counterexample to each when it is added to the named
configuration as an invariant.

| definition | configuration | the text | the code |
|---|---|---|---|
| `OncePerIntent` (`PostCall`) | `PostCallSerial` | `graph.py:25`, planner 360-362: one per call, the executor skips after the first | the same intent proposed twice in one plan is sent twice: the log is written after all were sent (`executor.py:81`) |
| `EveryCallRecorded` (`PostCall`) | `PostCallOneRun` | planner 395, 464: every call gets a `call_record` | a failed planner ends the run without one (703) |
| `VocRecordReviewed` (`PostCall`) | `PostCallOneRun` | planner 447: the VOC record is what passed the reviewer | filled before the review, not refreshed (`reviewer_agent_node.py:718`) |
| `SampleNeverPublished` (`PostCall`) | `PostCallOneRun` | `runner.py:9`: without a context the agent runs on an empty fallback | it analyses the built-in sample and saves the result (`call_summary_repo.py:360`) |
| `CorrectionsGoOut` (`Reviewer`) | `ReviewerLoop` | `review_catalog.py:93`, reviewer 13: correct, then approve | approving after correcting sends the original (665) |
| `TaskRunsOnce` (`Conversation`) | `ConversationCall` | `auth_branch_node.py:72`: cleared before it is resumed | a turn and the listener both read it before either clears it (`call.py:257`) |
| `ConsentBeforeBooking` (`Conversation`) | `ConversationCall` | `task_branch_node.py:601`: a booking waits for consent | a verified face resumes it without |
| `DeletedWithItsVectors` (`Documents`) | `DocumentsRequests` | `08_rag_documents.sql:6`: the vectors are deleted with the document | with no second request: a service that cannot reach the server deletes from a local store and reports success (`chroma.py:27`); the row is marked deleted, the server keeps the vectors |
| `ReseedStartsEmpty` (`Documents`) | `DocumentsRequests` | `reseed_one_tenant.py:3`: collection and rows are deleted, then the file is indexed | any error of `delete_collection` is logged as a collection that is not there (83-84), and the rows alone go |
| `ToldOnce` (`Vision`) | `TurnsLeanOn` | `redis_session.py:122`: the link is cleared after its result, for a new cycle | the listener loads the session for `clear_pending_task` (`call.py:260`), the turn clears the link (127) and tells the result, the listener stores what it loaded, and the next turn tells it again |
| `ValidVocPriorityPreserved` (`Normalizer`) | `AlgorithmsOnce` | `normalizer.py:18-19`: valid output is preserved | the priority of the analysis replaces a valid one the reviewer set inside the VOC result (34-38, 65) |
| `ValidTierPreserved` (`Normalizer`) | `AlgorithmsOnce` | the same | a valid tier gives way to an inferred priority when the priority beside it is set and invalid (242) |
| `SaidOverIsDropped` (`LiveCall`) | `LiveCallEnds` | `call.py:434-435`: audio during a turn is dropped | frames wait in the socket and are read after it, when `is_speaking` is false again (375) |

Seen while modelling, without a definition: a skipped action gets a log row of its own
although one row per intent is documented (`executor.py:77`); an explicit `pass` may come with rejected
actions (`reviewer_agent_node.py:12`); a correction to a non-default value needs no quote
(`review_catalog.py:156`); of an utterance that holds both, "go on" counts before "refuse"
(`task_branch_node.py:475`, 484-486); a caller who asks for a person gets the picture branch while a link is open
(`intent_router_llm_node.py` 39-47 before 53); no route leads to the `ocr` intent; `api/v1/ocr.py` imports
modules the repository does not have; two uploads of one name look for the old document before either
inserts, so both may stay.

**Bounds.** Two runs are enough for every pairwise race on the shared tables, since
a third run only repeats what the second can do to the first. One retry already gives
a second plan and a second review; `one_run` uses the code's two. Two
proposals allow the same token twice; tokens do not meet in the executor or the log, and a
longer list is treated the same way. Instances without `NotionReady` leave out the injected
records where the property is about LLM proposals or the analysis. Three review steps and
three calls each cover every order of correct, approve, reject, escalate and finalize on
two actions. In `conversation`, three turns allow the longest chain of the code (offer or gate,
authenticate, come back), two requests with a limit of two the race for the last attempt, and two
auth sessions a link that expires and is issued again. In `live_call`, two sentences let one wait
behind the other's turn and two events let the listener speak before and after a turn's lines. In `booking`
the sayings are those at the edges (over midnight, a closed day, a day that is over, an hour past the
end), the calendar spans the week a suggestion may look ahead. In `documents`, two documents are an upload
and what it replaces; the third request comes before or after the two that overlap; `ReindexLimit` is below `MaxChunks` so
that the limit of 1000 bites. With the local store, and with a reseed that keeps its collection, the requests follow one
another (a document that saw both an overlap and one of these is excluded twice), three of them being an edit, the
request that meets the other store, and one that reads what it left. In `integrations` two requests give every race of a reader with a writer, two
accounts and two sites every replacement. In `turns`, three services give a second and a
third that wait for the lock; two links a remembered one and an expired one; the fourth turn lets an auth turn start the listener
before a link is made, remembered, told and met again, and one store of the listener puts it back once (the theorem has any number); the rankings are cut to 2 of 3 so
that one of the answers falls off. In `algorithms` four elements give two headings with a text under each, or three
texts that join, and two corrections take a result away and set it again; scaling `PolishBatch` and `EnrichBatch` to 2 makes a last batch that is not full.

**Fairness.** `FairSpec` assumes weak fairness of each started run (`Step(r)`) and of the
review loop (`Work`): the event loop runs a ready coroutine, LLM calls and MCP calls carry
timeouts, database calls end in success or exception. Nothing is assumed about a run
being started or about the process staying up: a crashed run counts as ended. `LiveCall` assumes
weak fairness of the socket's coroutine (`Socket`), for the same reason, and none of the caller, the listener
or the operator. `TurnsSpec` assumes that the time to live of a link runs out (`ExpireLink`) and
that a picture being looked at gets an answer or a failure (`Predict`). The first is Redis's promise; the
second is an assumption about the service behind `/vision/{id}/predict`, which is not in the repository and
without which a caller could be kept in the picture branch. Nothing is assumed of the caller, who may never speak again. The other specifications are checked for safety only;
their runs let a behaviour stop anywhere and do not check deadlock, since a call, a request or a file that
is done has no step left.

## Proofs

`PostCallProofs` proves, for every set of runs and intents and every limit:

- `TypeCorrect`: `Spec => []TypeOK`. The type invariant is inductive once `Prepared` is
  added: from the executor on, a run has an analysis and its plan was drawn from approved or
  injected actions.
- `AlwaysSafe`: `Spec => []Safe`, the inductive invariant. Neither publication nor sending is
  inductive by itself: that a published analysis is cleared needs that the saving nodes are
  only reached with a cleared verdict (`Routed`), that the verdict and the analysis stand
  still after the review (`Owned`, `Stamped`), and that the plan holds nothing but what
  the verdict permits (`PlanGuarded`, `SentGuarded`).
- `ReviewedOnly`: `Spec => []OnlyReviewedPublished`, and `SendingRespectsReview`:
  `Spec => []SentRespectsReview`, both from `Safe`.

One lemma per group of actions carries types; `PermissionStands`, `PlanOrigin`,
`SentOrigin` and `PublishedOrigin` say what a step may do to what another run relies on;
`SafeThroughCrash` treats the process's death by itself.

The other properties of the pipeline rest on `Safe` and on more of what a run has in hand:

- `AlwaysOrderly`: `Spec => []Orderly`, with the parts `Untouched` (until its review a run has no
  verdict, until its executor no result, and an immediate escalation gets neither), `LastTry` (what a run has in hand
  was written in its current try), `Drafts` (marks and alerts come after the review, no two actions have one place)
  and `Attempted` (what is done and what is left of the plan are what the verdict makes due). From it follow `OnlyTheLastTryIsSent` (`[]SentFromLastTry`),
  `EscalationIsSilent` (`[]EscalationLeavesNoTrace`) and `NothingPlannedIsDropped`
  (`[]EveryPlannedActionAttempted`).
- `PromiseIsKept`: `Spec => KeepsPromise`, the refinement. `Untouched` is what it needed: a run that was not yet
  reviewed has no cleared verdict, so every step of the detailed run is the abstract step of its phase, or a stutter;
  a crash maps to the end of all runs that were active.
- `TheLogIsTheTruth`: `[]LogTellsTruth`, assuming that the database stays up (`"db" \notin Faults`): a lost
  write leaves its row out. The invariant is `Accounted` (what was sent is among the run's results, and with the database
  up all of them are in the log once it is saved) and `RowsTrue` (a success is of an action that was sent), itself
  proved without that assumption (`AlwaysAccounted`).
- `NeverResent` and `OneStory`: `[]NoResendAcrossRuns` and `[]RecordsAgree`, assuming `Calm`: runs follow one
  another and nothing fails but the gateway, as in the `serial` run. The executor looks at the log before the
  gateway and writes it after, so two runs that overlap may both send; `Alone` and `LookedUp` say why
  two that do not overlap cannot. `Story` follows the saving run through its four writes.

`ConversationProofs` proves first `FaceSpec => []FaceInv` for any set of requests and any limit, and
from it

- `FailuresEnd`: `FaceSpec => []FailuresEndTheSession`. The counter of a living record numbers
  its requests without repetition (`NumbersOK`) and the failure that carries the limit's number
  decides the session (`LimitOK`). If all failures had smaller numbers there would be fewer
  than the limit of them: `FewFailures` injects them into `1..MaxAttempts-1` and counts.
- `VerifiedMatched`: `FaceSpec => []VerifiedMeansMatched`.

It then proves, of `Conversation`, `CallUsesFaceAuth`: `Spec => FaceSpec`, so both facts hold in a
call (`FailuresEndInCall`), and `CallInvariant`: `Spec => []CallInv`, where `CallInv` is
`FaceInv` and

- `Facts`: types, where a subroutine returns to, which task or auth id is at hand at each step;
- `Quiet`: once the call has ended, the session is empty and both processes are off
  (`ClearedForGood`: without it, a process with a loaded view could store it);
- `LockHasHolder`, which is inductive with `Facts` (`LockHeld`);
- `LinkedViews`: the session and every view on its way back into it hold linked ids only
  (`LinkBeforeAuthId`);
- a face matched, or `Clean`: no protected task was carried out, nor is any on its way to being
  carried out past the gate (`FaceBeforeProtected`; matches stay, by `MatchStays`).

`OnceByTheTurns`: `Spec => []OnceWithoutListener`. `TurnsAlone` says that as long as no listener was
started, a task that was carried out is of an earlier turn than the one at work and not the pending one:
the pending task is replaced or cleared before the next turn can resume it.

`ReviewerProofs` proves `TypeCorrect` and, for any proposals, step limit and length of
an answer: `EscalationHolds`, `CutOffHolds`, `NoTrustHolds` (`Spec => []EscalationIsFinal`,
`[]CutOffBlocks`, `[]NoTrustNoPass`) and `DropHolds` (`Spec => DropIsFinal`). Only `Decide` ends a review
(`OnlyDecide`), so each is inductive with the types, except that a cut-off review needs that a
verdict and a confidence come with `finalize_review` only (`FinalizedOK`).

`TurnsProofs` proves, for any services and keys, turns, links and pictures,
callers, events and sayings:

- `StoreIsOne`: `KvSpec => []OneStore`. The invariant `KvInv` says that a process builds one store (`BuildOK`:
  who builds holds the lock and there is none yet) and that a service holds a wrapper where the next one would get a
  dictionary only if that wrapper gave up on Redis (`HeldOK`).
- `ResultToldAgainOnlyWhenPutBack`: `VisionSpec => []ToldAgainOnlyWhenPutBack`. A label is that of a picture of its link
  (`LabelsOK`). `Due` counts how often a result of a link may still be told without the listener: once while the session has
  the link or a turn holds it on the way to forgetting it, twice while a branch tells of it and the session has it again,
  not at all otherwise. `DueOK` says that what was told and what is due never exceed one more than what was put back:
  a turn stores only what it loaded, a branch forgets before it tells, and only the listener's store raises what is due,
  where it is counted. That a new link was told of by nobody follows from links being numbered as they are made
  (`NumberedOK`, `FreshOK`).
- `BookedWasFree`, `SuggestionsAreOpen`, `OffersAreUnderstood`: `[]BookedTimeWasFree`, `[]SuggestionIsOpen`,
  `[]OfferSaidBackIsUnderstood`. The invariant `BookingInv` says that what a caller was offered met no event when it
  was offered, and is the time that was asked for or lies in opening hours. The lemmas are about the calendar: what is the least or the nearest of a set of
  slots (`LeastIn`, `NearestIn`), that a free slot meets no event (`FreeIsFree`), that the slots of a day lie in its hours
  (`DayFacts`, `SlotFacts`), that the next one is within seven days (`NextFacts`), and that a time said back
  is that time (`TimeUnderstood`).

`AlgorithmsProofs` proves, of `Chunking`, for any files, lengths, batch sizes and replies of the model:

- `EachTextOnce`: `[]EveryTextOnce`. `OnceInv` follows the elements from the grouping loop through the joining loop to
  the zip: while chunks are joined, what was taken over and what is left are in the order of the file
  (`HoldAppend`, `HoldLonger`: what is added comes after what is there), no chunk is empty, and there are as many
  labels as chunks up to the place of the loop, so the zip cuts nothing.
- `PathsEnclose`: `[]PathEncloses`. The stack of the loop is, at every element, the list of the headings that enclose it
  (`PathInv`, `EnterEncloses`); a chunk takes the stack that was there at its first text, and a joined chunk keeps
  the path and the first text of the one before it.
- `NumbersKept`: `[]SectionNumbersKept`. Up to the polish a section's text is what its elements join to (`NumbersInv`,
  `MergeRaw`: joining two sections joins their texts, which is a statement about a text of any number of elements), and
  the polish either leaves it or passes `ValidatePolish` against it, once, because batches do not overlap (`Batch`).

of `Retrieval`, for any rankings and any change of the store:

- `FoundTwiceIsFirst`: `[]BothBeatOne`, assuming that both rankings are shorter than `RrfK + 2` (10 and 60 in the
  code). Then any share is more than half of any other (`HalfShare`), so two of them outweigh one (`TwoShares`); with
  longer rankings the property is false: two shares at rank 62 are the one at rank 1. The entry of an index that the
  vectors found has one share of theirs, and the sum over the hits of the words, at least one (`EntryScore`).
- `AnswersFromWhatIsStored`: `[]TextIsCurrent` of `Retrieval`. While a question is under way whatever is stored is
  live, and every entry that was fused has a text of the dense ranking or one read after the question was asked
  (`RetrievalInv`). Of the index nothing need be known: a text is read again before it is used.

and of `Normalizer`, for any words, categories and number of corrections:

- `ValidStays`: `[]ValidOutputKept`. A save keeps an emotion, status, sentiment or category that is valid, and writes the
  priority that counts to all four places; that a valid priority implies a result (`NormInv`) is what makes the
  second save agree with the first. It says nothing of a valid value in a place that does not count, since that one is lost.
- `WorseIsNotLower`: `[]WorseNewsIsNotLower`, from the priority the rules infer (`InferredGrows`) and that of
  the hint (`HintGrows`), each of which grows with the set of words.

The sums and texts of `Chunking` and `Retrieval` are recursive functions over the places of a list. That such a
function exists is proved, not assumed (`LoopExists`, `LoopIs`, `SumFacts`), by a least counterexample: `Counting` takes
it from the library's theorem that the order of the natural numbers is well founded, which speaks of sets and needs
no operator as a parameter.

`DocumentsProofs` proves `NoOrphanVectors`, `EditsSurvive` and `AnswersFollowEdits` (`Spec` implies
`[]VectorsHaveADocument`, `[]EditSurvives`, `[]KeptAnswerIsCurrent`) for any documents, texts, limits, stores and number of
requests, with the exclusions each property names. None of the three is inductive, since a request works for many steps from what it read in the first. The
invariant `DocumentsInv` is

- `Typed` and `PlacesOK`: what a request has in hand fits the call it is before;
- `Exclusive`: of a document on which no two requests met, at most one request is at work;
- `ShownOK`: a document on which no two requests met, and which never strayed, has vectors on the server only while the
  admin sees its row; a request at work on it relies on that row, and takes it only after the vectors (`Cleared`);
- `RowsOK`: a chunk that is there has a text, and a document whose row is gone has neither chunks nor edits;
- `TracedOK`: of a document on which no two requests met, no failure was swallowed, and which never strayed, rows,
  vectors, edits and kept answers agree, except for what its one request has still to write, which is stated call by call;
- `KeptOK`: what was edited is in its chunk row, and rows are made from a file or from vectors only where nothing was
  edited. It is a part of its own because edits survive in a document that strayed as well, where `TracedOK` says nothing.

The proof has one part for the documents a step leaves alone (`StepProper`, `WatchedStep`) and one for the document
of the step, call by call of the seven handlers (`StepCleared`, `StepRows`, `StepGood`, `StepKept`). Two facts about finite sets of
numbers carry the rest: one has a greatest (`GreatestOf`: the document a name was last uploaded as), and places
without a gap are the first ones (`NoGap`: the chunks a reindex counts).

`IntegrationsProofs` proves the types and the four properties of the `integrations` run, each with an
invariant of its own beside them: `StatesOK` (a state whose code was exchanged is gone),
`OffOK` (a row counted as off is disconnected, so no call read its token), `AccountsOK` (row, the choice
about to be written and the renewal under way belong to one account) and `SitesOK` (a site was
named or is the only one, in the row and in every copy of it that is about to be used).

`LiveCallProofs` proves both invariants of `LiveCall` for any number of sentences, events and batches.

- `RunsReadAll`: `Spec => []AnalysedWhole`. A row is completed, a run created and a batch started only
  when the call is over, and then nobody is left who could write a line (`EndedOK`).
- `ExchangeNumbers`: `Spec => []OneIndexPerExchange`. Sentences come to the turn in their order, so a
  turn's exchange is new (`InOrder`); while `is_speaking` was never taken during a voice check, the turn
  and the listener do not write at once (`Apart`); so the highest number belongs to the exchange that is
  being written, if there is one (`Numbered`).

The proofs rest on the assumptions named in the modules (`ConstantsOK`, `ReviewerConstantsOK`,
`NormalizerAssumption`, `FaceAuthConstantsOK`, `ConversationConstantsOK`, `KeyValueAssumption`, `VisionAssumption`,
`ChunkingAssumption`, `RetrievalAssumption`, `BookingAssumption`, `DocumentsAssumption`, `IntegrationsAssumption`, `LiveCallAssumption`), which TLC
evaluates in the runs; what a theorem assumes beyond them is in its statement and named above. Proved although no run checks them:
`CutOffBlocks`, `NoTrustNoPass`, `DropIsFinal`, `LockHasHolder`, `AuthIdHasLink` and the type invariants.

Checked by TLC only: liveness (`RunsEnd`, `RefusalAlertsAdmin`, `ReviewEnds`, `HangupEnds`, `RouterIsFreed`), since the
prover handles neither `ENABLED` nor fairness. Every other property of a passing run has its theorem.

## Not modelled, and why

- OCR (`services/ocr`, `api/v1/ocr.py`): no route leads to the branch and its imports are missing, so
  the flow cannot run.
- Face registration and the liveness routes: the page behind the link does not call them; what they would do
  to a status they read before an await is listed as a hazard.
- Speech (STT, TTS, VAD, speaker models): device I/O and pure functions; their results are choices.
- Admin login, dashboards and other read-only routes: nothing changes.
- LLM and SMS clients, prompts and phrase tables: their answers are choices of the modules that use them.
- Batch reports, seeds and check scripts: they call what is modelled and print.
- Categories in Redis, bounding boxes, encryption of tokens (modelled by its effect), logging.

## Plan

Done: the parts above, with their runs and the proofs named. Left, most important first:

1. Proofs: every safety property of a run has its theorem; left are the promises of the pipeline to a tenant
   when runs overlap (what a second run may send again, and no more), which no property states yet.
2. `LiveCall` composed with `Conversation`, so that a stop that waits in the socket meets the
   listener's loads and stores of the session.
3. A crash between two writes of `save_result_node` composed with the batch's choice of calls.
