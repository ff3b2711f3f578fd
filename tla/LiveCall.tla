------------------------------ MODULE LiveCall ------------------------------
(***************************************************************************)
(* From the caller's voice to the post-call run: the media socket of one   *)
(* call, the row (calls) and the lines (transcripts) it leaves in the      *)
(* database, and the runs that read them: the task the teardown leaves     *)
(* behind and the operator's batch over completed calls.                   *)
(*                                                                         *)
(* One coroutine reads the socket and works on a turn before it reads on,  *)
(* so whatever Twilio sends meanwhile waits in the socket.  The listener   *)
(* of the authentication's events is a second task: it speaks and writes   *)
(* lines too, and shares is_speaking, the buffers and turn_index.  What    *)
(* the turn does with the session is module Conversation, what a run does  *)
(* with the call is module PostCall.  The manual route reads the call      *)
(* without a look at its row, at any time, and writes nothing kept here.   *)
(***************************************************************************)
EXTENDS Integers, Sequences, SequencesExt

CONSTANTS
  MaxSaid,    \* bound: sentences of the caller
  MaxPushes,  \* bound: events of the listener
  MaxBatches  \* bound: batches the operator starts

ASSUME LiveCallAssumption == {MaxSaid, MaxPushes, MaxBatches} \subseteq Nat

VARIABLES
  pc,         \* of the socket's coroutine
  socket,     \* Twilio's messages that wait to be read: [kind, n, over]
  buffer,     \* audio_buffer: the speech of the sentence, had_speech if not empty
  speaking,   \* is_speaking
  turnIndex,
  enrolled,   \* the voiceprint is there
  inRow,      \* db_call_id: the call has its row
  said,       \* number of sentences said by the caller
  sentence,   \* the one the turn works on
  lpc,        \* of the listener
  pushes,     \* events it has taken
  raced,      \* it took is_speaking while a voice was being verified
  row,        \* calls.status, "none" before its INSERT
  lines,      \* its transcripts: [turn, of], in the order of insertion
  runs,       \* post-call runs at work: [by, at, read], read their context
  batch,      \* "off", "target", "wait" or "next"
  batches     \* number of batches started

ear   == <<socket, buffer, enrolled, said, sentence>>
mouth == <<speaking, raced>>
list  == <<lpc, pushes>>
db    == <<row, lines>>
jobs  == <<runs, batch, batches>>
vars  == <<pc, ear, mouth, turnIndex, inRow, list, db, jobs>>

Line(turn, of) == [turn |-> turn, of |-> of]

Init ==
  /\ pc = "start" /\ socket = <<>> /\ buffer = <<>>
  /\ speaking = FALSE /\ turnIndex = 0 /\ enrolled = FALSE /\ inRow = FALSE
  /\ said = 0 /\ sentence = 0
  /\ lpc = "off" /\ pushes = 0 /\ raced = FALSE
  /\ row = "none" /\ lines = <<>>
  /\ runs = {} /\ batch = "off" /\ batches = 0

-----------------------------------------------------------------------------
(* The socket                                                              *)

(* insert_transcript swallows a database error: the line is missing and    *)
(* the caller goes on as if it was there.                                  *)
Insert(line) ==
  \/ inRow /\ lines' = Append(lines, line)
  \/ UNCHANGED lines

ClearBuffers == buffer' = <<>>

(* start: insert_call may fail; then the call leaves nothing in the        *)
(* database.  The greeting is synthesised and played, or failed.           *)
Start ==
  /\ pc = "start"
  /\ \E ok \in BOOLEAN :
       /\ inRow' = ok
       /\ row' = IF ok THEN "in_progress" ELSE row
  /\ \E greeted \in BOOLEAN :
       /\ speaking' = greeted
       /\ pc' = IF greeted THEN "greet" ELSE "receive"
  /\ UNCHANGED <<ear, raced, turnIndex, list, lines, jobs>>

Greet ==
  /\ pc = "greet"
  /\ Insert(Line(turnIndex, <<"greeting", 0>>))
  /\ turnIndex' = IF inRow THEN turnIndex + 1 ELSE turnIndex
  /\ ClearBuffers /\ speaking' = FALSE /\ pc' = "receive"
  /\ UNCHANGED <<socket, enrolled, said, sentence, raced, inRow, list, row, jobs>>

(* media: frames are dropped while something is being said; else they are  *)
(* buffered, and 45 silent frames after speech end the sentence.  A voice  *)
(* that is enrolled is compared first unless the sentence is short.        *)
Receive_DeafWhileSpeaking ==     \* mutant: nothing is handled while speaking
  /\ pc = "receive" /\ socket # <<>>
  /\ socket' = Tail(socket)
  /\ IF speaking \/ (Head(socket).kind = "pause" /\ buffer = <<>>)
       THEN UNCHANGED <<pc, buffer>>
     ELSE IF Head(socket).kind = "speech"
       THEN /\ buffer' = Append(buffer, Head(socket))
            /\ UNCHANGED pc
     ELSE /\ pc' = IF Head(socket).kind = "stop" THEN "completed" ELSE "hear"
          /\ UNCHANGED buffer
  /\ UNCHANGED <<mouth, turnIndex, inRow, enrolled, said, sentence, list, db, jobs>>

Receive ==
  /\ pc = "receive" /\ socket # <<>>
  /\ socket' = Tail(socket)
  /\ LET m == Head(socket) IN
     \/ /\ m.kind = "stop"
        /\ pc' = "completed"
        /\ UNCHANGED buffer
     \/ /\ m.kind = "speech" /\ ~speaking
        /\ buffer' = Append(buffer, m)
        /\ UNCHANGED pc
     \/ /\ m.kind = "pause" /\ ~speaking /\ buffer # <<>>
        /\ pc' \in IF enrolled THEN {"verify", "hear"} ELSE {"hear"}
        /\ UNCHANGED buffer
     \/ /\ m.kind # "stop" /\ (speaking \/ (m.kind = "pause" /\ buffer = <<>>))
        /\ UNCHANGED <<pc, buffer>>
  /\ UNCHANGED <<mouth, turnIndex, inRow, enrolled, said, sentence, list, db, jobs>>

(* _verifier.verify runs in another thread; the listener may go on.        *)
Verify ==
  /\ pc = "verify"
  /\ \/ pc' = "hear" /\ UNCHANGED buffer
     \/ pc' = "receive" /\ ClearBuffers
  /\ UNCHANGED <<socket, enrolled, said, sentence, mouth, turnIndex, inRow, list, db, jobs>>

(* is_speaking is taken and the buffer transcribed; a listener that has    *)
(* just finished may have emptied it.                                      *)
Hear ==
  /\ pc = "hear"
  /\ speaking' = TRUE
  /\ pc' \in IF buffer = <<>> THEN {"silence"} ELSE {"silence", "enroll", "failed"}
  /\ sentence' = IF buffer = <<>> THEN sentence ELSE Last(buffer).n
  /\ ClearBuffers
  /\ UNCHANGED <<socket, enrolled, said, raced, turnIndex, inRow, list, db, jobs>>

(* Nothing was understood.                                                 *)
Silence ==
  /\ pc = "silence"
  /\ pc' = "receive" /\ speaking' = FALSE /\ ClearBuffers
  /\ UNCHANGED <<socket, enrolled, said, sentence, raced, turnIndex, inRow, list, db, jobs>>

(* accumulate: after enough audio the voice is enrolled, or the extraction *)
(* fails and the buffer is gone.  The filler takes is_speaking again.      *)
Enroll ==
  /\ pc = "enroll"
  /\ pc' = "customer"
  /\ enrolled' \in {enrolled, TRUE}
  /\ speaking' \in {speaking, TRUE}
  /\ UNCHANGED <<socket, buffer, said, sentence, raced, turnIndex, inRow, list, db, jobs>>

(* The graph has answered, or failed and the sentence is echoed; both      *)
(* lines of the turn are inserted with the turn_index of the moment, which *)
(* is raised after them.                                                   *)
CustomerLine ==
  /\ pc = "customer"
  /\ pc' = "agent"
  /\ Insert(Line(turnIndex, <<"turn", sentence>>))
  /\ UNCHANGED <<ear, mouth, turnIndex, inRow, list, row, jobs>>

AgentLine ==
  /\ pc = "agent"
  /\ pc' = "count"
  /\ Insert(Line(turnIndex, <<"turn", sentence>>))
  /\ UNCHANGED <<ear, mouth, turnIndex, inRow, list, row, jobs>>

(* After a turn of the authentication the listener is spawned, once.       *)
Count ==
  /\ pc = "count"
  /\ pc' = "answer"
  /\ turnIndex' = IF inRow THEN turnIndex + 1 ELSE turnIndex
  /\ \E auth \in BOOLEAN : lpc' = IF auth /\ lpc = "off" THEN "listen" ELSE lpc
  /\ UNCHANGED <<ear, mouth, inRow, pushes, db, jobs>>

(* The answer is synthesised, or not even the apology is; then it is       *)
(* played, unless the socket is gone, and a goodbye hangs up.              *)
Answer ==
  /\ pc = "answer"
  /\ \E audio \in BOOLEAN :
       /\ speaking' = audio
       /\ pc' = IF audio THEN "play" ELSE "receive"
  /\ UNCHANGED <<ear, raced, turnIndex, inRow, list, db, jobs>>

Play ==
  /\ pc = "play"
  /\ \/ pc' = "receive" /\ speaking' = FALSE /\ ClearBuffers
     \/ pc' = "failed" /\ UNCHANGED <<speaking, buffer>>
  /\ UNCHANGED <<socket, enrolled, said, sentence, raced, turnIndex, inRow, list, db, jobs>>

(* The socket is closed under the coroutine while it waits for a message.  *)
Disconnect ==
  /\ pc = "receive" /\ socket = <<>>
  /\ pc' = "failed"
  /\ UNCHANGED <<ear, mouth, turnIndex, inRow, list, db, jobs>>

Teardown_ListenerLives ==     \* mutant: the listener is not cancelled
  /\ pc \in {"completed", "failed"}
  /\ pc' = IF pc = "completed" THEN "finalize" ELSE "abandon"
  /\ UNCHANGED <<ear, mouth, turnIndex, inRow, list, db, jobs>>

(* stop, a disconnect or an exception: the listener is cancelled (a line   *)
(* it is inserting is there or not), voice and session are cleared.        *)
Teardown ==
  /\ pc \in {"completed", "failed"}
  /\ pc' = IF pc = "completed" THEN "finalize" ELSE "abandon"
  /\ lpc' = "off" /\ speaking' = FALSE /\ enrolled' = FALSE
  /\ ClearBuffers
  /\ UNCHANGED <<socket, said, sentence, raced, turnIndex, inRow, pushes, db, jobs>>

(* finalize_call swallows a database error; the post-call task is created  *)
(* whatever became of the row.  Any end but Twilio's stop is "abandoned".  *)
Finalize ==
  /\ pc \in {"finalize", "abandon"}
  /\ pc' = "over"
  /\ IF ~inRow THEN UNCHANGED <<row, runs>> ELSE
     /\ runs' = runs \cup {[by |-> "hook", at |-> "start", read |-> <<>>]}
     /\ \E ok \in BOOLEAN :
          row' = IF ~ok THEN row ELSE IF pc = "finalize" THEN "completed" ELSE "abandoned"
  /\ UNCHANGED <<ear, mouth, turnIndex, inRow, list, lines, batch, batches>>

Socket ==
  \/ Start \/ Greet \/ Receive \/ Verify \/ Hear \/ Silence \/ Enroll \/ CustomerLine
  \/ AgentLine \/ Count \/ Answer \/ Play \/ Teardown \/ Finalize

Message(kind) == [kind |-> kind, n |-> said + 1, over |-> speaking]

(* The caller speaks, also while the assistant does, and hangs up.         *)
Caller ==
  /\ pc \notin {"start", "completed", "failed", "finalize", "abandon", "over", "dead"}
  /\ \A i \in DOMAIN socket : socket[i].kind # "stop"
  /\ \/ /\ said < MaxSaid
        /\ said' = said + 1
        /\ socket' = Append(Append(socket, Message("speech")), Message("pause"))
     \/ /\ socket' = Append(socket, Message("stop"))
        /\ UNCHANGED said
  /\ UNCHANGED <<pc, buffer, enrolled, sentence, mouth, turnIndex, inRow, list, db, jobs>>

-----------------------------------------------------------------------------
(* The listener                                                            *)

Event ==
  /\ lpc = "listen" /\ pushes < MaxPushes
  /\ pushes' = pushes + 1
  /\ lpc' = "wait"
  /\ UNCHANGED <<pc, ear, mouth, turnIndex, inRow, db, jobs>>

Push_NoWait ==     \* mutant: _push_speak does not wait for is_speaking
  /\ lpc = "wait"
  /\ lpc' = "push" /\ speaking' = TRUE
  /\ UNCHANGED <<pc, ear, raced, turnIndex, inRow, pushes, db, jobs>>

(* _push_speak waits for is_speaking, 30 seconds at most.                  *)
Push ==
  /\ lpc = "wait"
  /\ \/ /\ ~speaking
        /\ lpc' = "push" /\ speaking' = TRUE
        /\ raced' = (raced \/ pc \in {"verify", "hear"})
     \/ /\ speaking
        /\ lpc' \in {"listen", "off"}
        /\ UNCHANGED mouth
  /\ UNCHANGED <<pc, ear, turnIndex, inRow, pushes, db, jobs>>

PushLine ==
  /\ lpc = "push"
  /\ lpc' = "counted"
  /\ Insert(Line(turnIndex, <<"push", pushes>>))
  /\ UNCHANGED <<pc, ear, mouth, turnIndex, inRow, pushes, row, jobs>>

(* The line is counted, or speaking failed before it; the finally clears   *)
(* the buffers and the lock whoever holds it now.  verified and blocked    *)
(* end the listener.                                                       *)
PushEnd ==
  /\ \/ lpc = "counted" /\ turnIndex' = IF inRow THEN turnIndex + 1 ELSE turnIndex
     \/ lpc = "push" /\ UNCHANGED turnIndex
  /\ lpc' \in {"listen", "off"}
  /\ speaking' = FALSE /\ ClearBuffers
  /\ UNCHANGED <<pc, socket, enrolled, said, sentence, raced, inRow, pushes, db, jobs>>

Listener == Event \/ Push \/ PushLine \/ PushEnd

-----------------------------------------------------------------------------
(* Post-call runs                                                          *)

(* get_completed_call_context_from_db: the lines the database has.  When   *)
(* they cannot be read the batch's run stops there; the hook's goes on     *)
(* with what module PostCall makes of it.                                  *)
Load(r) ==
  /\ r \in runs /\ r.at = "start"
  /\ \/ runs' = (runs \ {r}) \cup {[r EXCEPT !.at = "run", !.read = lines]}
        /\ UNCHANGED batch
     \/ runs' = runs \ {r}
        /\ batch' = IF r.by = "batch" THEN "next" ELSE batch
  /\ UNCHANGED <<pc, ear, mouth, turnIndex, inRow, list, db, batches>>

(* The batch awaits its run, good or bad.                                  *)
RunEnds(r) ==
  /\ r \in runs /\ r.at = "run"
  /\ runs' = runs \ {r}
  /\ batch' = IF r.by = "batch" THEN "next" ELSE batch
  /\ UNCHANGED <<pc, ear, mouth, turnIndex, inRow, list, db, batches>>

(* build_target_calls_sql: completed calls; --only-missing-results,        *)
(* --limit and --offset may leave this one out.                            *)
Targeted == row = "completed"

BatchStart ==
  /\ batch = "off" /\ batches < MaxBatches
  /\ batches' = batches + 1
  /\ Targeted
  /\ batch' = IF lines = <<>> THEN "next" ELSE "target"    \* run_batch skips it
  /\ UNCHANGED <<pc, ear, mouth, turnIndex, inRow, list, db, runs>>

(* run_batch: first other calls, then this one, then the rest.             *)
BatchRun ==
  /\ \/ /\ batch = "target"
        /\ batch' = "wait"
        /\ runs' = runs \cup {[by |-> "batch", at |-> "start", read |-> <<>>]}
     \/ /\ batch = "next"
        /\ batch' = "off"
        /\ UNCHANGED runs
  /\ UNCHANGED <<pc, ear, mouth, turnIndex, inRow, list, db, batches>>

BatchInterrupted ==
  /\ batch # "off"
  /\ batch' = "off"
  /\ runs' = {r \in runs : r.by # "batch"}
  /\ UNCHANGED <<pc, ear, mouth, turnIndex, inRow, list, db, batches>>

(* The server dies: its socket, listener and tasks are gone; the row stays *)
(* as it is.                                                               *)
Crash ==
  /\ pc \notin {"start", "over", "dead"} \/ \E r \in runs : r.by # "batch"
  /\ pc' = "dead" /\ lpc' = "off"
  /\ socket' = <<>> /\ ClearBuffers /\ speaking' = FALSE /\ enrolled' = FALSE
  /\ runs' = {r \in runs : r.by = "batch"}
  /\ UNCHANGED <<said, sentence, raced, turnIndex, inRow, pushes, db, batch, batches>>

Next ==
  \/ Socket \/ Disconnect \/ Caller \/ Listener
  \/ \E r \in runs : Load(r) \/ RunEnds(r)
  \/ BatchStart \/ BatchRun \/ BatchInterrupted \/ Crash

(* The coroutine goes on: its outside calls answer or time out.            *)
Spec == Init /\ [][Next]_vars /\ WF_vars(Socket)

-----------------------------------------------------------------------------
TypeOK ==
  /\ turnIndex \in Nat /\ said \in 0..MaxSaid /\ pushes \in 0..MaxPushes
  /\ lpc \in {"off", "listen", "wait", "push", "counted"}
  /\ row \in {"none", "in_progress", "completed", "abandoned"}
  /\ \A r \in runs : r.by \in {"hook", "batch"} /\ r.at \in {"start", "run"}
  /\ batch \in {"off", "target", "wait", "next"}

(* call.py:199 "customer + agent share one turn_index": two lines have the *)
(* same index exactly if they are of one exchange, so ORDER BY turn_index  *)
(* tells the call as it went.  The one way around is_speaking is the voice *)
(* check, which is awaited before the lock is taken.                       *)
OneIndexPerExchange ==
  ~raced => \A i, j \in DOMAIN lines :
    (lines[i].turn = lines[j].turn) <=> (lines[i].of = lines[j].of)

(* The hook's and the batch's runs read a call that is over: no line is    *)
(* added after they have read it.                                          *)
AnalysedWhole ==
  \A r \in runs : r.at = "run" => r.read = lines

(* A stop, wherever it waits in the socket, ends the call: the row is      *)
(* finalised and the run started, unless the server dies.                  *)
HangupEnds ==
  (\E i \in DOMAIN socket : socket[i].kind = "stop") ~> pc \in {"over", "dead"}

(* What a comment promises and the code does not keep: "user audio is      *)
(* dropped during STT, graph and TTS; what is said while waiting for the   *)
(* answer does not pile up in the buffer" (call.py:434-435).               *)
SaidOverIsDropped == \A i \in DOMAIN buffer : ~buffer[i].over
=============================================================================
