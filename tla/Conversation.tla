---------------------------- MODULE Conversation ----------------------------
(***************************************************************************)
(* A live call with everything that reads and writes its session: the turn *)
(* (call_ws, _run_conversational_graph, task_branch, auth_branch), the     *)
(* listener for auth events, which answers on its own while turns go on,   *)
(* and, through FaceAuth, the face requests behind both.  The session is   *)
(* one JSON value; every setter loads it, changes one field and stores the *)
(* whole value, with an await in between (RedisSessionService), so each    *)
(* setter is two steps here.                                               *)
(*                                                                         *)
(* Left out: the text of the history (an append writes back the view it    *)
(* loaded), the one-hour TTL that every store renews, the image branches,  *)
(* the greeting.                                                           *)
(***************************************************************************)
EXTENDS FaceAuth, Sequences

CONSTANT MaxTurns   (* bound on the turns of the call *)

ASSUME ConversationConstantsOK == MaxTurns \in Nat

VARIABLES
  session,    (* session:{call_id}: auth_id and pending_task               *)
  turns,      (* turns begun so far                                        *)
  intent,     (* graph_intent of the turn                                  *)
  pc,         (* where the turn and the listener are                       *)
  view,       (* the session as each of them loaded it                     *)
  task,       (* the pending task each of them holds                       *)
  after,      (* where each of them goes once its subroutine returns       *)
  lauth,      (* the auth id the listener subscribed to                    *)
  inbox,      (* its events                                                *)
  speaking,   (* is_speaking                                               *)
  ended,      (* the call is over                                          *)
  runs,       (* history: how often each task was carried out              *)
  agreed      (* history: bookings the caller agreed to                    *)

turnVars == <<turns, intent>>
procVars == <<pc, view, task, after>>
earVars  == <<lauth, inbox>>
history  == <<runs, agreed>>
vars == <<session, turnVars, procVars, earVars, speaking, ended, history, faceVars>>

Procs == {"turn", "listener"}

(* A task is named by its kind and the turn that created it.  "protected": *)
(* requires_auth; "booking": kind availability_confirmed, that is a        *)
(* schedule_callback waiting for the caller's consent.                     *)
Kinds  == {"protected", "booking"}
Tasks  == [kind : Kinds, turn : 1..MaxTurns]
NoTask == [kind |-> "none", turn |-> 0]

Sessions == [auth : Auths \cup {NoAuth}, pending : Tasks \cup {NoTask}]
Empty    == [auth |-> NoAuth, pending |-> NoTask]

Init ==
  /\ FaceInit
  /\ session  = Empty
  /\ turns    = 0
  /\ intent   = "none"
  /\ pc       = [p \in Procs |-> IF p = "turn" THEN "idle" ELSE "off"]
  /\ view     = [p \in Procs |-> Empty]
  /\ task     = [p \in Procs |-> NoTask]
  /\ after    = [p \in Procs |-> "off"]
  /\ lauth    = NoAuth
  /\ inbox    = <<>>
  /\ speaking = FALSE
  /\ ended    = FALSE
  /\ runs     = [t \in Tasks |-> 0]
  /\ agreed   = {}

Goto(p, l) == pc' = [pc EXCEPT ![p] = l]

(* A view is not used again once it is stored.                             *)
Store(p, value) ==
  /\ session' = value
  /\ view' = [view EXCEPT ![p] = Empty]

-----------------------------------------------------------------------------
(* What the turn and the listener both do.                                 *)

(* clear_pending_task: load, return if nothing is there, else store.       *)
ClearLoad(p) ==
  /\ pc[p] = "clear"
  /\ view' = [view EXCEPT ![p] = session]
  /\ Goto(p, IF session.pending = NoTask THEN after[p] ELSE "clearing")
  /\ UNCHANGED <<session, turnVars, task, after, earVars, speaking, ended, history, faceVars>>

ClearStore(p) ==
  /\ pc[p] = "clearing"
  /\ Store(p, [view[p] EXCEPT !.pending = NoTask])
  /\ Goto(p, after[p])
  /\ UNCHANGED <<turnVars, task, after, earVars, speaking, ended, history, faceVars>>

(* mcp_client.call_tool for a task that was pending: _resume_pending_task  *)
(* or _resume_schedule_callback.  It may fail, or ask for what is missing. *)
Resume(p) ==
  /\ pc[p] = "resume"
  /\ \E ok \in BOOLEAN :
       runs' = IF ok THEN [runs EXCEPT ![task[p]] = @ + 1] ELSE runs
  /\ Goto(p, IF p = "turn" THEN "append" ELSE "speak")
  /\ after' = [after EXCEPT ![p] = "off"]
  /\ UNCHANGED <<session, turnVars, view, task, earVars, speaking, ended, agreed, faceVars>>

(* append_turn.  The turn then looks whether to spawn the listener; the    *)
(* listener releases is_speaking (the finally of _push_speak).             *)
AppendLoad(p) ==
  /\ pc[p] = "append"
  /\ view' = [view EXCEPT ![p] = session]
  /\ Goto(p, "appending")
  /\ UNCHANGED <<session, turnVars, task, after, earVars, speaking, ended, history, faceVars>>

AppendStore(p) ==
  /\ pc[p] = "appending"
  /\ Store(p, view[p])
  /\ Goto(p, IF p = "turn" THEN "spawn" ELSE after[p])
  /\ speaking' = (speaking /\ p = "turn")
  /\ task' = [task EXCEPT ![p] = NoTask]
  /\ UNCHANGED <<turnVars, after, earVars, ended, history, faceVars>>

-----------------------------------------------------------------------------
(* The turn                                                                *)

(* The silence threshold is reached while nothing is being said.  With an  *)
(* enrolled voice _verifier.verify is awaited before the lock is taken.    *)
Hear ==
  /\ pc["turn"] = "idle"
  /\ ~ended /\ ~speaking /\ turns < MaxTurns
  /\ Goto("turn", "heard")
  /\ UNCHANGED <<session, turnVars, view, task, after, earVars, speaking, ended, history, faceVars>>

RejectVoice ==
  /\ pc["turn"] = "heard"
  /\ Goto("turn", "idle")
  /\ UNCHANGED <<session, turnVars, view, task, after, earVars, speaking, ended, history, faceVars>>

(* is_speaking = True, STT, then the graph up to its branch.  "silence":   *)
(* nothing was recognised; "other": a branch that leaves tasks alone.      *)
Begin ==
  /\ pc["turn"] = "heard"
  /\ speaking' = TRUE
  /\ turns' = turns + 1
  /\ \E i \in {"task", "auth", "other", "silence"} :
       /\ intent' = i
       /\ Goto("turn", CASE i = "task"    -> "pending"
                         [] i = "auth"    -> "getAuth"
                         [] i = "other"   -> "append"
                         [] i = "silence" -> "playing")
  /\ task' = [task EXCEPT !["turn"] = NoTask]
  /\ UNCHANGED <<session, view, after, earVars, ended, history, faceVars>>

(* The second filler takes the lock again while the graph still runs.      *)
Filler ==
  /\ pc["turn"] \notin {"idle", "heard", "spawn", "answer", "playing"}
  /\ ~speaking
  /\ speaking' = TRUE
  /\ UNCHANGED <<session, turnVars, procVars, earVars, ended, history, faceVars>>

ReadPending_NoClear ==      \* mutant: a consent is carried out before clearing
  LET pending == session.pending IN
  /\ pc["turn"] = "pending"
  /\ task' = [task EXCEPT !["turn"] = pending]
  /\ IF pending.kind = "booking"
       THEN /\ Goto("turn", "resume")
            /\ agreed' = agreed \cup {pending}
       ELSE /\ Goto("turn", "select")
            /\ UNCHANGED agreed
  /\ UNCHANGED <<session, turnVars, view, after, earVars, speaking, ended, runs, faceVars>>

(* task_branch step 0: a booking waiting for consent is cleared whatever   *)
(* the caller answers, and carried out if the answer is a consent.         *)
ReadPending ==
  LET pending == session.pending IN
  /\ pc["turn"] = "pending"
  /\ task' = [task EXCEPT !["turn"] = pending]
  /\ IF pending.kind = "booking"
       THEN \E answer \in {"agree", "decline", "other"} :
              /\ Goto("turn", "clear")
              /\ after' = [after EXCEPT !["turn"] =
                             CASE answer = "agree"   -> "resume"
                               [] answer = "decline" -> "append"
                               [] answer = "other"   -> "select"]
              /\ agreed' = IF answer = "agree" THEN agreed \cup {pending} ELSE agreed
       ELSE /\ Goto("turn", "select")
            /\ UNCHANGED <<after, agreed>>
  /\ UNCHANGED <<session, turnVars, view, earVars, speaking, ended, runs, faceVars>>

(* The model selects a tool: none (or one without a gate), one that        *)
(* requires_auth, or schedule_callback.  A booking is first checked, and a *)
(* free slot offered; what is carried out at once (a full day, a check     *)
(* that fails, a tool without a gate) never was a pending task: append.    *)
Select ==
  /\ pc["turn"] = "select"
  /\ \/ /\ Goto("turn", "append")
        /\ UNCHANGED task
     \/ \E kind \in Kinds :
          /\ task' = [task EXCEPT !["turn"] = [kind |-> kind, turn |-> turns]]
          /\ Goto("turn", IF kind = "protected" THEN "gate" ELSE "offer")
  /\ UNCHANGED <<session, turnVars, view, after, earVars, speaking, ended, history, faceVars>>

(* The requires_auth gate: the session's auth_id, then its record.         *)
GateLoad ==
  /\ pc["turn"] = "gate"
  /\ view' = [view EXCEPT !["turn"] = session]
  /\ Goto("turn", IF session.auth = NoAuth THEN "offer" ELSE "gateStatus")
  /\ UNCHANGED <<session, turnVars, task, after, earVars, speaking, ended, history, faceVars>>

GateStatus_AnySession ==    \* mutant: any record that is not blocked opens the gate
  LET status == auth[view["turn"].auth].status IN
  /\ pc["turn"] = "gateStatus"
  /\ runs' = IF status # "blocked" THEN [runs EXCEPT ![task["turn"]] = @ + 1] ELSE runs
  /\ Goto("turn", "append")
  /\ UNCHANGED <<session, turnVars, view, task, after, earVars, speaking, ended, agreed, faceVars>>

GateStatus ==
  LET status == auth[view["turn"].auth].status IN
  /\ pc["turn"] = "gateStatus"
  /\ \/ /\ status = "verified"       \* carried out, or asked for what is missing
        /\ \E ok \in BOOLEAN : runs' =
             IF ok THEN [runs EXCEPT ![task["turn"]] = @ + 1] ELSE runs
        /\ Goto("turn", "append")
     \/ /\ status = "blocked"
        /\ Goto("turn", "append")
        /\ UNCHANGED runs
     \/ /\ status \notin {"verified", "blocked"}
        /\ Goto("turn", "offer")
        /\ UNCHANGED runs
  /\ UNCHANGED <<session, turnVars, view, task, after, earVars, speaking, ended, agreed, faceVars>>

(* set_pending_task, for a gated task and for a slot offered.              *)
OfferLoad ==
  /\ pc["turn"] = "offer"
  /\ view' = [view EXCEPT !["turn"] = session]
  /\ Goto("turn", "offering")
  /\ UNCHANGED <<session, turnVars, task, after, earVars, speaking, ended, history, faceVars>>

OfferStore ==
  /\ pc["turn"] = "offering"
  /\ Store("turn", [view["turn"] EXCEPT !.pending = task["turn"]])
  /\ Goto("turn", "append")
  /\ UNCHANGED <<turnVars, task, after, earVars, speaking, ended, history, faceVars>>

(* auth_branch: the auth_id, the record, and for a verified one the task.  *)
AuthLoad ==
  /\ pc["turn"] = "getAuth"
  /\ view' = [view EXCEPT !["turn"] = session]
  /\ Goto("turn", IF session.auth = NoAuth THEN "issue" ELSE "authStatus")
  /\ UNCHANGED <<session, turnVars, task, after, earVars, speaking, ended, history, faceVars>>

AuthStatus ==
  LET a == view["turn"].auth IN
  /\ pc["turn"] = "authStatus"
  /\ Goto("turn", IF ~Exists(a) THEN "issue"
                  ELSE IF auth[a].status = "verified" THEN "verified" ELSE "append")
  /\ view' = [view EXCEPT !["turn"] = Empty]
  /\ UNCHANGED <<session, turnVars, task, after, earVars, speaking, ended, history, faceVars>>

(* get_pending_task of a verified session, in auth_branch and in the       *)
(* listener's _build_verified_response, whatever kind of task it is.       *)
TakePending(p) ==
  /\ pc[p] = "verified"
  /\ task' = [task EXCEPT ![p] = session.pending]
  /\ after' = [after EXCEPT ![p] = IF session.pending # NoTask THEN "resume" ELSE "off"]
  /\ Goto(p, IF session.pending # NoTask THEN "clear"
             ELSE IF p = "turn" THEN "append" ELSE "speak")
  /\ UNCHANGED <<session, turnVars, view, earVars, speaking, ended, history, faceVars>>

(* _create_new_auth; the auth_id is kept only if the SMS went out.         *)
IssueAuth ==
  /\ pc["turn"] = "issue"
  /\ \E a \in Auths, sent \in BOOLEAN :
       /\ Issue(a, sent)
       /\ view' = [view EXCEPT !["turn"].auth = a]
       /\ Goto("turn", IF sent THEN "setAuth" ELSE "append")
  /\ UNCHANGED <<session, turnVars, task, after, earVars, speaking, ended, history>>

SetAuthLoad ==
  /\ pc["turn"] = "setAuth"
  /\ view' = [view EXCEPT !["turn"] = [session EXCEPT !.auth = view["turn"].auth]]
  /\ Goto("turn", "settingAuth")
  /\ UNCHANGED <<session, turnVars, task, after, earVars, speaking, ended, history, faceVars>>

SetAuthStore ==
  /\ pc["turn"] = "settingAuth"
  /\ Store("turn", view["turn"])
  /\ Goto("turn", "append")
  /\ UNCHANGED <<turnVars, task, after, earVars, speaking, ended, history, faceVars>>

(* The graph raises: no append, no intent, the answer echoes the caller.   *)
GraphFails ==
  /\ pc["turn"] \in {"select", "offer", "issue"}
  /\ intent' = "none"
  /\ Goto("turn", "answer")
  /\ UNCHANGED <<session, turns, view, task, after, earVars, speaking, ended, history, faceVars>>

(* The listener is spawned after an auth turn unless one still runs.       *)
Spawn ==
  LET wanted == intent = "auth" /\ pc["listener"] = "off" /\ session.auth # NoAuth IN
  /\ pc["turn"] = "spawn"
  /\ pc' = [pc EXCEPT !["turn"] = "answer",
                      !["listener"] = IF wanted THEN "subscribe" ELSE @]
  /\ lauth' = IF wanted THEN session.auth ELSE lauth
  /\ inbox' = IF wanted THEN <<>> ELSE inbox
  /\ intent' = "none"
  /\ UNCHANGED <<session, turns, view, task, after, speaking, ended, history, faceVars>>

(* The answer is synthesised and played, or synthesis fails twice and the  *)
(* turn releases the lock in silence.                                      *)
Answer ==
  /\ pc["turn"] = "answer"
  /\ \E audio \in BOOLEAN :
       /\ speaking' = audio
       /\ Goto("turn", IF audio THEN "playing" ELSE "idle")
  /\ UNCHANGED <<session, turnVars, view, task, after, earVars, ended, history, faceVars>>

EndTurn ==
  /\ pc["turn"] = "playing"
  /\ speaking' = FALSE
  /\ Goto("turn", "idle")
  /\ UNCHANGED <<session, turnVars, view, task, after, earVars, ended, history, faceVars>>

Hangup_NoCancel ==          \* mutant: the listener outlives the call
  /\ pc["turn"] \in {"idle", "heard", "playing"}
  /\ ~ended
  /\ ended' = TRUE
  /\ session' = Empty
  /\ Goto("turn", "idle")
  /\ speaking' = FALSE
  /\ UNCHANGED <<turnVars, view, task, after, earVars, history, faceVars>>

(* stop, a disconnect, or an error that leaves the turn: the socket is     *)
(* read between turns and written while playing.  The listener is          *)
(* cancelled before the session is deleted.                                *)
Hangup ==
  /\ pc["turn"] \in {"idle", "heard", "playing"}
  /\ ~ended
  /\ ended' = TRUE
  /\ session' = Empty
  /\ pc' = [pc EXCEPT !["turn"] = "idle", !["listener"] = "off"]
  /\ view' = [p \in Procs |-> Empty]
  /\ task' = [p \in Procs |-> NoTask]
  /\ after' = [p \in Procs |-> "off"]
  /\ speaking' = FALSE
  /\ UNCHANGED <<turnVars, earVars, history, faceVars>>

-----------------------------------------------------------------------------
(* The listener (_auth_event_listener, _push_speak)                        *)

Subscribe ==
  /\ pc["listener"] = "subscribe"
  /\ \E l \in {"listen", "off"} : Goto("listener", l)
  /\ UNCHANGED <<session, turnVars, view, task, after, earVars, speaking, ended, history, faceVars>>

TakeEvent ==
  /\ pc["listener"] = "listen" /\ inbox # <<>>
  /\ inbox' = Tail(inbox)
  /\ Goto("listener", IF Head(inbox) = "verified" THEN "verified" ELSE "speak")
  /\ after' = [after EXCEPT !["listener"] =
                 IF Head(inbox) = "face_failed" THEN "listen" ELSE "off"]
  /\ UNCHANGED <<session, turnVars, view, task, lauth, speaking, ended, history, faceVars>>

(* _push_speak waits for the lock and gives up after 30 seconds.           *)
Speak ==
  /\ pc["listener"] = "speak"
  /\ \/ /\ ~speaking
        /\ speaking' = TRUE
        /\ Goto("listener", "playing")
     \/ /\ speaking
        /\ Goto("listener", after["listener"])
        /\ UNCHANGED speaking
  /\ UNCHANGED <<session, turnVars, view, task, after, earVars, ended, history, faceVars>>

(* Played and appended; or synthesis fails and only the lock is released.  *)
Played ==
  /\ pc["listener"] = "playing"
  /\ \/ /\ Goto("listener", "append")
        /\ UNCHANGED speaking
     \/ /\ Goto("listener", after["listener"])
        /\ speaking' = FALSE
  /\ UNCHANGED <<session, turnVars, view, task, after, earVars, ended, history, faceVars>>

-----------------------------------------------------------------------------
(* The rest of the world                                                   *)

(* An event reaches the listener if it is subscribed to that id by then    *)
(* and Redis takes the message; publishing never fails a request.          *)
Tell(f) ==
  /\ Publish(f)
  /\ \E taken \in BOOLEAN :
       inbox' = IF taken /\ req[f].auth = lauth /\ pc["listener"] \notin {"off", "subscribe"}
                  THEN Append(inbox, EventOf(f)) ELSE inbox
  /\ UNCHANGED <<session, turnVars, procVars, lauth, speaking, ended, history>>

Customer ==
  /\ \/ \E a \in Auths : Expire(a) \/ \E f \in Requests : Check(f, a)
     \/ \E f \in Requests : Count(f) \/ \E match \in BOOLEAN : Compare(f, match)
  /\ UNCHANGED <<session, turnVars, procVars, earVars, speaking, ended, history>>

Shared(p) ==
  ClearLoad(p) \/ ClearStore(p) \/ Resume(p) \/ AppendLoad(p) \/ AppendStore(p) \/ TakePending(p)

Turn ==
  \/ Shared("turn")
  \/ RejectVoice \/ Begin \/ ReadPending \/ Select \/ GateLoad \/ GateStatus
  \/ OfferLoad \/ OfferStore \/ AuthLoad \/ AuthStatus \/ IssueAuth \/ SetAuthLoad
  \/ SetAuthStore \/ GraphFails \/ Spawn \/ Answer \/ EndTurn

Listener == Shared("listener") \/ Subscribe \/ TakeEvent \/ Speak \/ Played

Next ==
  \/ Hear \/ Filler \/ Turn \/ Hangup \/ Listener \/ Customer
  \/ \E f \in Requests : Tell(f)

Spec == Init /\ [][Next]_vars

-----------------------------------------------------------------------------
TurnLabels ==
  {"idle", "heard", "pending", "clear", "clearing", "resume", "select", "gate",
   "gateStatus", "offer", "offering", "getAuth", "authStatus", "verified", "issue",
   "setAuth", "settingAuth", "append", "appending", "spawn", "answer", "playing"}

ListenerLabels ==
  {"off", "subscribe", "listen", "verified", "clear", "clearing", "resume", "speak",
   "playing", "append", "appending"}

TypeOK ==
  /\ FaceTypeOK
  /\ session  \in Sessions
  /\ turns    \in 0..MaxTurns
  /\ intent   \in {"none", "task", "auth", "other", "silence"}
  /\ pc       \in [Procs -> TurnLabels \cup ListenerLabels]
  /\ pc["turn"] \in TurnLabels /\ pc["listener"] \in ListenerLabels
  /\ view     \in [Procs -> Sessions]
  /\ task     \in [Procs -> Tasks \cup {NoTask}]
  /\ after    \in [Procs -> TurnLabels \cup ListenerLabels]
  /\ lauth    \in Auths \cup {NoAuth}
  /\ inbox    \in Seq({"verified", "blocked", "face_failed"})
  /\ speaking \in BOOLEAN
  /\ ended    \in BOOLEAN
  /\ runs     \in [Tasks -> Nat]
  /\ agreed   \in SUBSET Tasks

(* However turns, the listener, overlapping face requests and expiries     *)
(* interleave, a tool that requires_auth was carried out only after a face *)
(* matched.                                                                *)
ProtectedNeedsFace ==
  (\E t \in Tasks : t.kind = "protected" /\ runs[t] > 0)
    => \E f \in Requests : req[f].result = "match"

(* Nothing writes the session of a call that has ended: the listener is    *)
(* cancelled before the session is deleted.                                *)
SessionStaysCleared == ended => session = Empty

(* The session never holds an auth_id whose link was not sent, so an auth  *)
(* turn after a failed SMS sends a new one (_create_new_auth).             *)
AuthIdHasLink == session.auth # NoAuth => session.auth \in linked

(* As long as no listener was spawned, the turns alone carry out a pending *)
(* task at most once: it is cleared before it is resumed.                  *)
OnceWithoutListener == lauth = NoAuth => \A t \in Tasks : runs[t] <= 1

(* The turn and the listener both take is_speaking and either may release  *)
(* it under the other; still it is never left taken with nobody at work,   *)
(* which would make the call deaf ("is_speaking 풀어줘야 다음 사용자 발화가     *)
(* 차단되지 않음").                                                          *)
LockHasHolder ==
  speaking => \/ pc["turn"] \notin {"idle", "heard"}
              \/ pc["listener"] \in {"playing", "append", "appending"}

(* What the comments promise and the code does not keep.                   *)

(* _resume_pending_task: its callers have cleared the pending task, so the *)
(* task is carried out once.                                               *)
TaskRunsOnce == \A t \in Tasks : runs[t] <= 1

(* task_branch: schedule_callback waits for the caller's consent.          *)
ConsentBeforeBooking ==
  \A t \in Tasks : t.kind = "booking" /\ runs[t] > 0 => t \in agreed
=============================================================================
