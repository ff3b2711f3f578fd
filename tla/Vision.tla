------------------------------- MODULE Vision -------------------------------
(***************************************************************************)
(* The routing of a caller's turns (_route_by_clarity, intent_router_llm)  *)
(* and the branch that asks for a picture (vision_branch): it sends a link *)
(* by SMS, remembers the link in the session of the call and reads what    *)
(* became of the picture when the caller speaks again.                     *)
(*                                                                         *)
(* The page behind the link posts pictures to /vision/{id}/predict, which  *)
(* is not in this repository; it is external here and does what the        *)
(* setters of VisionSessionService are for.                                *)
(*                                                                         *)
(* The session of a call is one value, and every setter loads it, changes  *)
(* one field and stores the whole of it, with awaits in between            *)
(* (RedisSessionService).  A turn ends with such a store (append_turn),    *)
(* and the listener for auth events makes its own while turns go on        *)
(* (clear_pending_task, append_turn), so a load and its store are two      *)
(* actions here, of two processes.  Of the session only vision_id is kept  *)
(* (Conversation has auth_id and pending_task), and what is said is left   *)
(* out: faq, task, auth, escalation and repeat leave what is here alone.   *)
(***************************************************************************)
EXTENDS Naturals, FiniteSets

CONSTANTS
  MaxTurns,     \* bound on the turns of the call
  MaxLinks,     \* bound on the links created in it
  MaxPhotos,    \* bound on the pictures posted
  MaxWrites     \* bound on the stores of the listener

ASSUME VisionAssumption ==
  MaxTurns \in Nat /\ MaxLinks \in Nat /\ MaxPhotos \in Nat /\ MaxWrites \in Nat

VARIABLES
  turn,         \* what the turn is at
  asks,         \* what was said: see Utterances
  intent,       \* where it was routed
  seen,         \* the vision_id the router or the branch read
  result,       \* the label the branch read, which it will tell of
  view,         \* the vision_id in the session as the turn loaded it
  ear,          \* what the listener for auth events is at
  heard,        \* the vision_id in the session as the listener loaded it
  writes,       \* stores begun by the listener
  remembered,   \* vision_id in the session of the call
  link,         \* the key of each link: vision:session:{id}
  created,      \* links created so far
  delivered,    \* links the customer's phone has
  photo,        \* pictures posted, and where each is
  told,         \* history: how often the result of each picture was told
  putBack,      \* history: how often the listener put a link back that was not there
  spoken,       \* turns so far
  hungUp

callerVars == <<asks, intent, spoken, hungUp>>
readVars   == <<seen, result>>
earVars    == <<ear, heard, writes, putBack>>
storeVars  == <<link, created, delivered, photo>>
visionVars == <<turn, callerVars, readVars, view, earVars, remembered, storeVars, told>>

NoLink   == 0
Links    == 1..MaxLinks
Photos   == 1..MaxPhotos
NoKey    == [status |-> "gone", label |-> 0, expires |-> FALSE]
NoPhoto  == [link |-> NoLink, at |-> "none"]

(* What query_refine and the two keyword tests make of an utterance.       *)
Utterances == [bye : BOOLEAN, clear : BOOLEAN, asksForPerson : BOOLEAN, names : BOOLEAN]
NoAsk      == [bye |-> FALSE, clear |-> FALSE, asksForPerson |-> FALSE, names |-> FALSE]

ValidIntents == {"faq", "task", "auth", "vision", "escalation", "repeat"}

VisionInit ==
  /\ turn = "idle" /\ asks = NoAsk /\ intent = "none"
  /\ seen = NoLink /\ result = 0 /\ view = NoLink
  /\ ear = "off" /\ heard = NoLink /\ writes = 0
  /\ remembered = NoLink /\ created = 0 /\ delivered = {}
  /\ link = [l \in Links |-> NoKey]
  /\ photo = [p \in Photos |-> NoPhoto]
  /\ told = [p \in Photos |-> 0]
  /\ putBack = [l \in Links |-> 0]
  /\ spoken = 0 /\ hungUp = FALSE

(* The branch has its answer; append_turn is next.  Of the intent only     *)
(* auth is looked at again.                                                *)
Answered ==
  /\ turn' = "append" /\ seen' = NoLink /\ result' = 0
  /\ intent' = IF intent = "auth" THEN intent ELSE "none"

-----------------------------------------------------------------------------
(* The session of a link: get_session.                                     *)
Status(l) == IF l = NoLink THEN "gone" ELSE link[l].status

Open(l) == Status(l) \in {"pending", "analyzing"}

Hear ==
  /\ turn = "idle" /\ ~hungUp /\ spoken < MaxTurns
  /\ asks' \in Utterances
  /\ spoken' = spoken + 1
  /\ turn' = "refined"
  /\ UNCHANGED <<intent, hungUp, readVars, view, earVars, remembered, storeVars, told>>

(* _route_by_clarity: goodbye_branch and clarify_branch.                   *)
Goodbye ==
  /\ turn = "refined" /\ asks.bye
  /\ Answered /\ hungUp' = TRUE /\ asks' = NoAsk
  /\ UNCHANGED <<spoken, view, earVars, remembered, storeVars, told>>

Clarify ==
  /\ turn = "refined" /\ ~asks.bye /\ ~asks.clear
  /\ Answered /\ asks' = NoAsk
  /\ UNCHANGED <<spoken, hungUp, view, earVars, remembered, storeVars, told>>

(* The answer of the model, made a branch of the graph: what is no intent  *)
(* is an escalation, and an escalation nobody named is a question.         *)
Classified(answer) ==
  LET valid == IF answer \in ValidIntents THEN answer ELSE "escalation"
  IN  IF valid = "escalation" /\ ~asks.names THEN "faq" ELSE valid

(* get_vision_id, in the router and again in the branch.                   *)
RouterReads ==
  /\ turn = "refined" /\ ~asks.bye /\ asks.clear
  /\ seen' = remembered /\ turn' = "routing"
  /\ UNCHANGED <<callerVars, result, view, earVars, remembered, storeVars, told>>

(* An open link comes before anything the caller says.                     *)
Route ==
  /\ turn = "routing"
  /\ IF Open(seen) THEN intent' = "vision"
     ELSE IF asks.asksForPerson THEN intent' = "escalation"
     ELSE \E answer \in ValidIntents \cup {"none"} : intent' = Classified(answer)
  /\ turn' = "routed" /\ seen' = NoLink /\ asks' = NoAsk
  /\ UNCHANGED <<spoken, hungUp, result, view, earVars, remembered, storeVars, told>>

Elsewhere ==
  /\ turn = "routed" /\ intent # "vision"
  /\ Answered
  /\ UNCHANGED <<asks, spoken, hungUp, view, earVars, remembered, storeVars, told>>

-----------------------------------------------------------------------------
(* vision_branch                                                           *)

(* SMS_TEST_RECIPIENT is not set.                                          *)
NoPhone ==
  /\ turn = "routed" /\ intent = "vision"
  /\ Answered
  /\ UNCHANGED <<asks, spoken, hungUp, view, earVars, remembered, storeVars, told>>

BranchReads ==
  /\ turn = "routed" /\ intent = "vision"
  /\ seen' = remembered /\ turn' = "looking"
  /\ UNCHANGED <<callerVars, result, view, earVars, remembered, storeVars, told>>

NewLink(expires) == [status |-> "pending", label |-> 0, expires |-> expires]

CreateLink_NoDeadline ==
  /\ turn = "looking" /\ Status(seen) = "gone" /\ created < MaxLinks
  /\ created' = created + 1
  /\ link' = [link EXCEPT ![created + 1] = NewLink(FALSE)]
  /\ turn' = "sending" /\ seen' = NoLink
  /\ UNCHANGED <<callerVars, result, view, earVars, remembered, delivered, photo, told>>

(* No link yet, or the session of the link is gone.                        *)
CreateLink ==
  /\ turn = "looking" /\ Status(seen) = "gone" /\ created < MaxLinks
  /\ created' = created + 1
  /\ link' = [link EXCEPT ![created + 1] = NewLink(TRUE)]
  /\ turn' = "sending" /\ seen' = NoLink
  /\ UNCHANGED <<callerVars, result, view, earVars, remembered, delivered, photo, told>>

(* send_sms is False for any exception; the message may be out all the     *)
(* same.  A link that is not known to be sent is not remembered.           *)
SendLink ==
  /\ turn = "sending"
  /\ \/ /\ delivered' = delivered \cup {created}
        /\ turn' = "sent" /\ UNCHANGED <<readVars, intent>>
     \/ /\ delivered' \in {delivered, delivered \cup {created}}
        /\ Answered
  /\ UNCHANGED <<asks, spoken, hungUp, view, earVars, remembered, link, created, photo, told>>

(* set_vision_id                                                           *)
RememberLoad ==
  /\ turn = "sent"
  /\ view' = remembered /\ turn' = "remembering"
  /\ UNCHANGED <<callerVars, readVars, earVars, remembered, storeVars, told>>

RememberStore ==
  /\ turn = "remembering"
  /\ remembered' = created /\ view' = NoLink
  /\ Answered
  /\ UNCHANGED <<asks, spoken, hungUp, earVars, storeVars, told>>

Wait ==
  /\ turn = "looking" /\ Open(seen)
  /\ Answered
  /\ UNCHANGED <<asks, spoken, hungUp, view, earVars, remembered, storeVars, told>>

(* The link is forgotten before anything is told of it.                    *)
ReadFailure ==
  /\ turn = "looking" /\ Status(seen) = "failed"
  /\ turn' = "forget"
  /\ UNCHANGED <<callerVars, readVars, view, earVars, remembered, storeVars, told>>

ReadResult ==
  /\ turn = "looking" /\ Status(seen) = "analyzed"
  /\ result' = link[seen].label /\ turn' = "forget"
  /\ UNCHANGED <<callerVars, seen, view, earVars, remembered, storeVars, told>>

(* clear_vision_id, which returns at once when there is nothing to clear.  *)
ForgetLoad ==
  /\ turn = "forget"
  /\ view' = remembered
  /\ turn' = IF remembered = NoLink THEN "telling" ELSE "forgetting"
  /\ UNCHANGED <<callerVars, readVars, earVars, remembered, storeVars, told>>

ForgetStore_KeepsLink ==
  /\ turn = "forgetting"
  /\ remembered' = view /\ view' = NoLink
  /\ turn' = "telling"
  /\ UNCHANGED <<callerVars, readVars, earVars, storeVars, told>>

ForgetStore ==
  /\ turn = "forgetting"
  /\ remembered' = NoLink /\ view' = NoLink
  /\ turn' = "telling"
  /\ UNCHANGED <<callerVars, readVars, earVars, storeVars, told>>

(* Without a label, without a text about the label, or when the model      *)
(* fails, there is nothing to tell.                                        *)
Tell ==
  /\ turn = "telling"
  /\ \/ result # 0 /\ told' = [told EXCEPT ![result] = @ + 1]
     \/ UNCHANGED told
  /\ Answered
  /\ UNCHANGED <<asks, spoken, hungUp, view, earVars, remembered, storeVars>>

-----------------------------------------------------------------------------
(* The end of the turn                                                     *)

AppendLoad ==
  /\ turn = "append"
  /\ view' = remembered /\ turn' = "appending"
  /\ UNCHANGED <<callerVars, readVars, earVars, remembered, storeVars, told>>

(* After an auth turn that has an auth_id the listener runs.               *)
AppendStore ==
  /\ turn = "appending"
  /\ remembered' = view /\ view' = NoLink
  /\ ear' \in IF intent = "auth" /\ ear = "off" THEN {"off", "on"} ELSE {ear}
  /\ turn' = "idle" /\ intent' = "none"
  /\ UNCHANGED <<asks, spoken, hungUp, readVars, heard, writes, putBack, storeVars, told>>

(* The model of the router or the search of the branch raises: nothing is  *)
(* appended, and the turn has no intent.                                   *)
GraphFails ==
  /\ turn = "routing" \/ (turn = "telling" /\ result # 0)
  /\ turn' = "idle" /\ asks' = NoAsk /\ intent' = "none"
  /\ seen' = NoLink /\ result' = 0
  /\ UNCHANGED <<spoken, hungUp, view, earVars, remembered, storeVars, told>>

-----------------------------------------------------------------------------
(* The listener: it clears the pending task without the lock the turns     *)
(* hold (_build_verified_response), and appends what it says (_push_speak).*)
ListenerLoad ==
  /\ ear = "on" /\ writes < MaxWrites
  /\ heard' = remembered /\ writes' = writes + 1
  /\ ear' = "storing"
  /\ UNCHANGED <<turn, callerVars, readVars, view, putBack, remembered, storeVars, told>>

(* It goes on after a failed face, and ends after the last event.          *)
ListenerStore ==
  /\ ear = "storing"
  /\ remembered' = heard /\ heard' = NoLink
  /\ ear' \in {"on", "off"}
  /\ putBack' = IF heard \notin {NoLink, remembered}
                  THEN [putBack EXCEPT ![heard] = @ + 1] ELSE putBack
  /\ UNCHANGED <<turn, callerVars, readVars, view, writes, storeVars, told>>

-----------------------------------------------------------------------------
(* The customer's page, and the service behind it.  hset on a key that is  *)
(* gone makes it again, without a deadline.  Pictures are numbered as they *)
(* are posted.                                                             *)
turnVars == <<turn, callerVars, readVars, view, earVars, remembered, created, delivered, told>>

Post(p) ==
  /\ photo[p].at = "none" /\ \A q \in 1..(p - 1) : photo[q].at # "none"
  /\ \E l \in delivered :
       /\ Open(l)
       /\ photo' = [photo EXCEPT ![p] = [link |-> l, at |-> "posted"]]
  /\ UNCHANGED <<turnVars, link>>

PredictStart(p) ==
  /\ photo[p].at = "posted"
  /\ link' = [link EXCEPT ![photo[p].link].status = "analyzing"]
  /\ photo' = [photo EXCEPT ![p].at = "analyzing"]
  /\ UNCHANGED turnVars

PredictEnd(p) ==
  /\ photo[p].at = "analyzing"
  /\ \/ \E label \in {0, p} :
          link' = [link EXCEPT ![photo[p].link].status = "analyzed",
                               ![photo[p].link].label = label]
     \/ link' = [link EXCEPT ![photo[p].link].status = "failed"]
  /\ photo' = [photo EXCEPT ![p].at = "done"]
  /\ UNCHANGED turnVars

(* Ten minutes after the link was created.                                 *)
ExpireLink(l) ==
  /\ link[l].expires
  /\ link' = [link EXCEPT ![l] = NoKey]
  /\ UNCHANGED <<turnVars, photo>>

(* The store is empty from one moment to the next: see KeyValue.           *)
LoseStore ==
  /\ remembered # NoLink \/ \E l \in Links : link[l] # NoKey
  /\ link' = [l \in Links |-> NoKey]
  /\ remembered' = NoLink
  /\ UNCHANGED <<turn, callerVars, readVars, view, earVars, created, delivered, photo, told>>

VisionTurn ==
  \/ Hear \/ Goodbye \/ Clarify \/ RouterReads \/ Route \/ Elsewhere
  \/ NoPhone \/ BranchReads \/ CreateLink \/ SendLink \/ RememberLoad \/ RememberStore
  \/ Wait \/ ReadFailure \/ ReadResult \/ ForgetLoad \/ ForgetStore \/ Tell
  \/ AppendLoad \/ AppendStore \/ GraphFails

Listener == ListenerLoad \/ ListenerStore

Predict == \E p \in Photos : PredictStart(p) \/ PredictEnd(p)

VisionNext ==
  \/ VisionTurn
  \/ Listener
  \/ \E p \in Photos : Post(p)
  \/ Predict
  \/ \E l \in Links : ExpireLink(l)
  \/ LoseStore

VisionSpec == VisionInit /\ [][VisionNext]_visionVars

-----------------------------------------------------------------------------
(* What was recognised in a picture is told to the caller again only after *)
(* a store of the listener that put its link back into the session: no     *)
(* result, deadline or order of the turns does it (clear_vision_id comes   *)
(* first), and neither does append_turn, which stores what it loaded, nor  *)
(* a lost store.                                                           *)
ToldAgainOnlyWhenPutBack ==
  \A p \in Photos : photo[p].link # NoLink => told[p] <= 1 + putBack[photo[p].link]

(* clear_vision_id: "cleaned up after the result is processed, for a new   *)
(* cycle".  A result that was told is not told again.                      *)
ToldOnce == \A p \in Photos : told[p] <= 1

(* A caller whose turns all go to the picture branch because a link is     *)
(* open is heard again: the link is used, or its session ends, also when   *)
(* no picture ever comes.                                                  *)
RouterIsFreed == Open(remembered) ~> ~Open(remembered)
=============================================================================
