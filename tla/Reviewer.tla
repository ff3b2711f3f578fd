------------------------------ MODULE Reviewer ------------------------------
(***************************************************************************)
(* The reviewer's tool-calling loop (reviewer_agent_node): a language      *)
(* model, free to answer anything, is asked up to _MAX_STEPS times; each   *)
(* answer is a list of tool calls, executed in order.  What it decided is  *)
(* then turned into the verdict and the approved actions that PostCall's   *)
(* Review takes as given.  The injected records bypass the loop and are    *)
(* not in Actions.                                                         *)
(***************************************************************************)
EXTENDS Naturals, FiniteSets

CONSTANTS
  Actions,    (* ids of the proposed actions under review                  *)
  Fields,     (* fields of the analysis                                    *)
  MaxSteps,   (* _MAX_STEPS; 5 in the code                                 *)
  MaxCalls    (* bound on the tool calls of one answer                     *)

ASSUME ReviewerConstantsOK ==
  /\ MaxSteps \in Nat \ {0}
  /\ MaxCalls \in Nat \ {0}

VARIABLES
  phase,       (* "ask", "answer", "closed": loop over, "decided"          *)
  steps,       (* steps_used                                               *)
  calls,       (* tool calls handled in this answer                        *)
  decisions,   (* decisions                                                *)
  patched,     (* ids with a correction payload                            *)
  value,       (* corrected_analysis, per field                            *)
  dropped,     (* fields of corrections_dropped                            *)
  escalated,   (* escalate_reason is set                                   *)
  finalized,   (* finalize_called                                          *)
  explicit,    (* explicit_verdict                                         *)
  confidence,  (* finalize_confidence: low < 0.4 <= mid < 0.6 <= high      *)
  verdict,     (* review_verdict                                           *)
  approved     (* approved_actions: id, and whether the patch is in it     *)

findings == <<decisions, patched, value, dropped>>
closing  == <<escalated, finalized, explicit, confidence>>
outcome  == <<verdict, approved>>
vars     == <<phase, steps, calls, findings, closing, outcome>>

Decisions   == {"none", "approve", "reject", "correct"}
Verdicts    == {"pass", "correctable", "fail"}
Confidences == {"none", "low", "mid", "high"}

(* "default": null, neutral, resolved or low; "other": anything else.      *)
Values == {"original", "default", "other"}

Init ==
  /\ phase      = "ask"
  /\ steps      = 0
  /\ calls      = 0
  /\ decisions  = [a \in Actions |-> "none"]
  /\ patched    = {}
  /\ value      = [f \in Fields |-> "original"]
  /\ dropped    = {}
  /\ escalated  = FALSE
  /\ finalized  = FALSE
  /\ explicit   = "none"
  /\ confidence = "none"
  /\ verdict    = "none"
  /\ approved   = {}

-----------------------------------------------------------------------------
Ask_NoCount ==
  /\ phase = "ask" /\ steps < MaxSteps
  /\ phase' = "answer"
  /\ calls' = 0
  /\ UNCHANGED <<steps, findings, closing, outcome>>

(* An answer with tool calls. *)
Ask ==
  /\ phase = "ask" /\ steps < MaxSteps
  /\ phase' = "answer"
  /\ steps' = steps + 1
  /\ calls' = 0
  /\ UNCHANGED <<findings, closing, outcome>>

(* The LLM call fails: the review is escalated. *)
AskFails ==
  /\ phase = "ask" /\ steps < MaxSteps
  /\ phase' = "closed"
  /\ steps' = steps + 1
  /\ escalated' = TRUE
  /\ UNCHANGED <<calls, findings, finalized, explicit, confidence, outcome>>

(* The answer is text: taken as the end of the review. *)
AnswersInText ==
  /\ phase = "ask" /\ steps < MaxSteps
  /\ phase' = "closed"
  /\ steps' = steps + 1
  /\ UNCHANGED <<calls, findings, closing, outcome>>

OutOfSteps ==
  /\ phase = "ask" /\ steps = MaxSteps
  /\ phase' = "closed"
  /\ UNCHANGED <<steps, calls, findings, closing, outcome>>

-----------------------------------------------------------------------------
(***************************************************************************)
(* The tool calls.  re_read_transcript, verify_field_grounding, an unknown *)
(* tool and an unknown action id only add to the conversation.             *)
(***************************************************************************)

Calling == phase = "answer" /\ calls < MaxCalls

Called == calls' = calls + 1 /\ UNCHANGED <<phase, steps, outcome>>

OnlyObserves ==
  /\ Calling /\ Called
  /\ UNCHANGED <<findings, closing>>

ApproveAction(a) ==
  /\ Calling /\ Called
  /\ decisions' = [decisions EXCEPT ![a] = "approve"]
  /\ UNCHANGED <<patched, value, dropped, closing>>

RejectAction(a) ==
  /\ Calling /\ Called
  /\ decisions' = [decisions EXCEPT ![a] = "reject"]
  /\ UNCHANGED <<patched, value, dropped, closing>>

CorrectAction(a) ==
  /\ Calling /\ Called
  /\ decisions' = [decisions EXCEPT ![a] = "correct"]
  /\ patched' = patched \cup {a}
  /\ UNCHANGED <<value, dropped, closing>>

(* A change to a default value needs a quote of the transcript; a field    *)
(* whose change was dropped once is closed.                                *)
Corrected(f, new, evidence) ==
  CASE f \in dropped -> UNCHANGED <<value, dropped>>
    [] f \notin dropped /\ new = "default" /\ ~evidence ->
         dropped' = dropped \cup {f} /\ UNCHANGED value
    [] OTHER ->
         value' = [value EXCEPT ![f] = new] /\ UNCHANGED dropped

CorrectAnalysis(f) ==
  /\ Calling /\ Called
  /\ \E new \in Values \ {"original"}, evidence \in BOOLEAN : Corrected(f, new, evidence)
  /\ UNCHANGED <<decisions, patched, closing>>

EscalateToHuman ==
  /\ Calling /\ Called
  /\ escalated' = TRUE
  /\ UNCHANGED <<findings, finalized, explicit, confidence>>

FinalizeReview ==
  /\ Calling /\ Called
  /\ finalized' = TRUE
  /\ explicit' \in Verdicts \cup {"none"}
  /\ confidence' \in Confidences
  /\ UNCHANGED <<findings, escalated>>

ToolCall ==
  \/ OnlyObserves
  \/ \E a \in Actions : ApproveAction(a) \/ RejectAction(a) \/ CorrectAction(a)
  \/ \E f \in Fields : CorrectAnalysis(f)
  \/ EscalateToHuman
  \/ FinalizeReview

(* The list of calls is done: on to the next step, unless finalized. *)
EndAnswer ==
  /\ phase = "answer" /\ calls > 0
  /\ phase' = IF finalized THEN "closed" ELSE "ask"
  /\ UNCHANGED <<steps, calls, findings, closing, outcome>>

-----------------------------------------------------------------------------
(***************************************************************************)
(* The verdict.                                                            *)
(***************************************************************************)

(* Actions that go out unless the verdict is fail. *)
Chosen == {a \in Actions : decisions[a] \in {"approve", "correct"}}

Outgoing(a) == [id |-> a, patch |-> decisions[a] = "correct"]

AnyRejected    == Chosen # Actions
AnyCorrections == patched # {} \/ \E f \in Fields : value[f] # "original"

(* The verdict when none was given with finalize_review. *)
Derived ==
  CASE AnyRejected /\ Chosen = {} -> "fail"
    [] ~(AnyRejected /\ Chosen = {}) /\ (AnyRejected \/ AnyCorrections) -> "correctable"
    [] OTHER -> "pass"

Judged_ExplicitFirst ==
  IF explicit \in Verdicts THEN explicit
  ELSE IF escalated THEN "fail" ELSE Derived

Judged ==
  IF escalated THEN "fail"
  ELSE IF explicit \in Verdicts THEN explicit ELSE Derived

(* _apply_confidence_downgrade *)
Downgrade(v) ==
  CASE v # "fail" /\ confidence = "low"  -> "fail"
    [] v = "pass" /\ confidence = "mid"  -> "correctable"
    [] OTHER -> v

Decide ==
  /\ phase = "closed"
  /\ phase' = "decided"
  /\ verdict' = Downgrade(Judged)
  /\ approved' = IF Downgrade(Judged) = "fail" THEN {} ELSE {Outgoing(a) : a \in Chosen}
  /\ UNCHANGED <<steps, calls, findings, closing>>

Work ==
  \/ Ask \/ AskFails \/ AnswersInText \/ OutOfSteps
  \/ ToolCall \/ EndAnswer
  \/ Decide

Next == Work

Spec     == Init /\ [][Next]_vars
FairSpec == Spec /\ WF_vars(Work)

-----------------------------------------------------------------------------
(* The variables have their types, and the model is asked at most MaxSteps *)
(* times.                                                                  *)
TypeOK ==
  /\ phase \in {"ask", "answer", "closed", "decided"}
  /\ steps \in 0..MaxSteps
  /\ calls \in 0..MaxCalls
  /\ decisions \in [Actions -> Decisions]
  /\ patched \subseteq Actions
  /\ value \in [Fields -> Values]
  /\ dropped \subseteq Fields
  /\ escalated \in BOOLEAN
  /\ finalized \in BOOLEAN
  /\ explicit \in Verdicts \cup {"none"}
  /\ confidence \in Confidences
  /\ verdict \in Verdicts \cup {"none"}
  /\ approved \subseteq [id: Actions, patch: BOOLEAN]

(* An escalation is final: whatever the model calls after it, a finalize   *)
(* with verdict pass included, the review fails and nothing is approved    *)
(* (review_catalog.py: "forces verdict=fail and blocks every action").     *)
EscalationIsFinal ==
  escalated /\ phase = "decided" => verdict = "fail" /\ approved = {}

(* A review cut off, by the step limit or a plain text answer, before the  *)
(* model settled any of several proposals blocks them all and fails.       *)
CutOffBlocks ==
  /\ phase = "decided" /\ ~finalized
  /\ Actions # {} /\ (\A a \in Actions : decisions[a] = "none")
  => verdict = "fail" /\ approved = {}

(* A reviewer that does not trust itself (confidence below 0.4) cannot let *)
(* anything through, however it got there.                                 *)
NoTrustNoPass ==
  phase = "decided" /\ confidence = "low" => verdict = "fail" /\ approved = {}

(* A correction dropped once closes its field: no later call changes it,   *)
(* whether or not it quotes the transcript.                                *)
DropIsFinal ==
  [][\A f \in dropped : value'[f] = value[f]]_vars

(* Every review comes to a verdict, however the model answers.             *)
ReviewEnds == <>(phase = "decided")

-----------------------------------------------------------------------------
(* "correct some actions, then approve them": what is approved carries its *)
(* correction.                                                             *)
CorrectionsGoOut == \A x \in approved : x.id \in patched => x.patch
=============================================================================
