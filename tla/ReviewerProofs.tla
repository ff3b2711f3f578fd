--------------------------- MODULE ReviewerProofs ---------------------------
(* What holds of the review for any proposals, step limit and length of an *)
(* answer, whatever the language model calls and in whatever order.        *)
EXTENDS Reviewer, TLAPS

LEMMA TypeInit == Init => TypeOK
<1> SUFFICES ASSUME Init PROVE TypeOK
  OBVIOUS
<1> USE ReviewerConstantsOK DEF Init
<1>1. phase \in {"ask", "answer", "closed", "decided"} /\ steps \in 0..MaxSteps /\ calls \in 0..MaxCalls
  OBVIOUS
<1>2. decisions \in [Actions -> Decisions] /\ value \in [Fields -> Values]
  BY DEF Decisions, Values
<1> QED
  BY <1>1, <1>2 DEF TypeOK, Confidences

LEMMA CalledType ==
  ASSUME TypeOK, Calling, Called
  PROVE  /\ phase' \in {"ask", "answer", "closed", "decided"} /\ steps' \in 0..MaxSteps
         /\ calls' \in 0..MaxCalls /\ verdict' \in Verdicts \cup {"none"}
         /\ approved' \subseteq [id: Actions, patch: BOOLEAN]
BY ReviewerConstantsOK DEF TypeOK, Calling, Called, outcome

LEMMA ToolCallType == ASSUME TypeOK, ToolCall PROVE TypeOK'
<1>1. CASE OnlyObserves
  BY <1>1, CalledType DEF OnlyObserves, findings, closing, TypeOK
<1>2. ASSUME NEW a \in Actions, ApproveAction(a) \/ RejectAction(a) \/ CorrectAction(a)
      PROVE  TypeOK'
  <2>1. decisions' \in [Actions -> Decisions] /\ patched' \subseteq Actions
    BY <1>2 DEF ApproveAction, RejectAction, CorrectAction, TypeOK, Decisions
  <2> QED
    BY <1>2, <2>1, CalledType
       DEF ApproveAction, RejectAction, CorrectAction, closing, TypeOK
<1>3. ASSUME NEW f \in Fields, CorrectAnalysis(f) PROVE TypeOK'
  <2>1. PICK new \in Values \ {"original"}, evidence \in BOOLEAN : Corrected(f, new, evidence)
    BY <1>3 DEF CorrectAnalysis
  <2>2. value' \in [Fields -> Values] /\ dropped' \subseteq Fields
    BY <2>1 DEF Corrected, TypeOK
  <2> QED
    BY <1>3, <2>2, CalledType DEF CorrectAnalysis, closing, TypeOK
<1>4. CASE EscalateToHuman
  BY <1>4, CalledType DEF EscalateToHuman, findings, TypeOK
<1>5. CASE FinalizeReview
  BY <1>5, CalledType DEF FinalizeReview, findings, TypeOK
<1> QED
  BY <1>1, <1>2, <1>3, <1>4, <1>5 DEF ToolCall

LEMMA VerdictType == ASSUME TypeOK PROVE Downgrade(Judged) \in Verdicts
<1>1. Derived \in Verdicts
  BY DEF Derived, Verdicts
<1>2. Judged \in Verdicts
  BY <1>1 DEF Judged, Verdicts
<1> QED
  BY <1>2 DEF Downgrade, Verdicts

LEMMA TypeNext == TypeOK /\ [Next]_vars => TypeOK'
<1> SUFFICES ASSUME TypeOK, [Next]_vars PROVE TypeOK'
  OBVIOUS
<1> USE DEF findings, closing, outcome
<1>1. CASE UNCHANGED vars
  BY <1>1 DEF vars, TypeOK
<1>2. CASE Ask \/ AskFails \/ AnswersInText \/ OutOfSteps
  <2>1. steps' \in 0..MaxSteps /\ calls' \in 0..MaxCalls
    BY <1>2, ReviewerConstantsOK DEF Ask, AskFails, AnswersInText, OutOfSteps, TypeOK
  <2>2. phase' \in {"answer", "closed"} /\ escalated' \in BOOLEAN
    BY <1>2 DEF Ask, AskFails, AnswersInText, OutOfSteps, TypeOK
  <2> QED
    BY <1>2, <2>1, <2>2 DEF Ask, AskFails, AnswersInText, OutOfSteps, TypeOK
<1>3. CASE ToolCall
  BY <1>3, ToolCallType
<1>4. CASE EndAnswer
  BY <1>4 DEF EndAnswer, TypeOK
<1>5. CASE Decide
  <2>1. \A a \in Chosen : Outgoing(a) \in [id: Actions, patch: BOOLEAN]
    BY DEF Outgoing, Chosen
  <2>2. verdict' \in Verdicts /\ approved' \subseteq [id: Actions, patch: BOOLEAN]
    BY <1>5, <2>1, VerdictType DEF Decide
  <2> QED
    BY <1>5, <2>2 DEF Decide, TypeOK
<1> QED
  BY <1>1, <1>2, <1>3, <1>4, <1>5 DEF Next, Work

(* The variables keep their types.                                         *)
THEOREM TypeCorrect == Spec => []TypeOK
<1> QED
  BY TypeInit, TypeNext, PTL DEF Spec

-----------------------------------------------------------------------------
(* Nothing but Decide ends a review.                                       *)
LEMMA OnlyDecide ==
  ASSUME TypeOK, [Next]_vars, phase' = "decided"
  PROVE  Decide \/ UNCHANGED vars
BY DEF Next, Work, Ask, AskFails, AnswersInText, OutOfSteps, EndAnswer, ToolCall, Called,
       OnlyObserves, ApproveAction, RejectAction, CorrectAction, CorrectAnalysis,
       EscalateToHuman, FinalizeReview, Calling

LEMMA FailureBlocks ==
  ASSUME Decide, Downgrade(Judged) = "fail" PROVE verdict' = "fail" /\ approved' = {}
BY DEF Decide

LEMMA EscalationNext == TypeOK /\ EscalationIsFinal /\ [Next]_vars => EscalationIsFinal'
<1> SUFFICES ASSUME TypeOK, EscalationIsFinal, [Next]_vars, escalated', phase' = "decided"
             PROVE  verdict' = "fail" /\ approved' = {}
  BY DEF EscalationIsFinal
<1>1. CASE Decide
  <2>1. escalated
    BY <1>1 DEF Decide, closing
  <2>2. Downgrade(Judged) = "fail"
    BY <2>1 DEF Judged, Downgrade
  <2> QED
    BY <1>1, <2>2, FailureBlocks
<1>2. CASE UNCHANGED vars
  BY <1>2 DEF vars, closing, outcome, EscalationIsFinal
<1> QED
  BY <1>1, <1>2, OnlyDecide

(* Whatever the model calls before or after it, an escalation to a human   *)
(* fails the review and lets no action through.                            *)
THEOREM EscalationHolds == Spec => []EscalationIsFinal
<1>1. Init => EscalationIsFinal
  BY DEF Init, EscalationIsFinal
<1> QED
  BY <1>1, EscalationNext, TypeInit, TypeNext, PTL DEF Spec

(* The verdict and the confidence come with finalize_review only.          *)
FinalizedOK == ~finalized => explicit = "none" /\ confidence = "none"

LEMMA FinalizedNext == FinalizedOK /\ [Next]_vars => FinalizedOK'
BY DEF FinalizedOK, vars, findings, closing, outcome, Next, Work, Ask, AskFails, AnswersInText,
       OutOfSteps, EndAnswer, Decide, ToolCall, Called, OnlyObserves, ApproveAction,
       RejectAction, CorrectAction, CorrectAnalysis, EscalateToHuman, FinalizeReview

LEMMA CutOffNext == TypeOK /\ FinalizedOK /\ CutOffBlocks /\ [Next]_vars => CutOffBlocks'
<1> SUFFICES ASSUME TypeOK, FinalizedOK, CutOffBlocks, [Next]_vars,
                    phase' = "decided", ~finalized', Actions # {},
                    \A a \in Actions : decisions'[a] = "none"
             PROVE  verdict' = "fail" /\ approved' = {}
  BY DEF CutOffBlocks
<1>1. CASE Decide
  <2>1. ~finalized /\ Chosen = {}
    BY <1>1 DEF Decide, closing, findings, Chosen
  <2>2. Derived = "fail"
    BY <2>1 DEF Derived, AnyRejected
  <2>3. explicit \notin Verdicts
    BY <2>1 DEF FinalizedOK, Verdicts
  <2> QED
    BY <1>1, <2>2, <2>3, FailureBlocks DEF Judged, Downgrade
<1>2. CASE UNCHANGED vars
  BY <1>2 DEF vars, findings, closing, outcome, CutOffBlocks
<1> QED
  BY <1>1, <1>2, OnlyDecide

(* A review that the step limit, or an answer in plain text, cuts off      *)
(* before anything was settled lets no action through.                     *)
THEOREM CutOffHolds == Spec => []CutOffBlocks
<1>1. Init => CutOffBlocks /\ FinalizedOK
  BY DEF Init, CutOffBlocks, FinalizedOK
<1> QED
  BY <1>1, CutOffNext, FinalizedNext, TypeInit, TypeNext, PTL DEF Spec

LEMMA NoTrustNext == TypeOK /\ NoTrustNoPass /\ [Next]_vars => NoTrustNoPass'
<1> SUFFICES ASSUME TypeOK, NoTrustNoPass, [Next]_vars, phase' = "decided", confidence' = "low"
             PROVE  verdict' = "fail" /\ approved' = {}
  BY DEF NoTrustNoPass
<1>1. CASE Decide
  <2>1. Downgrade(Judged) = "fail"
    BY <1>1 DEF Decide, closing, Downgrade
  <2> QED
    BY <1>1, <2>1, FailureBlocks
<1>2. CASE UNCHANGED vars
  BY <1>2 DEF vars, closing, outcome, NoTrustNoPass
<1> QED
  BY <1>1, <1>2, OnlyDecide

(* A confidence below 0.4 blocks every action, whatever verdict the model  *)
(* gave with it or before it.                                              *)
THEOREM NoTrustHolds == Spec => []NoTrustNoPass
<1>1. Init => NoTrustNoPass
  BY DEF Init, NoTrustNoPass
<1> QED
  BY <1>1, NoTrustNext, TypeInit, TypeNext, PTL DEF Spec

LEMMA DropNext ==
  ASSUME TypeOK, [Next]_vars, NEW f \in dropped PROVE value'[f] = value[f]
<1>1. CASE \E g \in Fields : CorrectAnalysis(g)
  <2>1. PICK g \in Fields, new \in Values, evidence \in BOOLEAN : Corrected(g, new, evidence)
    BY <1>1 DEF CorrectAnalysis
  <2>2. CASE f = g
    BY <2>1, <2>2 DEF Corrected
  <2>3. CASE f # g
    BY <2>1, <2>3 DEF Corrected, TypeOK
  <2> QED
    BY <2>2, <2>3
<1>2. CASE ~\E g \in Fields : CorrectAnalysis(g)
  BY <1>2 DEF vars, findings, closing, outcome, Next, Work, Ask, AskFails, AnswersInText,
       OutOfSteps, EndAnswer, Decide, ToolCall, Called, OnlyObserves, ApproveAction,
       RejectAction, CorrectAction, EscalateToHuman, FinalizeReview
<1> QED
  BY <1>1, <1>2

(* A field whose change was dropped for want of a quote keeps its value,   *)
(* also when a later call brings the quote.                                *)
THEOREM DropHolds == Spec => DropIsFinal
<1>1. TypeOK /\ [Next]_vars => [\A f \in dropped : value'[f] = value[f]]_vars
  BY DropNext
<1> QED
  BY <1>1, TypeInit, TypeNext, PTL DEF Spec, DropIsFinal
=============================================================================
