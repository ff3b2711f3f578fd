--------------------------- MODULE PostCallProofs ---------------------------
(* What holds of the post-call pipeline for any number of runs, intents,   *)
(* retries and proposals, and whatever fails.                              *)
EXTENDS PostCall, TLAPS

(* What is injected, marked and alerted is an action again. *)
LEMMA ActionTypes ==
  ASSUME NEW a \in Analysis
  PROVE  /\ Injected(a) \subseteq Action
         /\ \A r \in Runs : analysis[r] = a => Alerts(r) \subseteq Action
         /\ \A x \in Action : Mark(x) \in Action
         /\ \A n \in 0..MaxProposals : \A wanted \in [1..n -> Intents] :
              {Act(4 + i, wanted[i], a) : i \in DOMAIN wanted} \subseteq Action
<1> USE ConstantsOK
<1>1. Injected(a) \subseteq Action
  <2>1. Act(1, "call_record", a) \in Action /\ Act(2, "voc_record", a) \in Action
    BY DEF Act, Action, Tokens, AutoTokens
  <2> QED
    BY <2>1 DEF Injected
<1>2. \A r \in Runs : analysis[r] = a => Alerts(r) \subseteq Action
  BY DEF Alerts, Act, Action, Tokens, AlertTokens
<1>3. \A x \in Action : Mark(x) \in Action
  BY DEF Mark, Action
<1>4. ASSUME NEW n \in 0..MaxProposals, NEW wanted \in [1..n -> Intents], NEW i \in DOMAIN wanted
      PROVE  Act(4 + i, wanted[i], a) \in Action
  <2>1. i \in 1..n /\ wanted[i] \in Intents
    OBVIOUS
  <2>2. 4 + i \in 1..(4 + MaxProposals)
    BY <2>1
  <2> QED
    BY <2>1, <2>2 DEF Act, Action, Tokens
<1> QED
  BY <1>1, <1>2, <1>3, <1>4

(* A review, and the alert about it, always has an analysis to look at,    *)
(* and a retry is only taken while one is left.                            *)
Prepared ==
  \A r \in Runs :
    /\ pc[r] \in {"reviewer", "notify_admin"} => analysis[r] \in Analysis
    /\ pc[r] = "increment_retry" => tries[r] < MaxRetries

(* Starting a run keeps the types.                                         *)
LEMMA StartTypes ==
  ASSUME TypeOK, Prepared, NEW r \in Runs, Start(r)
  PROVE  TypeOK' /\ Prepared'
<1>1. FetchedContext \subseteq {"none", "own", "empty"}
  BY DEF FetchedContext, TypeOK
<1>2. CASE StartByHook(r)
  BY <1>1, <1>2 DEF StartByHook, StartUnchanged, Goto, TypeOK, Prepared, Nodes
<1>3. CASE StartOnRequest(r)
  <2>1. pc' \in [Runs -> Nodes] /\ seeded' \in {"none", "own", "empty"}
    <3>1. PICK fetched \in FetchedContext :
            IF fetched = "none"
              THEN Goto(r, "done") /\ UNCHANGED seeded
              ELSE Goto(r, "load_context") /\ seeded' = fetched
      BY <1>3 DEF StartOnRequest
    <3>2. pc' \in [Runs -> Nodes]
      BY <3>1 DEF Goto, TypeOK, Nodes
    <3>3. seeded' \in {"none", "own", "empty"}
      BY <1>1, <3>1 DEF TypeOK
    <3> QED
      BY <3>2, <3>3
  <2>2. Prepared'
    BY <1>3 DEF StartOnRequest, StartUnchanged, Goto, TypeOK, Prepared
  <2>3. StartUnchanged /\ trigger' \in [Runs -> Triggers]
    BY <1>3 DEF StartOnRequest, TypeOK
  <2> QED
    BY <2>1, <2>2, <2>3 DEF StartUnchanged, TypeOK
<1> QED
  BY <1>2, <1>3 DEF Start

(* The context and planner nodes keep the types.                           *)
LEMMA PlannerTypes ==
  ASSUME TypeOK, Prepared, NEW r \in Runs,
         LoadContext(r) \/ PlanEmpty(r) \/ PlanFailed(r) \/ PlanAnalysed(r)
  PROVE  TypeOK' /\ Prepared'
<1> USE ConstantsOK
<1>1. CASE LoadContext(r)
  BY <1>1 DEF TypeOK, LoadContext, Prepared, Goto, Nodes, Contexts, local, shared
<1>2. CASE PlanEmpty(r) \/ PlanFailed(r)
  <2>1. NewAnalysis(r, FALSE) \in Analysis
    BY DEF NewAnalysis, Analysis, TypeOK
  <2>2. /\ analysis' = [analysis EXCEPT ![r] = NewAnalysis(r, FALSE)]
        /\ proposed' = [proposed EXCEPT ![r] = {}]
    BY <1>2 DEF PlanEmpty, PlanFailed
  <2>3. analysis' \in [Runs -> Analysis \cup {None}] /\ proposed' \in [Runs -> SUBSET Action]
    BY <2>1, <2>2 DEF TypeOK
  <2>4. pc' \in [Runs -> Nodes]
    <3>1. PICK human : Goto(r, RouteAfterPlanner(r, human))
      BY <1>2 DEF PlanEmpty, PlanFailed
    <3>2. RouteAfterPlanner(r, human) \in Nodes
      BY DEF RouteAfterPlanner, Nodes
    <3> QED
      BY <3>1, <3>2 DEF TypeOK, Goto
  <2>5. humanReview' \in [Runs -> BOOLEAN]
    BY <1>2 DEF TypeOK, PlanEmpty, PlanFailed
  <2>6. Prepared'
    <3>1. tries' = tries
      BY <1>2 DEF PlanEmpty, PlanFailed, PlannerUnchanged
    <3>2. PICK human : Goto(r, RouteAfterPlanner(r, human))
      BY <1>2 DEF PlanEmpty, PlanFailed
    <3>3. RouteAfterPlanner(r, human) # "increment_retry"
      BY DEF RouteAfterPlanner
    <3> QED
      BY <2>1, <2>2, <3>1, <3>2, <3>3 DEF TypeOK, Prepared, Goto
  <2> QED
    BY <1>2, <2>3, <2>4, <2>5, <2>6 DEF TypeOK, PlanEmpty, PlanFailed, PlannerUnchanged, shared
<1>3. CASE PlanAnalysed(r)
  <2>1. PICK severe \in BOOLEAN, n \in 0..MaxProposals :
          \E wanted \in [1..n -> Intents], violation \in BOOLEAN :
            /\ analysis' = [analysis EXCEPT ![r] = NewAnalysis(r, severe)]
            /\ Plan(r, NewAnalysis(r, severe), wanted)
            /\ humanReview' = [humanReview EXCEPT ![r] = @ \/ violation]
            /\ Goto(r, RouteAfterPlanner(r, humanReview[r] \/ violation))
    BY <1>3 DEF PlanAnalysed
  <2>2. PICK wanted \in [1..n -> Intents], violation \in BOOLEAN :
            /\ analysis' = [analysis EXCEPT ![r] = NewAnalysis(r, severe)]
            /\ Plan(r, NewAnalysis(r, severe), wanted)
            /\ humanReview' = [humanReview EXCEPT ![r] = @ \/ violation]
            /\ Goto(r, RouteAfterPlanner(r, humanReview[r] \/ violation))
    BY <2>1
  <2>3. NewAnalysis(r, severe) \in Analysis
    BY DEF NewAnalysis, Analysis, TypeOK
  <2>4. proposed' \in [Runs -> SUBSET Action]
    <3> DEFINE fresh == {Act(4 + i, wanted[i], NewAnalysis(r, severe)) : i \in DOMAIN wanted}
    <3>1. fresh \cup Injected(NewAnalysis(r, severe)) \subseteq Action
      BY <2>3, ActionTypes
    <3>2. proposed' = [proposed EXCEPT ![r] = fresh \cup Injected(NewAnalysis(r, severe))]
      BY <2>2 DEF Plan
    <3> HIDE DEF fresh
    <3> QED
      BY <3>1, <3>2 DEF TypeOK
  <2>5. analysis' \in [Runs -> Analysis \cup {None}]
    BY <2>2, <2>3 DEF TypeOK
  <2>6. pc' \in [Runs -> Nodes]
    BY <2>2 DEF Goto, RouteAfterPlanner, TypeOK, Nodes
  <2>7. humanReview' \in [Runs -> BOOLEAN]
    BY <2>2 DEF TypeOK
  <2>8. Prepared'
    <3>1. tries' = tries
      BY <1>3 DEF PlanAnalysed, PlannerUnchanged
    <3>2. \A human : RouteAfterPlanner(r, human) # "increment_retry"
      BY DEF RouteAfterPlanner
    <3> QED
      BY <2>2, <2>3, <3>1, <3>2 DEF TypeOK, Prepared, Goto
  <2> QED
    BY <1>3, <2>4, <2>5, <2>6, <2>7, <2>8 DEF TypeOK, PlanAnalysed, PlannerUnchanged, shared
<1> QED
  BY <1>1, <1>2, <1>3

(* The reviewer and the retry keep the types; a retry has one left.        *)
LEMMA ReviewerTypes ==
  ASSUME TypeOK, Prepared, NEW r \in Runs,
         ReviewMissing(r) \/ Review(r) \/ IncrementRetry(r)
  PROVE  TypeOK' /\ Prepared'
<1> USE ConstantsOK
<1>1. CASE ReviewMissing(r)
  <2>1. pc' \in [Runs -> Nodes] /\ verdict' \in [Runs -> Verdicts]
    BY <1>1 DEF TypeOK, ReviewMissing, Goto, RouteAfterReview, Nodes, Verdicts
  <2> QED
    BY <1>1, <2>1 DEF TypeOK, ReviewMissing, ReviewerUnchanged, Prepared, Goto, RouteAfterReview, shared
<1>2. CASE Review(r)
  <2>1. PICK v \in Cleared \cup {"fail"}, corrected \in BOOLEAN, severe \in BOOLEAN :
          \E ok \in SUBSET {a \in proposed[r] : ~IsAuto(a)} :
            /\ ~corrected => severe = analysis[r].severe
            /\ verdict' = [verdict EXCEPT ![r] = v]
            /\ analysis' = [analysis EXCEPT ![r].corrected = corrected, ![r].severe = severe]
            /\ approved' = [approved EXCEPT ![r] = Approve(r, v, ok)]
            /\ humanReview' = [humanReview EXCEPT ![r] = (v = "fail")]
            /\ Goto(r, RouteAfterReview(r, v))
    BY <1>2 DEF Review
  <2>2. analysis[r] \in Analysis
    BY <1>2 DEF Prepared, Review
  <2>3. analysis' \in [Runs -> Analysis \cup {None}] /\ analysis'[r] \in Analysis
    <3>1. analysis'[r] = [analysis[r] EXCEPT !.corrected = corrected, !.severe = severe]
      BY <2>1 DEF TypeOK
    <3>2. [analysis[r] EXCEPT !.corrected = corrected, !.severe = severe] \in Analysis
      BY <2>2 DEF Analysis
    <3>3. \A q \in Runs : q # r => analysis'[q] = analysis[q]
      BY <2>1 DEF TypeOK
    <3>4. analysis' = [q \in Runs |-> analysis'[q]]
      BY <2>1 DEF TypeOK
    <3> QED
      BY <3>1, <3>2, <3>3, <3>4 DEF TypeOK
  <2>4. approved' \in [Runs -> SUBSET Action]
    BY <2>1 DEF TypeOK, Approve
  <2>5. pc' \in [Runs -> Nodes]
    BY <2>1 DEF TypeOK, Goto, RouteAfterReview, Nodes
  <2>6. verdict' \in [Runs -> Verdicts] /\ humanReview' \in [Runs -> BOOLEAN]
    BY <2>1 DEF TypeOK, Verdicts
  <2>7. Prepared'
    <3>1. tries' = tries
      BY <1>2 DEF Review, ReviewerUnchanged
    <3>2. RouteAfterReview(r, v) = "increment_retry" => tries[r] < MaxRetries
      BY DEF RouteAfterReview
    <3>3. \A q \in Runs : q # r => analysis'[q] = analysis[q]
      BY <2>1 DEF TypeOK
    <3> QED
      BY <2>1, <2>3, <3>1, <3>2, <3>3 DEF TypeOK, Prepared, Goto
  <2> QED
    BY <1>2, <2>3, <2>4, <2>5, <2>6, <2>7 DEF TypeOK, Review, ReviewerUnchanged, shared
<1>3. CASE IncrementRetry(r)
  <2>1. tries' \in [Runs -> 0..MaxRetries]
    BY <1>3 DEF TypeOK, Prepared, IncrementRetry
  <2>2. pc' \in [Runs -> Nodes] /\ Prepared'
    BY <1>3 DEF TypeOK, IncrementRetry, Goto, Nodes, Prepared
  <2> QED
    BY <1>3, <2>1, <2>2 DEF TypeOK, IncrementRetry, Verdicts, shared
<1> QED
  BY <1>1, <1>2, <1>3

(* The nodes behind a review keep the types.                               *)
LEMMA RefusalTypes ==
  ASSUME TypeOK, Prepared, NEW r \in Runs,
         NotifyAdmin(r) \/ HumanQueue(r) \/ AutoActionExecutor(r) \/ ActionExecutor(r)
  PROVE  TypeOK' /\ Prepared'
<1>1. CASE NotifyAdmin(r)
  <2>1. {Mark(a) : a \in proposed[r]} \cup Alerts(r) \subseteq Action
    BY <1>1, ActionTypes DEF NotifyAdmin, Prepared, TypeOK
  <2>2. proposed' \in [Runs -> SUBSET Action]
    BY <1>1, <2>1 DEF NotifyAdmin, TypeOK
  <2> QED
    BY <1>1, <2>2 DEF TypeOK, NotifyAdmin, Goto, Nodes, Prepared, shared
<1>2. CASE HumanQueue(r)
  BY <1>2 DEF TypeOK, HumanQueue, Goto, Nodes, Prepared, shared
<1>3. CASE AutoActionExecutor(r)
  BY <1>3 DEF TypeOK, AutoActionExecutor, AutoActions, Goto, Nodes, Prepared, shared
<1>4. CASE ActionExecutor(r)
  BY <1>4 DEF TypeOK, ActionExecutor, Goto, Nodes, Prepared, shared
<1> QED
  BY <1>1, <1>2, <1>3, <1>4

(* Finishing an action, sent or not, keeps the types.                      *)
LEMMA FinishTypes ==
  ASSUME TypeOK, Prepared, NEW r \in Runs, NEW a \in plan[r], NEW status \in Statuses,
         Finish(r, a, status), ExecutorUnchanged, sent' \subseteq sent \cup {[run |-> r, act |-> a]}
  PROVE  TypeOK' /\ Prepared'
<1>1. a \in Action
  BY DEF TypeOK
<1>2. plan' \in [Runs -> SUBSET Action]
  BY DEF TypeOK, Finish
<1>3. results' \in [Runs -> SUBSET [act: Action, status: Statuses]]
  BY <1>1 DEF TypeOK, Finish
<1>4. sent' \subseteq [run: Runs, act: Action]
  BY <1>1 DEF TypeOK
<1>5. pc' \in [Runs -> Nodes] /\ Prepared'
  BY DEF TypeOK, Finish, Goto, Nodes, Prepared, ExecutorUnchanged
<1> QED
  BY <1>2, <1>3, <1>4, <1>5 DEF TypeOK, ExecutorUnchanged

(* The executor keeps the types.                                           *)
LEMMA ExecutorTypes ==
  ASSUME TypeOK, Prepared, NEW r \in Runs,
         SkipAction(r) \/ PassLookup(r) \/ Deliver(r) \/ DeliverTimeout(r) \/ Refuse(r)
         \/ ExecutorReturns(r)
  PROVE  TypeOK' /\ Prepared'
<1>1. CASE SkipAction(r)
  BY <1>1, FinishTypes DEF SkipAction, Statuses
<1>2. CASE PassLookup(r)
  BY <1>2 DEF TypeOK, PassLookup, Goto, Nodes, Prepared, local, shared
<1>3. CASE Deliver(r)
  BY <1>3, FinishTypes DEF Deliver, Statuses
<1>4. CASE DeliverTimeout(r)
  BY <1>4, FinishTypes DEF DeliverTimeout, Statuses
<1>5. CASE Refuse(r)
  BY <1>5, FinishTypes DEF Refuse, Statuses
<1>6. CASE ExecutorReturns(r)
  BY <1>6 DEF TypeOK, ExecutorReturns, Goto, Nodes, Prepared, BlockAnalysis, shared
<1> QED
  BY <1>1, <1>2, <1>3, <1>4, <1>5, <1>6

(* The saving nodes keep the types.                                        *)
LEMMA SaveTypes ==
  ASSUME TypeOK, Prepared, NEW r \in Runs,
         SaveSummary(r) \/ UpsertSummary(r) \/ SaveVoc(r) \/ UpsertVoc(r)
         \/ SaveLogRow(r) \/ SaveLogEnd(r) \/ SaveDashboard(r)
  PROVE  TypeOK' /\ Prepared'
<1>1. CASE SaveSummary(r)
  BY <1>1 DEF TypeOK, SaveSummary, Goto, Nodes, Prepared, local
<1>2. CASE UpsertSummary(r)
  BY <1>2 DEF TypeOK, UpsertSummary, Written, Goto, Nodes, Prepared, local
<1>3. CASE SaveVoc(r)
  BY <1>3 DEF TypeOK, SaveVoc, Goto, Nodes, Prepared, local
<1>4. CASE UpsertVoc(r)
  BY <1>4 DEF TypeOK, UpsertVoc, Written, Goto, Nodes, Prepared, local
<1>5. CASE SaveLogRow(r)
  <2>1. PICK x \in Unlogged(r) : log' = log \cup {Row(r, x)}
    BY <1>5 DEF SaveLogRow
  <2>2. x \in [act: Action, status: Statuses]
    BY DEF Unlogged, TypeOK
  <2>3. Row(r, x) \in [run: Runs, slot: 1..(4 + MaxProposals), token: Tokens, status: Statuses]
    BY <2>2 DEF Row, Action
  <2>4. log' \subseteq [run: Runs, slot: 1..(4 + MaxProposals), token: Tokens, status: Statuses]
    BY <2>1, <2>3 DEF TypeOK
  <2> QED
    BY <1>5, <2>4 DEF TypeOK, SaveLogRow, Prepared, local
<1>6. CASE SaveLogEnd(r)
  BY <1>6 DEF TypeOK, SaveLogEnd, Goto, Nodes, Prepared, local, shared
<1>7. CASE SaveDashboard(r)
  BY <1>7 DEF TypeOK, SaveDashboard, Goto, Nodes, Prepared, local
<1> QED
  BY <1>1, <1>2, <1>3, <1>4, <1>5, <1>6, <1>7

(* Types, and what the reviewer and the retry need, always hold.           *)
THEOREM TypeInvariant == Spec => [](TypeOK /\ Prepared)
<1>1. Init => TypeOK /\ Prepared
  BY ConstantsOK DEF Init, TypeOK, Prepared, Nodes, Triggers, Contexts, Verdicts, Forgotten
<1>2. TypeOK /\ Prepared /\ [Next]_vars => TypeOK' /\ Prepared'
  <2> SUFFICES ASSUME TypeOK, Prepared, [Next]_vars PROVE TypeOK' /\ Prepared'
    OBVIOUS
  <2>1. ASSUME NEW r \in Runs, Start(r) PROVE TypeOK' /\ Prepared'
    BY <2>1, StartTypes
  <2>2. ASSUME NEW r \in Runs, Step(r) PROVE TypeOK' /\ Prepared'
    BY <2>2, PlannerTypes, ReviewerTypes, RefusalTypes, ExecutorTypes, SaveTypes DEF Step
  <2>3. CASE Crash
    BY <2>3 DEF TypeOK, Prepared, Crash, Forgotten, Nodes, local
  <2>4. CASE UNCHANGED vars
    BY <2>4 DEF TypeOK, Prepared, vars, local, shared
  <2> QED
    BY <2>1, <2>2, <2>3, <2>4 DEF Next
<1> QED
  BY <1>1, <1>2, PTL DEF Spec

(* The variables keep their types and the retry counter its bound under    *)
(* every interleaving, fault and crash.                                    *)
THEOREM TypeCorrect == Spec => []TypeOK
  BY TypeInvariant, PTL

-----------------------------------------------------------------------------
(* Where the review of a run is not over, or nothing is executed yet.      *)
Undecided == {"idle", "load_context", "planner", "reviewer", "increment_retry",
              "notify_admin", "human_queue", "auto_action_executor"}

(* The node a run is at tells its verdict.                                 *)
Routed ==
  \A r \in Runs :
    /\ pc[r] \in {"save_summary", "summary_db", "save_voc", "voc_db", "action_executor"} =>
         verdict[r] \in Cleared
    /\ pc[r] \in {"notify_admin", "human_queue", "auto_action_executor"} =>
         verdict[r] = "fail" /\ tries[r] = MaxRetries
    /\ pc[r] \in {"execute", "gateway", "save_log", "save_dashboard"} =>
         verdict[r] \in Cleared \/ (verdict[r] = "fail" /\ tries[r] = MaxRetries)
    /\ pc[r] = "save_log" => mode[r] = "final"
    /\ pc[r] = "save_dashboard" /\ verdict[r] = "fail" => mode[r] = "final"

(* Once the administrators are told, every record of the run is marked.    *)
Stamped ==
  \A r \in Runs : pc[r] \in {"human_queue", "auto_action_executor"} =>
    \A a \in proposed[r] : a.token \in AutoTokens => a.marked

Permitted(r, a) ==
  \/ verdict[r] \in Cleared /\ a \in approved[r]
  \/ /\ verdict[r] = "fail" /\ tries[r] = MaxRetries
     /\ IsAuto(a) /\ (a.token \in AutoTokens => a.marked)

(* What is planned or sent is permitted by a decision that stands.         *)
PlanGuarded ==
  \A r \in Runs : \A a \in plan[r] : pc[r] \notin Undecided /\ Permitted(r, a)

SentGuarded ==
  \A s \in sent : pc[s.run] \notin Undecided /\ Permitted(s.run, s.act)

(* What is published is the analysis of a cleared run that stands.         *)
Owned ==
  \A a \in Published :
    \E r \in Runs : pc[r] \notin Undecided /\ verdict[r] \in Cleared /\ a = analysis[r]

Safe == Routed /\ Stamped /\ PlanGuarded /\ SentGuarded /\ Owned

(* A step of one run leaves the graph state of the others alone.           *)
LEMMA Apart ==
  ASSUME TypeOK, NEW r \in Runs, Start(r) \/ Step(r), NEW q \in Runs, q # r
  PROVE  /\ pc'[q] = pc[q] /\ tries'[q] = tries[q] /\ verdict'[q] = verdict[q]
         /\ approved'[q] = approved[q] /\ proposed'[q] = proposed[q]
         /\ analysis'[q] = analysis[q] /\ plan'[q] = plan[q] /\ mode'[q] = mode[q]
         /\ trigger'[q] = trigger[q] /\ results'[q] = results[q]
<1> USE DEF TypeOK, Goto, local, shared
<1>1. CASE Start(r)
  BY <1>1 DEF Start, StartByHook, StartOnRequest, StartUnchanged, MayStart
<1>2. CASE LoadContext(r) \/ PlanEmpty(r) \/ PlanFailed(r)
  BY <1>2 DEF LoadContext, PlanEmpty, PlanFailed, PlannerUnchanged
<1>3. CASE PlanAnalysed(r)
  BY <1>3 DEF PlanAnalysed, Plan, PlannerUnchanged
<1>4. CASE ReviewMissing(r) \/ Review(r) \/ IncrementRetry(r)
  BY <1>4 DEF ReviewMissing, Review, IncrementRetry, ReviewerUnchanged
<1>5. CASE NotifyAdmin(r) \/ HumanQueue(r) \/ AutoActionExecutor(r) \/ ActionExecutor(r)
  BY <1>5 DEF NotifyAdmin, HumanQueue, AutoActionExecutor, ActionExecutor
<1>6. CASE SkipAction(r) \/ PassLookup(r) \/ Deliver(r) \/ DeliverTimeout(r) \/ Refuse(r)
  BY <1>6 DEF SkipAction, PassLookup, Deliver, DeliverTimeout, Refuse, Finish, ExecutorUnchanged
<1>7. CASE ExecutorReturns(r)
  BY <1>7 DEF ExecutorReturns
<1>8. CASE SaveSummary(r) \/ UpsertSummary(r) \/ SaveVoc(r) \/ UpsertVoc(r)
  BY <1>8 DEF SaveSummary, UpsertSummary, SaveVoc, UpsertVoc
<1>9. CASE SaveLogRow(r) \/ SaveLogEnd(r) \/ SaveDashboard(r)
  BY <1>9 DEF SaveLogRow, SaveLogEnd, SaveDashboard
<1> QED
  BY <1>1, <1>2, <1>3, <1>4, <1>5, <1>6, <1>7, <1>8, <1>9 DEF Step

(* A decision stands: what the review left is not touched again.           *)
LEMMA DecisionStands ==
  ASSUME TypeOK, NEW r \in Runs, Start(r) \/ Step(r), pc[r] \notin Undecided
  PROVE  /\ pc'[r] \notin Undecided
         /\ UNCHANGED <<tries, verdict, approved, proposed, analysis>>
<1> USE DEF TypeOK, Goto, Undecided, local, shared
<1>1. ~Start(r) /\ ~LoadContext(r) /\ ~PlanEmpty(r) /\ ~PlanFailed(r) /\ ~PlanAnalysed(r)
  BY DEF Start, StartByHook, StartOnRequest, StartUnchanged, MayStart, LoadContext, PlanEmpty, PlanFailed, PlanAnalysed
<1>2. /\ ~ReviewMissing(r) /\ ~Review(r) /\ ~IncrementRetry(r)
      /\ ~NotifyAdmin(r) /\ ~HumanQueue(r) /\ ~AutoActionExecutor(r)
  BY DEF ReviewMissing, Review, IncrementRetry, NotifyAdmin, HumanQueue, AutoActionExecutor
<1>3. CASE ActionExecutor(r)
  BY <1>3 DEF ActionExecutor
<1>4. CASE SkipAction(r) \/ PassLookup(r) \/ Deliver(r) \/ DeliverTimeout(r) \/ Refuse(r)
  BY <1>4 DEF SkipAction, PassLookup, Deliver, DeliverTimeout, Refuse, Finish, ExecutorUnchanged
<1>5. CASE ExecutorReturns(r)
  BY <1>5 DEF ExecutorReturns
<1>6. CASE SaveSummary(r) \/ UpsertSummary(r) \/ SaveVoc(r) \/ UpsertVoc(r)
  BY <1>6 DEF SaveSummary, UpsertSummary, SaveVoc, UpsertVoc
<1>7. CASE SaveLogRow(r) \/ SaveLogEnd(r) \/ SaveDashboard(r)
  BY <1>7 DEF SaveLogRow, SaveLogEnd, SaveDashboard
<1> QED
  BY <1>1, <1>2, <1>3, <1>4, <1>5, <1>6, <1>7 DEF Step

(* Where a plan comes from.                                                *)
LEMMA PlanOrigin ==
  ASSUME TypeOK, NEW r \in Runs, Start(r) \/ Step(r)
  PROVE  \/ plan'[r] \subseteq plan[r]
         \/ /\ AutoActionExecutor(r) /\ plan'[r] = AutoActions(r)
            /\ pc'[r] = "execute" /\ UNCHANGED <<tries, verdict, approved>>
         \/ /\ ActionExecutor(r) /\ plan'[r] = approved[r]
            /\ pc'[r] = "execute" /\ UNCHANGED <<tries, verdict, approved>>
<1> USE DEF TypeOK, Goto, local, shared
<1>1. CASE Start(r)
  BY <1>1 DEF Start, StartByHook, StartOnRequest, StartUnchanged, MayStart
<1>2. CASE LoadContext(r) \/ PlanEmpty(r) \/ PlanFailed(r) \/ PlanAnalysed(r)
  BY <1>2 DEF LoadContext, PlanEmpty, PlanFailed, PlanAnalysed, PlannerUnchanged
<1>3. CASE ReviewMissing(r) \/ Review(r) \/ IncrementRetry(r) \/ NotifyAdmin(r) \/ HumanQueue(r)
  BY <1>3 DEF ReviewMissing, Review, IncrementRetry, ReviewerUnchanged, NotifyAdmin, HumanQueue
<1>4. CASE AutoActionExecutor(r)
  BY <1>4 DEF AutoActionExecutor
<1>5. CASE ActionExecutor(r)
  BY <1>5 DEF ActionExecutor
<1>6. CASE SkipAction(r) \/ PassLookup(r) \/ Deliver(r) \/ DeliverTimeout(r) \/ Refuse(r)
  BY <1>6 DEF SkipAction, PassLookup, Deliver, DeliverTimeout, Refuse, Finish, ExecutorUnchanged
<1>7. CASE ExecutorReturns(r)
  BY <1>7 DEF ExecutorReturns
<1>8. CASE SaveSummary(r) \/ UpsertSummary(r) \/ SaveVoc(r) \/ UpsertVoc(r)
  BY <1>8 DEF SaveSummary, UpsertSummary, SaveVoc, UpsertVoc
<1>9. CASE SaveLogRow(r) \/ SaveLogEnd(r) \/ SaveDashboard(r)
  BY <1>9 DEF SaveLogRow, SaveLogEnd, SaveDashboard
<1> QED
  BY <1>1, <1>2, <1>3, <1>4, <1>5, <1>6, <1>7, <1>8, <1>9 DEF Step

(* Only what is planned is sent.                                           *)
LEMMA SentOrigin ==
  ASSUME NEW r \in Runs, Start(r) \/ Step(r), NEW s \in sent', s \notin sent
  PROVE  \E a \in plan[r] : s = [run |-> r, act |-> a]
<1>1. CASE Deliver(r) \/ DeliverTimeout(r)
  BY <1>1 DEF Deliver, DeliverTimeout
<1>2. CASE ~(Deliver(r) \/ DeliverTimeout(r))
  BY <1>2 DEF Start, StartByHook, StartOnRequest, StartUnchanged, MayStart, Step, LoadContext, PlanEmpty, PlanFailed, PlanAnalysed, PlannerUnchanged,
     ReviewMissing, Review, IncrementRetry, ReviewerUnchanged, NotifyAdmin, HumanQueue,
     AutoActionExecutor, ActionExecutor, SkipAction, PassLookup, Refuse, ExecutorReturns,
     SaveSummary, UpsertSummary, SaveVoc, UpsertVoc, SaveLogRow, SaveLogEnd, SaveDashboard,
     local, shared
<1> QED
  BY <1>1, <1>2

(* Only a run that saves publishes, and only its own analysis.             *)
LEMMA PublishedOrigin ==
  ASSUME TypeOK, Routed, NEW r \in Runs, Start(r) \/ Step(r), NEW a \in Published', a \notin Published
  PROVE  pc[r] \notin Undecided /\ verdict[r] \in Cleared /\ a = analysis[r]
<1> DEFINE stores == <<summary, voc, memory>>
<1>1. CASE SaveSummary(r) \/ UpsertSummary(r)
  BY <1>1 DEF SaveSummary, UpsertSummary, Published, Written, Routed, Undecided, TypeOK
<1>2. CASE SaveVoc(r) \/ UpsertVoc(r)
  BY <1>2 DEF SaveVoc, UpsertVoc, Published, Written, Routed, Undecided, TypeOK
<1>3. CASE SaveDashboard(r)
  BY <1>3 DEF SaveDashboard, BlockAnalysis, Published, Routed, Undecided, TypeOK
<1>4. CASE UNCHANGED stores
  BY <1>4 DEF Published
<1>5. SaveSummary(r) \/ UpsertSummary(r) \/ SaveVoc(r) \/ UpsertVoc(r) \/ SaveDashboard(r)
      \/ UNCHANGED stores
  BY DEF Start, StartByHook, StartOnRequest, StartUnchanged, MayStart, Step, LoadContext, PlanEmpty, PlanFailed, PlanAnalysed, PlannerUnchanged,
     ReviewMissing, Review, IncrementRetry, ReviewerUnchanged, NotifyAdmin, HumanQueue,
     AutoActionExecutor, ActionExecutor, SkipAction, PassLookup, Deliver, DeliverTimeout, Refuse,
     ExecutorUnchanged, ExecutorReturns, SaveLogRow, SaveLogEnd, local, shared
<1> QED
  BY <1>1, <1>2, <1>3, <1>4, <1>5

(* The edges of the graph keep verdict and node together.                  *)
LEMMA RoutedKept ==
  ASSUME TypeOK, Routed, NEW r \in Runs, Start(r) \/ Step(r)
  PROVE  Routed'
<1> DEFINE RoutedAt(q) ==
      /\ pc[q] \in {"save_summary", "summary_db", "save_voc", "voc_db", "action_executor"} =>
           verdict[q] \in Cleared
      /\ pc[q] \in {"notify_admin", "human_queue", "auto_action_executor"} =>
           verdict[q] = "fail" /\ tries[q] = MaxRetries
      /\ pc[q] \in {"execute", "gateway", "save_log", "save_dashboard"} =>
           verdict[q] \in Cleared \/ (verdict[q] = "fail" /\ tries[q] = MaxRetries)
      /\ pc[q] = "save_log" => mode[q] = "final"
      /\ pc[q] = "save_dashboard" /\ verdict[q] = "fail" => mode[q] = "final"
<1>1. ASSUME NEW q \in Runs, q # r PROVE RoutedAt(q)'
  BY <1>1, Apart DEF Routed
<1>2. RoutedAt(r)'
  <2> USE DEF TypeOK, Goto, local, shared
  <2>0. RoutedAt(r)
    BY DEF Routed
  <2>1. CASE Start(r)
    BY <2>1 DEF Start, StartByHook, StartOnRequest, StartUnchanged, MayStart
  <2>2. CASE LoadContext(r) \/ IncrementRetry(r)
    BY <2>2 DEF LoadContext, IncrementRetry
  <2>3. CASE PlanEmpty(r) \/ PlanFailed(r) \/ PlanAnalysed(r)
    <3>1. PICK human : pc' = [pc EXCEPT ![r] = RouteAfterPlanner(r, human)]
      BY <2>3 DEF PlanEmpty, PlanFailed, PlanAnalysed
    <3>2. RouteAfterPlanner(r, human) \in {"done", "reviewer"}
      BY DEF RouteAfterPlanner
    <3> QED
      BY <3>1, <3>2
  <2>4. CASE ReviewMissing(r) \/ Review(r)
    <3>1. PICK v \in Cleared \cup {"fail"} :
            /\ verdict' = [verdict EXCEPT ![r] = v]
            /\ pc' = [pc EXCEPT ![r] = RouteAfterReview(r, v)]
      BY <2>4 DEF ReviewMissing, Review
    <3>2. tries' = tries
      BY <2>4 DEF ReviewMissing, Review, ReviewerUnchanged
    <3>3. CASE v \in Cleared
      BY <3>1, <3>3 DEF RouteAfterReview
    <3>4. CASE v = "fail" /\ v \notin Cleared
      <4>1. CASE tries[r] < MaxRetries
        BY <3>1, <3>4, <4>1 DEF RouteAfterReview
      <4>2. CASE tries[r] = MaxRetries
        <5>1. RouteAfterReview(r, v) = "notify_admin"
          BY <3>4, <4>2, ConstantsOK DEF RouteAfterReview
        <5> QED
          BY <3>1, <3>2, <3>4, <4>2, <5>1
      <4> QED
        BY <4>1, <4>2, ConstantsOK
    <3> QED
      BY <3>1, <3>3, <3>4
  <2>5. CASE NotifyAdmin(r) \/ HumanQueue(r) \/ AutoActionExecutor(r) \/ ActionExecutor(r)
    <3>1. UNCHANGED <<tries, verdict, mode>>
      BY <2>5 DEF NotifyAdmin, HumanQueue, AutoActionExecutor, ActionExecutor
    <3>2. CASE NotifyAdmin(r)
      BY <2>0, <3>1, <3>2 DEF NotifyAdmin
    <3>3. CASE HumanQueue(r)
      BY <2>0, <3>1, <3>3 DEF HumanQueue
    <3>4. CASE AutoActionExecutor(r)
      BY <2>0, <3>1, <3>4 DEF AutoActionExecutor
    <3>5. CASE ActionExecutor(r)
      BY <2>0, <3>1, <3>5 DEF ActionExecutor
    <3> QED
      BY <2>5, <3>2, <3>3, <3>4, <3>5
  <2>6. CASE SkipAction(r) \/ PassLookup(r) \/ Deliver(r) \/ DeliverTimeout(r) \/ Refuse(r)
    BY <2>0, <2>6 DEF SkipAction, PassLookup, Deliver, DeliverTimeout, Refuse, Finish, ExecutorUnchanged
  <2>7. CASE ExecutorReturns(r)
    <3>1. UNCHANGED <<tries, verdict>> /\ mode'[r] = "final"
      BY <2>7 DEF ExecutorReturns
    <3>2. pc'[r] = IF verdict[r] = "fail" THEN "save_log" ELSE "save_summary"
      BY <2>7 DEF ExecutorReturns, BlockAnalysis
    <3> QED
      BY <2>0, <2>7, <3>1, <3>2 DEF ExecutorReturns
  <2>8. CASE SaveSummary(r) \/ UpsertSummary(r) \/ SaveVoc(r)
    BY <2>0, <2>8 DEF SaveSummary, UpsertSummary, SaveVoc
  <2>9. CASE UpsertVoc(r)
    BY <2>0, <2>9 DEF UpsertVoc, Cleared
  <2>10. CASE SaveLogRow(r) \/ SaveLogEnd(r)
    BY <2>0, <2>10 DEF SaveLogRow, SaveLogEnd
  <2>11. CASE SaveDashboard(r)
    BY <2>0, <2>11 DEF SaveDashboard, BlockAnalysis
  <2> QED
    BY <2>1, <2>2, <2>3, <2>4, <2>5, <2>6, <2>7, <2>8, <2>9, <2>10, <2>11 DEF Step
<1> QED
  BY <1>1, <1>2 DEF Routed

(* notify_admin marks every record before the auto executor is reached.    *)
LEMMA StampedKept ==
  ASSUME TypeOK, Stamped, NEW r \in Runs, Start(r) \/ Step(r)
  PROVE  Stamped'
<1> SUFFICES ASSUME NEW q \in Runs, pc'[q] \in {"human_queue", "auto_action_executor"},
                    NEW a \in proposed'[q], a.token \in AutoTokens
             PROVE  a.marked
  BY DEF Stamped
<1>1. CASE q # r
  BY <1>1, Apart DEF Stamped
<1>2. CASE q = r
  <2> USE DEF TypeOK, Goto
  <2>1. CASE NotifyAdmin(r)
    <3>1. a \in {Mark(b) : b \in proposed[r]} \cup Alerts(r)
      BY <1>2, <2>1 DEF NotifyAdmin
    <3>2. CASE a \in Alerts(r)
      BY <3>2 DEF Alerts, Act, AutoTokens
    <3>3. CASE a \in {Mark(b) : b \in proposed[r]}
      <4>1. PICK b \in proposed[r] : a = Mark(b)
        BY <3>3
      <4>2. b \in Action
        OBVIOUS
      <4> QED
        BY <4>1, <4>2 DEF Mark, Action
    <3> QED
      BY <3>1, <3>2, <3>3
  <2>2. CASE HumanQueue(r)
    BY <1>2, <2>2 DEF HumanQueue, Stamped
  <2>3. CASE Start(r) \/ LoadContext(r) \/ IncrementRetry(r) \/ AutoActionExecutor(r) \/ ActionExecutor(r)
    BY <1>2, <2>3 DEF Start, StartByHook, StartOnRequest, StartUnchanged, MayStart, LoadContext, IncrementRetry, AutoActionExecutor, ActionExecutor
  <2>4. CASE PlanEmpty(r) \/ PlanFailed(r) \/ PlanAnalysed(r)
    <3>1. PICK human : pc' = [pc EXCEPT ![r] = RouteAfterPlanner(r, human)]
      BY <2>4 DEF PlanEmpty, PlanFailed, PlanAnalysed
    <3> QED
      BY <1>2, <3>1 DEF RouteAfterPlanner
  <2>5. CASE ReviewMissing(r) \/ Review(r)
    <3>1. PICK v : pc' = [pc EXCEPT ![r] = RouteAfterReview(r, v)]
      BY <2>5 DEF ReviewMissing, Review
    <3> QED
      BY <1>2, <3>1 DEF RouteAfterReview
  <2>6. CASE pc[r] \notin Undecided
    BY <1>2, <2>6, DecisionStands DEF Undecided
  <2>7. CASE pc[r] \in Undecided
    BY <2>1, <2>2, <2>3, <2>4, <2>5, <2>7
    DEF Undecided, Step, SkipAction, PassLookup, Deliver, DeliverTimeout, Refuse, ExecutorReturns,
        SaveSummary, UpsertSummary, SaveVoc, UpsertVoc, SaveLogRow, SaveLogEnd, SaveDashboard
  <2> QED
    BY <2>6, <2>7
<1> QED
  BY <1>1, <1>2

(* A permission outlives every step: the others cannot touch it, and its   *)
(* own run only once its decision stands.                                  *)
LEMMA PermissionStands ==
  ASSUME TypeOK, NEW r \in Runs, Start(r) \/ Step(r), NEW q \in Runs, pc[q] \notin Undecided
  PROVE  /\ pc'[q] \notin Undecided
         /\ verdict'[q] = verdict[q] /\ analysis'[q] = analysis[q]
         /\ \A a : Permitted(q, a) => Permitted(q, a)'
<1>1. /\ pc'[q] \notin Undecided
      /\ verdict'[q] = verdict[q] /\ analysis'[q] = analysis[q]
      /\ tries'[q] = tries[q] /\ approved'[q] = approved[q]
  BY Apart, DecisionStands
<1> QED
  BY <1>1 DEF Permitted

(* A step of any run keeps what the safety theorems rest on.               *)
LEMMA SafeKept ==
  ASSUME TypeOK, Safe, NEW r \in Runs, Start(r) \/ Step(r)
  PROVE  Safe'
<1>1. Routed' /\ Stamped'
  BY RoutedKept, StampedKept DEF Safe
<1>2. PlanGuarded'
  <2> SUFFICES ASSUME NEW q \in Runs, NEW a \in plan'[q]
               PROVE  pc'[q] \notin Undecided /\ Permitted(q, a)'
    BY DEF PlanGuarded
  <2>1. CASE a \in plan[q]
    BY <2>1, PermissionStands DEF Safe, PlanGuarded
  <2>2. CASE a \notin plan[q]
    <3>1. q = r
      BY <2>2, Apart
    <3>2. CASE AutoActionExecutor(r) /\ plan'[r] = AutoActions(r)
               /\ pc'[r] = "execute" /\ UNCHANGED <<tries, verdict, approved>>
      <4>1. IsAuto(a) /\ (a.token \in AutoTokens => a.marked)
        BY <3>1, <3>2 DEF AutoActions, AutoActionExecutor, Safe, Stamped
      <4>2. verdict[r] = "fail" /\ tries[r] = MaxRetries
        BY <3>2 DEF AutoActionExecutor, Safe, Routed
      <4> QED
        BY <3>1, <3>2, <4>1, <4>2 DEF Permitted, Undecided
    <3>3. CASE ActionExecutor(r) /\ plan'[r] = approved[r]
               /\ pc'[r] = "execute" /\ UNCHANGED <<tries, verdict, approved>>
      <4>1. verdict[r] \in Cleared
        BY <3>3 DEF ActionExecutor, Safe, Routed
      <4> QED
        BY <3>1, <3>3, <4>1 DEF Permitted, Undecided
    <3> QED
      BY <2>2, <3>1, <3>2, <3>3, PlanOrigin
  <2> QED
    BY <2>1, <2>2
<1>3. SentGuarded'
  <2> SUFFICES ASSUME NEW s \in sent'
               PROVE  pc'[s.run] \notin Undecided /\ Permitted(s.run, s.act)'
    BY DEF SentGuarded
  <2>1. CASE s \in sent
    BY <2>1, PermissionStands DEF Safe, SentGuarded, TypeOK
  <2>2. CASE s \notin sent
    <3>1. PICK a \in plan[r] : s = [run |-> r, act |-> a]
      BY <2>2, SentOrigin
    <3>2. pc[r] \notin Undecided /\ Permitted(r, a)
      BY DEF Safe, PlanGuarded
    <3> QED
      BY <3>1, <3>2, PermissionStands
  <2> QED
    BY <2>1, <2>2
<1>4. Owned'
  <2> SUFFICES ASSUME NEW a \in Published'
               PROVE  \E q \in Runs : pc'[q] \notin Undecided /\ verdict'[q] \in Cleared /\ a = analysis'[q]
    BY DEF Owned
  <2>1. PICK q \in Runs : pc[q] \notin Undecided /\ verdict[q] \in Cleared /\ a = analysis[q]
    BY PublishedOrigin DEF Safe, Owned
  <2> QED
    BY <2>1, PermissionStands
<1> QED
  BY <1>1, <1>2, <1>3, <1>4 DEF Safe

(* A dying process decides nothing.                                        *)
LEMMA SafeThroughCrash ==
  ASSUME TypeOK, Safe, Crash
  PROVE  Safe'
<1>1. /\ \A q \in Runs : pc'[q] = IF Active(q) THEN "crashed" ELSE pc[q]
      /\ UNCHANGED <<verdict, approved, tries, proposed, analysis, plan, mode, sent>>
  BY DEF Crash, local
<1>2. \A q \in Runs : pc[q] \notin Undecided => pc'[q] \notin Undecided
  BY <1>1 DEF Undecided
<1>3. Published' \subseteq Published
  BY DEF Crash, Published, Forgotten
<1>4. Routed' /\ Stamped'
  BY <1>1 DEF Safe, Routed, Stamped
<1>5. PlanGuarded' /\ SentGuarded'
  BY <1>1, <1>2 DEF Safe, PlanGuarded, SentGuarded, Permitted, TypeOK
<1>6. Owned'
  BY <1>1, <1>2, <1>3 DEF Safe, Owned
<1> QED
  BY <1>4, <1>5, <1>6 DEF Safe

(* The inductive invariant behind the safety theorems.                     *)
THEOREM AlwaysSafe == Spec => []Safe
<1>1. Init => Safe
  BY DEF Init, Safe, Routed, Stamped, PlanGuarded, SentGuarded, Owned, Published, Forgotten
<1>2. TypeOK /\ Safe /\ [Next]_vars => Safe'
  <2> SUFFICES ASSUME TypeOK, Safe, [Next]_vars PROVE Safe'
    OBVIOUS
  <2>1. CASE \E r \in Runs : Start(r) \/ Step(r)
    BY <2>1, SafeKept
  <2>2. CASE Crash
    BY <2>2, SafeThroughCrash
  <2>3. CASE UNCHANGED vars
    BY <2>3 DEF vars, local, shared, Safe, Routed, Stamped, PlanGuarded, SentGuarded, Permitted,
       Owned, Published
  <2> QED
    BY <2>1, <2>2, <2>3 DEF Next
<1> QED
  BY <1>1, <1>2, TypeCorrect, PTL DEF Spec

(* Whatever overlaps, fails or crashes, only a reviewed analysis is ever   *)
(* in the tables, in memory or on the dashboard.                           *)
THEOREM ReviewedOnly == Spec => []OnlyReviewedPublished
<1>1. Safe => OnlyReviewedPublished
  BY DEF Safe, Owned, OnlyReviewedPublished, ClearedAnalyses
<1> QED
  BY <1>1, AlwaysSafe, PTL

(* For any number of retries and proposals, what leaves the system was     *)
(* approved, or is an alert or a marked record of a run refused for good.  *)
THEOREM SendingRespectsReview == Spec => []SentRespectsReview
<1>1. Safe => SentRespectsReview
  BY DEF Safe, SentGuarded, Permitted, SentRespectsReview
<1> QED
  BY <1>1, AlwaysSafe, PTL

-----------------------------------------------------------------------------
(* What the nodes do, as the invariants below need it.                     *)

(* A proposal before the administrators are told of anything.              *)
Draft(a) == a.token \notin AlertTokens /\ ~a.marked /\ a.slot \notin {3, 4}

OneEach(S) == \A a, b \in S : a.slot = b.slot => a = b

(* What Plan proposes.                                                     *)
Proposals(a, wanted) == {Act(4 + i, wanted[i], a) : i \in DOMAIN wanted} \cup Injected(a)

(* A new plan is of drafts, one to a place, all about the new analysis.    *)
LEMMA NewPlan ==
  ASSUME NEW a \in Analysis, NEW n \in 0..MaxProposals, NEW wanted \in [1..n -> Intents]
  PROVE  /\ OneEach(Proposals(a, wanted))
         /\ \A x \in Proposals(a, wanted) : Draft(x) /\ x.about = a
<1> USE ConstantsOK
<1> DEFINE callRecord == Act(1, "call_record", a)
           vocRecord  == Act(2, "voc_record", a)
           wish(i)    == Act(4 + i, wanted[i], a)
           P          == Proposals(a, wanted)
<1>1. ASSUME NEW x \in P
      PROVE  x = callRecord \/ x = vocRecord \/ \E i \in 1..n : x = wish(i)
  BY <1>1 DEF Proposals, Injected
<1>2. ASSUME NEW i \in 1..n
      PROVE  wish(i).slot = 4 + i /\ Draft(wish(i)) /\ wish(i).about = a
  <2>1. wanted[i] \in Intents /\ 4 + i \notin {3, 4}
    OBVIOUS
  <2> QED
    BY <2>1 DEF Act, Draft, AlertTokens, AutoTokens
<1>3. /\ callRecord.slot = 1 /\ Draft(callRecord) /\ callRecord.about = a
      /\ vocRecord.slot = 2 /\ Draft(vocRecord) /\ vocRecord.about = a
  BY DEF Act, Draft, AlertTokens
<1> HIDE DEF callRecord, vocRecord, wish, P
<1>4. \A x \in P : Draft(x) /\ x.about = a
  BY <1>1, <1>2, <1>3
<1>5. ASSUME NEW x \in P, NEW y \in P, x.slot = y.slot PROVE x = y
  <2>1. x = callRecord \/ x = vocRecord \/ \E i \in 1..n : x = wish(i)
    BY <1>1
  <2>2. y = callRecord \/ y = vocRecord \/ \E i \in 1..n : y = wish(i)
    BY <1>1
  <2>3. \A i \in 1..n : wish(i).slot = 4 + i /\ 4 + i # 1 /\ 4 + i # 2
    BY <1>2
  <2>4. \A i, k \in 1..n : 4 + i = 4 + k => i = k
    OBVIOUS
  <2> QED
    BY <1>3, <1>5, <2>1, <2>2, <2>3, <2>4
<1> QED
  BY <1>4, <1>5 DEF OneEach, P

(* What the planner node leaves.                                           *)
LEMMA PlannerStep ==
  ASSUME TypeOK, NEW r \in Runs, PlanEmpty(r) \/ PlanFailed(r) \/ PlanAnalysed(r)
  PROVE  /\ pc[r] = "planner" /\ pc'[r] \in {"reviewer", "done"}
         /\ trigger[r] = "escalation_immediate" => pc'[r] = "done"
         /\ analysis'[r] \in Analysis /\ analysis'[r].run = r /\ analysis'[r].try = tries[r]
         /\ OneEach(proposed'[r])
         /\ \A x \in proposed'[r] : Draft(x) /\ x.about = analysis'[r]
         /\ UNCHANGED <<trigger, tries, verdict, approved, plan, results, mode, shared>>
<1> USE DEF TypeOK, Goto
<1>1. pc[r] = "planner" /\ UNCHANGED <<trigger, tries, verdict, approved, plan, results, mode, shared>>
  BY DEF PlanEmpty, PlanFailed, PlanAnalysed, PlannerUnchanged
<1>2. \E human : pc' = [pc EXCEPT ![r] = RouteAfterPlanner(r, human)]
  BY DEF PlanEmpty, PlanFailed, PlanAnalysed
<1>3. pc'[r] \in {"reviewer", "done"} /\ (trigger[r] = "escalation_immediate" => pc'[r] = "done")
  BY <1>2 DEF RouteAfterPlanner
<1>4. \A severe \in BOOLEAN : /\ NewAnalysis(r, severe) \in Analysis
                              /\ NewAnalysis(r, severe).run = r /\ NewAnalysis(r, severe).try = tries[r]
  BY DEF NewAnalysis, Analysis
<1>5. CASE PlanEmpty(r) \/ PlanFailed(r)
  <2>1. analysis'[r] = NewAnalysis(r, FALSE) /\ proposed'[r] = {}
    BY <1>5 DEF PlanEmpty, PlanFailed
  <2> QED
    BY <1>1, <1>3, <1>4, <2>1 DEF OneEach
<1>6. CASE PlanAnalysed(r)
  <2>1. PICK severe \in BOOLEAN, n \in 0..MaxProposals :
          \E wanted \in [1..n -> Intents] :
            /\ analysis' = [analysis EXCEPT ![r] = NewAnalysis(r, severe)]
            /\ Plan(r, NewAnalysis(r, severe), wanted)
    BY <1>6 DEF PlanAnalysed
  <2>2. PICK wanted \in [1..n -> Intents] :
            /\ analysis' = [analysis EXCEPT ![r] = NewAnalysis(r, severe)]
            /\ Plan(r, NewAnalysis(r, severe), wanted)
    BY <2>1
  <2> DEFINE a == NewAnalysis(r, severe)
  <2>3. analysis'[r] = a /\ proposed'[r] = Proposals(a, wanted)
    BY <2>2 DEF Plan, Proposals
  <2>4. a \in Analysis /\ a.run = r /\ a.try = tries[r]
    BY <1>4
  <2> HIDE DEF a
  <2>5. OneEach(Proposals(a, wanted)) /\ \A x \in Proposals(a, wanted) : Draft(x) /\ x.about = a
    BY <2>4, NewPlan
  <2> QED
    BY <1>1, <1>3, <2>3, <2>4, <2>5
<1> QED
  BY <1>5, <1>6

(* What the reviewer node leaves.                                          *)
LEMMA ReviewStep ==
  ASSUME TypeOK, Prepared, NEW r \in Runs, ReviewMissing(r) \/ Review(r)
  PROVE  /\ pc[r] = "reviewer"
         /\ verdict'[r] \in Cleared \cup {"fail"} /\ pc'[r] = RouteAfterReview(r, verdict'[r])
         /\ approved'[r] \subseteq proposed[r]
         /\ analysis'[r] \in Analysis /\ analysis'[r].run = analysis[r].run
         /\ analysis'[r].try = analysis[r].try
         /\ UNCHANGED <<trigger, tries, proposed, plan, results, mode, shared>>
<1> USE DEF TypeOK, Goto
<1>1. pc[r] = "reviewer" /\ UNCHANGED <<trigger, tries, proposed, plan, results, mode, shared>>
  BY DEF ReviewMissing, Review, ReviewerUnchanged
<1>2. analysis[r] \in Analysis
  BY <1>1 DEF Prepared
<1>3. CASE ReviewMissing(r)
  BY <1>1, <1>2, <1>3 DEF ReviewMissing
<1>4. CASE Review(r)
  <2>1. PICK v \in Cleared \cup {"fail"}, corrected \in BOOLEAN, severe \in BOOLEAN :
          \E ok \in SUBSET {a \in proposed[r] : ~IsAuto(a)} :
            /\ verdict' = [verdict EXCEPT ![r] = v]
            /\ analysis' = [analysis EXCEPT ![r].corrected = corrected, ![r].severe = severe]
            /\ approved' = [approved EXCEPT ![r] = Approve(r, v, ok)]
            /\ pc' = [pc EXCEPT ![r] = RouteAfterReview(r, v)]
    BY <1>4 DEF Review
  <2>2. analysis'[r] = [analysis[r] EXCEPT !.corrected = corrected, !.severe = severe]
    BY <2>1
  <2>3. [analysis[r] EXCEPT !.corrected = corrected, !.severe = severe] \in Analysis
    BY <1>2 DEF Analysis
  <2>4. analysis'[r].run = analysis[r].run /\ analysis'[r].try = analysis[r].try
    BY <1>2, <2>2 DEF Analysis
  <2>5. approved'[r] \subseteq proposed[r]
    BY <2>1 DEF Approve
  <2> QED
    BY <1>1, <2>1, <2>2, <2>3, <2>4, <2>5
<1> QED
  BY <1>3, <1>4

(* An action is taken from the plan, done or not, and recorded.            *)
LEMMA FinishStep ==
  ASSUME TypeOK, NEW r \in Runs, SkipAction(r) \/ Deliver(r) \/ DeliverTimeout(r) \/ Refuse(r)
  PROVE  /\ pc[r] \in {"execute", "gateway"} /\ pc'[r] = "execute"
         /\ \E a \in plan[r], status \in Statuses :
              /\ IsFirst(a, plan[r])
              /\ plan'[r] = plan[r] \ {a}
              /\ results'[r] = results[r] \cup {[act |-> a, status |-> status]}
              /\ \/ /\ sent' = sent \cup {[run |-> r, act |-> a]} /\ pc[r] = "gateway"
                 \/ /\ sent' = sent /\ status # "success"
         /\ UNCHANGED <<trigger, context, tries, analysis, proposed, verdict, approved, mode,
                        spoken, seeded, log, summary, voc, memory>>
BY DEF SkipAction, Deliver, DeliverTimeout, Refuse, Finish, ExecutorUnchanged, Statuses, TypeOK, Goto

(* The saving nodes move on and leave the graph state alone.               *)
Saves(r) ==
  \/ SaveSummary(r) \/ UpsertSummary(r) \/ SaveVoc(r) \/ UpsertVoc(r)
  \/ SaveLogRow(r) \/ SaveLogEnd(r) \/ SaveDashboard(r)

(* The saving nodes go round the graph by mode alone.                      *)
LEMMA SaveStep ==
  ASSUME TypeOK, NEW r \in Runs, Saves(r)
  PROVE  /\ <<pc[r], pc'[r]>> \in
              {<<"save_summary", "summary_db">>, <<"summary_db", "save_voc">>, <<"save_voc", "voc_db">>,
               <<"voc_db", "save_log">>, <<"voc_db", "save_dashboard">>, <<"save_log", "save_log">>,
               <<"save_log", "save_dashboard">>, <<"save_dashboard", "done">>,
               <<"save_dashboard", "action_executor">>}
         /\ pc[r] = "save_dashboard" => (pc'[r] = "done" <=> mode[r] = "final")
         /\ pc[r] = "voc_db" => (pc'[r] = "save_log" <=> mode[r] = "final")
         /\ UNCHANGED <<local, spoken, seeded, sent>>
<1> USE DEF TypeOK, Goto
<1>1. CASE SaveSummary(r) \/ UpsertSummary(r) \/ SaveVoc(r)
  BY <1>1 DEF SaveSummary, UpsertSummary, SaveVoc
<1>2. CASE UpsertVoc(r)
  BY <1>2 DEF UpsertVoc
<1>3. CASE SaveLogRow(r) \/ SaveLogEnd(r)
  BY <1>3 DEF SaveLogRow, SaveLogEnd, shared
<1>4. CASE SaveDashboard(r)
  BY <1>4 DEF SaveDashboard
<1> QED
  BY <1>1, <1>2, <1>3, <1>4 DEF Saves

(* A run begins, or is given up for want of a context.                     *)
LEMMA StartStep ==
  ASSUME TypeOK, NEW r \in Runs, Start(r)
  PROVE  /\ pc[r] = "idle" /\ pc'[r] \in {"load_context", "done"}
         /\ UNCHANGED <<tries, analysis, proposed, verdict, approved, plan, results, mode,
                        spoken, log, sent, summary, voc, memory>>
BY DEF Start, StartByHook, StartOnRequest, StartUnchanged, MayStart, TypeOK, Goto

-----------------------------------------------------------------------------
(* Until its review a run has no verdict, until its executor no result,    *)
(* and an immediate escalation gets neither.  What is reviewed is the      *)
(* run's own analysis.                                                     *)
UntouchedAt(q) ==
  /\ pc[q] \in {"idle", "load_context", "planner", "reviewer"} => verdict[q] = "none"
  /\ pc[q] = "increment_retry" => verdict[q] = "fail"
  /\ pc[q] \in Undecided => results[q] = {}
  /\ pc[q] \in Undecided \cup {"action_executor"} => mode[q] = "intermediate"
  /\ trigger[q] = "escalation_immediate" =>
       /\ pc[q] \in {"idle", "load_context", "planner", "done", "crashed"}
       /\ verdict[q] = "none" /\ results[q] = {}
  /\ pc[q] = "reviewer" \/ verdict[q] # "none" => analysis[q].run = q

Untouched == \A q \in Runs : UntouchedAt(q)

(* No step gives a run a verdict or a result before its time.              *)
LEMMA UntouchedKept ==
  ASSUME TypeOK, Prepared, Safe, Untouched, NEW r \in Runs, Start(r) \/ Step(r)
  PROVE  Untouched'
<1>1. ASSUME NEW q \in Runs, q # r PROVE UntouchedAt(q)'
  BY <1>1, Apart DEF Untouched, UntouchedAt
<1>2. UntouchedAt(r)'
  <2> USE DEF TypeOK, Goto, local, shared, Undecided
  <2>0. UntouchedAt(r)
    BY DEF Untouched
  <2>1. CASE Start(r)
    BY <2>0, <2>1, StartStep DEF UntouchedAt
  <2>2. CASE LoadContext(r) \/ IncrementRetry(r)
    BY <2>0, <2>2 DEF LoadContext, IncrementRetry, UntouchedAt
  <2>3. CASE PlanEmpty(r) \/ PlanFailed(r) \/ PlanAnalysed(r)
    BY <2>0, <2>3, PlannerStep DEF UntouchedAt
  <2>4. CASE ReviewMissing(r) \/ Review(r)
    BY <2>0, <2>4, ReviewStep DEF RouteAfterReview, Cleared, UntouchedAt
  <2>5. CASE NotifyAdmin(r) \/ HumanQueue(r) \/ AutoActionExecutor(r) \/ ActionExecutor(r)
    BY <2>0, <2>5 DEF NotifyAdmin, HumanQueue, AutoActionExecutor, ActionExecutor, UntouchedAt
  <2>6. CASE SkipAction(r) \/ Deliver(r) \/ DeliverTimeout(r) \/ Refuse(r)
    BY <2>0, <2>6, FinishStep DEF UntouchedAt
  <2>7. CASE PassLookup(r) \/ ExecutorReturns(r)
    BY <2>0, <2>7 DEF PassLookup, ExecutorReturns, BlockAnalysis, UntouchedAt
  <2>8. CASE Saves(r)
    BY <2>0, <2>8, SaveStep DEF UntouchedAt
  <2> QED
    BY <2>1, <2>2, <2>3, <2>4, <2>5, <2>6, <2>7, <2>8 DEF Step, Saves
<1> QED
  BY <1>1, <1>2 DEF Untouched

-----------------------------------------------------------------------------
(* What a run has in hand was written in its current try.                  *)
LastTryAt(q) ==
  /\ pc[q] \notin {"idle", "load_context", "planner", "done", "crashed"} =>
       /\ analysis[q].try = tries[q]
       /\ \A a \in proposed[q] : a.about.try = tries[q]
  /\ \A a \in approved[q] \cup plan[q] : a.about.try = tries[q]

LastTry == \A q \in Runs : LastTryAt(q)

(* Each try replaces what the one before had in hand.                      *)
LEMMA LastTryKept ==
  ASSUME TypeOK, Prepared, Safe, LastTry, NEW r \in Runs, Start(r) \/ Step(r)
  PROVE  LastTry'
<1>1. ASSUME NEW q \in Runs, q # r PROVE LastTryAt(q)'
  BY <1>1, Apart DEF LastTry, LastTryAt
<1>2. LastTryAt(r)'
  <2> USE DEF TypeOK, Goto, local, shared
  <2>0. LastTryAt(r)
    BY DEF LastTry
  <2>1. CASE Start(r)
    BY <2>0, <2>1, StartStep DEF LastTryAt
  <2>2. CASE LoadContext(r)
    BY <2>0, <2>2 DEF LoadContext, LastTryAt
  <2>3. CASE IncrementRetry(r)
    BY <2>0, <2>3 DEF IncrementRetry, LastTryAt, Safe, PlanGuarded, Undecided
  <2>4. CASE PlanEmpty(r) \/ PlanFailed(r) \/ PlanAnalysed(r)
    BY <2>0, <2>4, PlannerStep DEF LastTryAt
  <2>5. CASE ReviewMissing(r) \/ Review(r)
    BY <2>0, <2>5, ReviewStep DEF LastTryAt
  <2>6. CASE NotifyAdmin(r)
    <3>1. proposed'[r] = {Mark(a) : a \in proposed[r]} \cup Alerts(r)
      BY <2>6 DEF NotifyAdmin
    <3>2. \A a \in proposed[r] : Mark(a).about = a.about
      BY DEF Mark, Action
    <3>3. \A a \in Alerts(r) : a.about = analysis[r]
      BY DEF Alerts, Act
    <3>4. pc[r] = "notify_admin" /\ UNCHANGED <<tries, analysis, approved, plan>>
      BY <2>6 DEF NotifyAdmin
    <3> QED
      BY <2>0, <3>1, <3>2, <3>3, <3>4 DEF LastTryAt
  <2>7. CASE HumanQueue(r) \/ AutoActionExecutor(r) \/ ActionExecutor(r)
    BY <2>0, <2>7 DEF HumanQueue, AutoActionExecutor, AutoActions, ActionExecutor, LastTryAt
  <2>8. CASE SkipAction(r) \/ Deliver(r) \/ DeliverTimeout(r) \/ Refuse(r)
    BY <2>0, <2>8, FinishStep DEF LastTryAt
  <2>9. CASE PassLookup(r) \/ ExecutorReturns(r)
    BY <2>0, <2>9 DEF PassLookup, ExecutorReturns, LastTryAt
  <2>10. CASE Saves(r)
    BY <2>0, <2>10, SaveStep DEF LastTryAt
  <2> QED
    BY <2>1, <2>2, <2>3, <2>4, <2>5, <2>6, <2>7, <2>8, <2>9, <2>10 DEF Step, Saves
<1> QED
  BY <1>1, <1>2 DEF LastTry

-----------------------------------------------------------------------------
(* A reviewed plan is of drafts, and no two actions have one place.        *)
DraftsAt(q) ==
  /\ pc[q] \in {"reviewer", "increment_retry", "notify_admin"} =>
       OneEach(proposed[q]) /\ \A a \in proposed[q] : Draft(a)
  /\ pc[q] \in {"human_queue", "auto_action_executor"} => OneEach(proposed[q])
  /\ OneEach(approved[q]) /\ \A a \in approved[q] : Draft(a)
  /\ OneEach(plan[q])

Drafts == \A q \in Runs : DraftsAt(q)

(* Marks and alerts come after the review, each in its own place.          *)
LEMMA DraftsKept ==
  ASSUME TypeOK, Prepared, Safe, Drafts, NEW r \in Runs, Start(r) \/ Step(r)
  PROVE  Drafts'
<1>1. ASSUME NEW q \in Runs, q # r PROVE DraftsAt(q)'
  BY <1>1, Apart DEF Drafts, DraftsAt, OneEach
<1>2. DraftsAt(r)'
  <2> USE DEF TypeOK, Goto, local, shared
  <2>0. DraftsAt(r)
    BY DEF Drafts
  <2>1. CASE Start(r)
    BY <2>0, <2>1, StartStep DEF DraftsAt, OneEach
  <2>2. CASE LoadContext(r) \/ IncrementRetry(r)
    BY <2>0, <2>2 DEF LoadContext, IncrementRetry, DraftsAt, OneEach
  <2>4. CASE PlanEmpty(r) \/ PlanFailed(r) \/ PlanAnalysed(r)
    BY <2>0, <2>4, PlannerStep DEF DraftsAt, OneEach
  <2>5. CASE ReviewMissing(r) \/ Review(r)
    BY <2>0, <2>5, ReviewStep DEF DraftsAt, OneEach
  <2>6. CASE NotifyAdmin(r)
    <3>1. proposed'[r] = {Mark(a) : a \in proposed[r]} \cup Alerts(r)
      BY <2>6 DEF NotifyAdmin
    <3>2. \A a \in proposed[r] : Mark(a).slot = a.slot /\ a.slot \notin {3, 4}
      BY <2>0, <2>6 DEF NotifyAdmin, DraftsAt, Draft, Mark, Action
    <3>3. /\ \A a \in Alerts(r) : a.slot \in {3, 4}
          /\ \A a, b \in Alerts(r) : a.slot = b.slot => a = b
      BY DEF Alerts, Act
    <3>4. OneEach(proposed[r])
      BY <2>0, <2>6 DEF NotifyAdmin, DraftsAt
    <3>5. OneEach(proposed'[r])
      <4> HIDE DEF TypeOK
      <4> QED
        BY <3>1, <3>2, <3>3, <3>4 DEF OneEach
    <3>6. pc'[r] = "human_queue" /\ UNCHANGED <<approved, plan>>
      BY <2>6 DEF NotifyAdmin
    <3> QED
      BY <2>0, <3>5, <3>6 DEF DraftsAt, OneEach
  <2>7. CASE HumanQueue(r) \/ AutoActionExecutor(r) \/ ActionExecutor(r)
    BY <2>0, <2>7 DEF HumanQueue, AutoActionExecutor, AutoActions, ActionExecutor, DraftsAt, OneEach
  <2>8. CASE SkipAction(r) \/ Deliver(r) \/ DeliverTimeout(r) \/ Refuse(r)
    BY <2>0, <2>8, FinishStep DEF DraftsAt, OneEach
  <2>9. CASE PassLookup(r) \/ ExecutorReturns(r)
    BY <2>0, <2>9 DEF PassLookup, ExecutorReturns, BlockAnalysis, DraftsAt, OneEach
  <2>10. CASE Saves(r)
    BY <2>0, <2>10, SaveStep DEF DraftsAt, OneEach
  <2> QED
    BY <2>1, <2>2, <2>4, <2>5, <2>6, <2>7, <2>8, <2>9, <2>10 DEF Step, Saves
<1> QED
  BY <1>1, <1>2 DEF Drafts

-----------------------------------------------------------------------------
(* What a run has done and what it has still to do is what was decided.    *)
Acts(q) == {x.act : x \in results[q]}

Due(q) == IF verdict[q] = "fail" THEN AutoActions(q) ELSE approved[q]

AttemptedAt(q) ==
  /\ pc[q] \in {"execute", "gateway"} => Acts(q) \cup plan[q] = Due(q)
  /\ pc[q] \in {"save_summary", "summary_db", "save_voc", "voc_db", "save_log",
                "save_dashboard", "done"} /\ mode[q] = "final" => Acts(q) = Due(q)
  /\ pc[q] = "done" /\ verdict[q] # "none" => mode[q] = "final"

Attempted == \A q \in Runs : AttemptedAt(q)

(* The executor works off its plan; nothing else touches the results.      *)
LEMMA AttemptedKept ==
  ASSUME TypeOK, Prepared, Safe, Untouched, Attempted, NEW r \in Runs, Start(r) \/ Step(r)
  PROVE  Attempted'
<1>1. ASSUME NEW q \in Runs, q # r PROVE AttemptedAt(q)'
  BY <1>1, Apart DEF Attempted, AttemptedAt, Acts, Due, AutoActions
<1>2. AttemptedAt(r)'
  <2> USE DEF TypeOK, Goto, local, shared
  <2>0. AttemptedAt(r) /\ UntouchedAt(r)
    BY DEF Attempted, Untouched
  <2>1. CASE Start(r)
    BY <2>0, <2>1, StartStep DEF AttemptedAt, UntouchedAt, Undecided
  <2>2. CASE LoadContext(r) \/ IncrementRetry(r) \/ NotifyAdmin(r) \/ HumanQueue(r)
    BY <2>2 DEF LoadContext, IncrementRetry, NotifyAdmin, HumanQueue, AttemptedAt
  <2>3. CASE PlanEmpty(r) \/ PlanFailed(r) \/ PlanAnalysed(r)
    BY <2>0, <2>3, PlannerStep DEF AttemptedAt, UntouchedAt, Undecided
  <2>4. CASE ReviewMissing(r) \/ Review(r)
    BY <2>0, <2>4, ReviewStep DEF AttemptedAt, RouteAfterReview, UntouchedAt, Undecided
  <2>5. CASE AutoActionExecutor(r)
    BY <2>0, <2>5 DEF AutoActionExecutor, AutoActions, AttemptedAt, UntouchedAt, Undecided,
       Acts, Due, Safe, Routed
  <2>6. CASE ActionExecutor(r)
    BY <2>6 DEF ActionExecutor, AttemptedAt, Acts, Due, Safe, Routed, Cleared
  <2>7. CASE SkipAction(r) \/ Deliver(r) \/ DeliverTimeout(r) \/ Refuse(r)
    <3>1. PICK a \in plan[r], status \in Statuses :
            plan'[r] = plan[r] \ {a} /\ results'[r] = results[r] \cup {[act |-> a, status |-> status]}
      BY <2>7, FinishStep
    <3>2. Acts(r)' = Acts(r) \cup {a}
      <4>1. /\ Acts(r)' = {x.act : x \in results'[r]}
            /\ [act |-> a, status |-> status].act = a
        BY DEF Acts
      <4> QED
        BY <3>1, <4>1, ZenonT(30) DEF Acts
    <3>3. Due(r)' = Due(r) /\ pc[r] \in {"execute", "gateway"} /\ pc'[r] = "execute"
      BY <2>7, FinishStep DEF Due, AutoActions
    <3>4. Acts(r) \cup plan[r] = Due(r)
      BY <2>0, <3>3 DEF AttemptedAt
    <3>5. Acts(r)' \cup plan'[r] = Due(r)'
      BY <3>1, <3>2, <3>3, <3>4
    <3> QED
      BY <3>3, <3>5 DEF AttemptedAt
  <2>8. CASE PassLookup(r)
    BY <2>0, <2>8 DEF PassLookup, AttemptedAt, Acts, Due, AutoActions
  <2>9. CASE ExecutorReturns(r)
    <3>1. /\ pc[r] = "execute" /\ plan[r] = {}
          /\ pc'[r] \in {"save_log", "save_summary"}
          /\ UNCHANGED <<verdict, approved, proposed, results>>
      BY <2>9 DEF ExecutorReturns, BlockAnalysis
    <3> QED
      BY <2>0, <3>1 DEF AttemptedAt, Acts, Due, AutoActions
  <2>10. CASE Saves(r)
    <3>1. Acts(r)' = Acts(r) /\ Due(r)' = Due(r) /\ UNCHANGED <<mode, verdict>>
      BY <2>10, SaveStep DEF Acts, Due, AutoActions
    <3> QED
      BY <2>0, <2>10, <3>1, SaveStep DEF AttemptedAt
  <2> QED
    BY <2>1, <2>2, <2>3, <2>4, <2>5, <2>6, <2>7, <2>8, <2>9, <2>10 DEF Step, Saves
<1> QED
  BY <1>1, <1>2 DEF Attempted

(* A dying process changes no graph state but the node.                    *)
LEMMA CrashStep ==
  ASSUME TypeOK, Crash
  PROVE  /\ \A q \in Runs : pc'[q] = IF Active(q) THEN "crashed" ELSE pc[q]
         /\ UNCHANGED <<local, spoken, log, sent, summary, voc>>
         /\ seeded' = "none" /\ memory' = Forgotten
BY DEF Crash

(* What the theorems below rest on, beside Safe.                           *)
Orderly == Untouched /\ LastTry /\ Drafts /\ Attempted

(* A crash leaves what the runs had in hand.                               *)
LEMMA OrderlyThroughCrash ==
  ASSUME TypeOK, Orderly, Crash
  PROVE  Orderly'
<1> SUFFICES ASSUME NEW q \in Runs
             PROVE  UntouchedAt(q)' /\ LastTryAt(q)' /\ DraftsAt(q)' /\ AttemptedAt(q)'
  BY DEF Orderly, Untouched, LastTry, Drafts, Attempted
<1>1. /\ pc'[q] = "crashed" \/ pc'[q] = pc[q]
      /\ UNCHANGED <<trigger, tries, analysis, proposed, verdict, approved, plan, results, mode>>
  BY CrashStep DEF local
<1>2. UntouchedAt(q) /\ LastTryAt(q) /\ DraftsAt(q) /\ AttemptedAt(q)
  BY DEF Orderly, Untouched, LastTry, Drafts, Attempted
<1>3. UntouchedAt(q)'
  BY <1>1, <1>2 DEF UntouchedAt, Undecided
<1>4. LastTryAt(q)'
  BY <1>1, <1>2 DEF LastTryAt
<1>5. DraftsAt(q)'
  BY <1>1, <1>2 DEF DraftsAt, OneEach
<1>6. AttemptedAt(q)'
  BY <1>1, <1>2 DEF AttemptedAt, Acts, Due, AutoActions
<1> QED
  BY <1>3, <1>4, <1>5, <1>6

(* The inductive invariant of what a run has in hand and what it has done. *)
THEOREM AlwaysOrderly == Spec => []Orderly
<1>1. Init => Orderly
  BY DEF Init, Orderly, Untouched, UntouchedAt, LastTry, LastTryAt, Drafts, DraftsAt, OneEach,
     Attempted, AttemptedAt, Undecided
<1>2. TypeOK /\ Prepared /\ Safe /\ Orderly /\ [Next]_vars => Orderly'
  <2> SUFFICES ASSUME TypeOK, Prepared, Safe, Orderly, [Next]_vars PROVE Orderly'
    OBVIOUS
  <2>1. ASSUME NEW r \in Runs, Start(r) \/ Step(r) PROVE Orderly'
    BY <2>1, UntouchedKept, LastTryKept, DraftsKept, AttemptedKept DEF Orderly
  <2>2. CASE Crash
    BY <2>2, OrderlyThroughCrash
  <2>3. CASE UNCHANGED vars
    BY <2>3 DEF vars, local, shared, Orderly, Untouched, UntouchedAt, LastTry, LastTryAt,
       Drafts, DraftsAt, OneEach, Attempted, AttemptedAt, Acts, Due, AutoActions
  <2> QED
    BY <2>1, <2>2, <2>3 DEF Next
<1> QED
  BY <1>1, <1>2, TypeInvariant, AlwaysSafe, PTL DEF Spec

(* What is sent was planned in the last try, and a run that sends is past  *)
(* its retries.                                                            *)
LEMMA LastTrySentKept ==
  ASSUME TypeOK, Safe, LastTry, SentFromLastTry, NEW r \in Runs, Start(r) \/ Step(r)
  PROVE  SentFromLastTry'
<1> SUFFICES ASSUME NEW s \in sent' PROVE s.act.about.try = tries'[s.run]
  BY DEF SentFromLastTry
<1>1. \A q \in Runs : pc[q] \notin Undecided => tries'[q] = tries[q]
  BY Apart, DecisionStands
<1>2. CASE s \in sent
  BY <1>1, <1>2 DEF SentFromLastTry, Safe, SentGuarded, TypeOK
<1>3. CASE s \notin sent
  <2>1. PICK a \in plan[r] : s = [run |-> r, act |-> a]
    BY <1>3, SentOrigin
  <2>2. pc[r] \notin Undecided /\ a.about.try = tries[r]
    BY DEF Safe, PlanGuarded, LastTry, LastTryAt
  <2> QED
    BY <1>1, <2>1, <2>2
<1> QED
  BY <1>2, <1>3

(* However often the planner is asked again, what leaves the system was    *)
(* written from the analysis of the last try.                              *)
THEOREM OnlyTheLastTryIsSent == Spec => []SentFromLastTry
<1>1. Init => SentFromLastTry
  BY DEF Init, SentFromLastTry
<1>2. TypeOK /\ Safe /\ Orderly /\ SentFromLastTry /\ [Next]_vars => SentFromLastTry'
  <2>1. CASE Crash
    BY <2>1 DEF Crash, local, SentFromLastTry
  <2>2. CASE UNCHANGED vars
    BY <2>2 DEF vars, local, shared, SentFromLastTry
  <2> QED
    BY <2>1, <2>2, LastTrySentKept DEF Next, Orderly
<1> QED
  BY <1>1, <1>2, TypeCorrect, AlwaysSafe, AlwaysOrderly, PTL DEF Spec

(* An immediate escalation is analysed and nothing more: nothing it did is *)
(* recorded, sent or published.                                            *)
THEOREM EscalationIsSilent == Spec => []EscalationLeavesNoTrace
<1>1. TypeOK /\ Safe /\ Orderly => EscalationLeavesNoTrace
  <2> SUFFICES ASSUME TypeOK, Safe, Orderly, NEW r \in Runs, trigger[r] = "escalation_immediate"
               PROVE  /\ results[r] = {} /\ \A s \in sent : s.run # r
                      /\ \A a \in Published : a.run # r
    BY DEF EscalationLeavesNoTrace
  <2>1. results[r] = {} /\ verdict[r] = "none"
    BY DEF Orderly, Untouched, UntouchedAt
  <2>2. \A s \in sent : s.run # r
    BY <2>1 DEF Safe, SentGuarded, Permitted, Cleared
  <2>3. ASSUME NEW a \in Published, a.run = r PROVE FALSE
    <3>1. PICK q \in Runs : verdict[q] \in Cleared /\ a = analysis[q]
      BY DEF Safe, Owned
    <3>2. analysis[q].run = q
      BY <3>1 DEF Orderly, Untouched, UntouchedAt, Cleared
    <3> QED
      BY <2>1, <2>3, <3>1, <3>2 DEF Cleared
  <2> QED
    BY <2>1, <2>2, <2>3
<1> QED
  BY <1>1, TypeCorrect, AlwaysSafe, AlwaysOrderly, PTL

(* A run that ends by itself has tried every approved action, or, refused  *)
(* for good, every alert and marked record.                                *)
THEOREM NothingPlannedIsDropped == Spec => []EveryPlannedActionAttempted
<1>1. Orderly => EveryPlannedActionAttempted
  <2> SUFFICES ASSUME Orderly, NEW r \in Runs, pc[r] = "done", verdict[r] \in Cleared \cup {"fail"}
               PROVE  Acts(r) = Due(r)
    BY DEF EveryPlannedActionAttempted, Acts, Due, Cleared
  <2> QED
    BY DEF Orderly, Attempted, AttemptedAt, Cleared
<1> QED
  BY <1>1, AlwaysOrderly, PTL

-----------------------------------------------------------------------------
(* The action log and the outside world: both only grow.                   *)
LEMMA Grows ==
  ASSUME NEW r \in Runs, Start(r) \/ Step(r)
  PROVE  sent \subseteq sent' /\ log \subseteq log'
<1>1. CASE Deliver(r) \/ DeliverTimeout(r)
  BY <1>1 DEF Deliver, DeliverTimeout, ExecutorUnchanged
<1>2. CASE SaveLogRow(r)
  BY <1>2 DEF SaveLogRow
<1>3. CASE ~(Deliver(r) \/ DeliverTimeout(r) \/ SaveLogRow(r))
  BY <1>3 DEF Start, StartByHook, StartOnRequest, StartUnchanged, MayStart, Step, LoadContext,
     PlanEmpty, PlanFailed, PlanAnalysed, PlannerUnchanged,
     ReviewMissing, Review, IncrementRetry, ReviewerUnchanged, NotifyAdmin, HumanQueue,
     AutoActionExecutor, ActionExecutor, SkipAction, PassLookup, Refuse, ExecutorReturns,
     ExecutorUnchanged, SaveSummary, UpsertSummary, SaveVoc, UpsertVoc, SaveLogEnd,
     SaveDashboard, local, shared
<1> QED
  BY <1>1, <1>2, <1>3

(* Only the saving of the log adds a row.                                  *)
LEMMA RowOrigin ==
  ASSUME NEW r \in Runs, Start(r) \/ Step(r), NEW row \in log', row \notin log
  PROVE  \E x \in results[r] : row = Row(r, x)
<1>1. CASE SaveLogRow(r)
  BY <1>1 DEF SaveLogRow, Unlogged
<1>2. CASE ~SaveLogRow(r)
  BY <1>2 DEF Start, StartByHook, StartOnRequest, StartUnchanged, MayStart, Step, LoadContext,
     PlanEmpty, PlanFailed, PlanAnalysed, PlannerUnchanged,
     ReviewMissing, Review, IncrementRetry, ReviewerUnchanged, NotifyAdmin, HumanQueue,
     AutoActionExecutor, ActionExecutor, SkipAction, PassLookup, Deliver, DeliverTimeout, Refuse,
     ExecutorReturns, ExecutorUnchanged, SaveSummary, UpsertSummary, SaveVoc, UpsertVoc,
     SaveLogEnd, SaveDashboard, local, shared
<1> QED
  BY <1>1, <1>2

(* What a run sent is among its results, what succeeded was sent, and with *)
(* the database up a run that has saved its log has logged every result.   *)
SentIsDone(q) ==
  \A s \in sent : s.run = q =>
    s.act \in Acts(q) /\ (mode[q] = "final" \/ pc[q] \in {"execute", "gateway", "crashed"})

SuccessIsSent(q) ==
  \A x \in results[q] : x.status = "success" => [run |-> q, act |-> x.act] \in sent

Logged(q) ==
  (pc[q] = "save_dashboard" /\ mode[q] = "final") \/ pc[q] = "done" =>
    \A x \in results[q] : Row(q, x) \in log

AccountedAt(q) == SentIsDone(q) /\ SuccessIsSent(q) /\ ("db" \notin Faults => Logged(q))

Accounted == \A q \in Runs : AccountedAt(q)

(* A row that says success is of an action that was sent.                  *)
RowsTrue ==
  \A row \in log : row.status = "success" =>
    \E s \in sent : s.run = row.run /\ s.act.token = row.token /\ s.act.slot = row.slot

(* The other steps than a finished action neither send nor, but for the    *)
(* log itself, record.                                                     *)
LEMMA SentStays ==
  ASSUME NEW r \in Runs, Start(r) \/ Step(r),
         ~(SkipAction(r) \/ Deliver(r) \/ DeliverTimeout(r) \/ Refuse(r))
  PROVE  sent' = sent
BY DEF Start, StartByHook, StartOnRequest, StartUnchanged, MayStart, Step, LoadContext,
     PlanEmpty, PlanFailed, PlanAnalysed, PlannerUnchanged,
     ReviewMissing, Review, IncrementRetry, ReviewerUnchanged, NotifyAdmin, HumanQueue,
     AutoActionExecutor, ActionExecutor, PassLookup, ExecutorReturns,
     SaveSummary, UpsertSummary, SaveVoc, UpsertVoc, SaveLogRow,
     SaveLogEnd, SaveDashboard, local, shared

(* What a run has sent and logged is not disturbed by another.             *)
LEMMA AccountedApart ==
  ASSUME TypeOK, Accounted, NEW r \in Runs, Start(r) \/ Step(r), NEW q \in Runs, q # r
  PROVE  AccountedAt(q)'
<1>1. AccountedAt(q) /\ sent \subseteq sent' /\ log \subseteq log'
  BY Grows DEF Accounted
<1>2. UNCHANGED <<pc[q], mode[q], results[q]>>
  BY Apart
<1>3. SentIsDone(q)'
  <2> SUFFICES ASSUME NEW s \in sent', s.run = q
               PROVE  s.act \in Acts(q)'
                      /\ (mode'[q] = "final" \/ pc'[q] \in {"execute", "gateway", "crashed"})
    BY DEF SentIsDone
  <2>1. s \in sent
    BY SentOrigin
  <2> QED
    BY <1>1, <1>2, <2>1 DEF AccountedAt, SentIsDone, Acts
<1>4. SuccessIsSent(q)'
  BY <1>1, <1>2 DEF AccountedAt, SuccessIsSent
<1>5. "db" \notin Faults => Logged(q)'
  BY <1>1, <1>2 DEF AccountedAt, Logged, Row
<1> QED
  BY <1>3, <1>4, <1>5 DEF AccountedAt

(* A run that begins its executor, or is handed to a human, has sent       *)
(* nothing yet.                                                            *)
LEMMA NothingSentYet ==
  ASSUME TypeOK, Safe, Untouched, Accounted, NEW r \in Runs,
         pc[r] \in Undecided \cup {"action_executor"}
  PROVE  \A s \in sent : s.run # r
<1>1. CASE pc[r] \in Undecided
  BY <1>1 DEF Safe, SentGuarded
<1>2. CASE pc[r] = "action_executor"
  <2>1. mode[r] # "final" /\ pc[r] \notin {"execute", "gateway", "crashed"}
    BY <1>2 DEF Untouched, UntouchedAt
  <2> QED
    BY <2>1 DEF Accounted, AccountedAt, SentIsDone
<1> QED
  BY <1>1, <1>2

(* A run's own step keeps its account.                                     *)
LEMMA AccountedOwn ==
  ASSUME TypeOK, Prepared, Safe, Untouched, Accounted, NEW r \in Runs, Start(r) \/ Step(r)
  PROVE  AccountedAt(r)'
<1> USE DEF TypeOK, Goto, local, shared
<1>0. AccountedAt(r) /\ UntouchedAt(r) /\ log \subseteq log'
  BY Grows DEF Accounted, Untouched
<1>1. CASE pc[r] \in Undecided
  <2>1. sent' = sent /\ \A s \in sent : s.run # r
    <3>1. ~(SkipAction(r) \/ Deliver(r) \/ DeliverTimeout(r) \/ Refuse(r))
      BY <1>1, FinishStep DEF Undecided
    <3> QED
      BY <1>1, <3>1, SentStays, NothingSentYet
  <2>2. results'[r] = {}
    <3>1. results[r] = {}
      BY <1>0, <1>1 DEF UntouchedAt
    <3>2. CASE Start(r)
      BY <3>1, <3>2, StartStep
    <3>3. CASE PlanEmpty(r) \/ PlanFailed(r) \/ PlanAnalysed(r)
      BY <3>1, <3>3, PlannerStep
    <3>4. CASE ReviewMissing(r) \/ Review(r)
      BY <3>1, <3>4, ReviewStep
    <3>5. CASE LoadContext(r) \/ IncrementRetry(r) \/ NotifyAdmin(r) \/ HumanQueue(r) \/ AutoActionExecutor(r)
      BY <3>1, <3>5 DEF LoadContext, IncrementRetry, NotifyAdmin, HumanQueue, AutoActionExecutor
    <3>6. ~ActionExecutor(r) /\ ~PassLookup(r) /\ ~ExecutorReturns(r)
      BY <1>1 DEF Undecided, ActionExecutor, PassLookup, ExecutorReturns
    <3>7. ~(SkipAction(r) \/ Deliver(r) \/ DeliverTimeout(r) \/ Refuse(r)) /\ ~Saves(r)
      BY <1>1, FinishStep, SaveStep DEF Undecided
    <3> QED
      BY <3>2, <3>3, <3>4, <3>5, <3>6, <3>7 DEF Step, Saves
  <2> QED
    BY <2>1, <2>2 DEF AccountedAt, SentIsDone, SuccessIsSent, Logged
<1>2. CASE ActionExecutor(r)
  <2>1. /\ pc[r] = "action_executor" /\ results'[r] = {} /\ sent' = sent
    BY <1>2 DEF ActionExecutor
  <2>2. \A s \in sent : s.run # r
    BY <2>1, NothingSentYet
  <2> QED
    BY <2>1, <2>2 DEF AccountedAt, SentIsDone, SuccessIsSent, Logged
<1>3. CASE SkipAction(r) \/ Deliver(r) \/ DeliverTimeout(r) \/ Refuse(r)
  <2>1. PICK a \in plan[r], status \in Statuses :
          /\ results'[r] = results[r] \cup {[act |-> a, status |-> status]}
          /\ \/ sent' = sent \cup {[run |-> r, act |-> a]}
             \/ sent' = sent /\ status # "success"
    BY <1>3, FinishStep
  <2>2. pc'[r] = "execute"
    BY <1>3, FinishStep
  <2>3. Acts(r)' = Acts(r) \cup {a}
    <3>1. /\ Acts(r)' = {x.act : x \in results'[r]}
          /\ [act |-> a, status |-> status].act = a
      BY DEF Acts
    <3> QED
      BY <2>1, <3>1, Zenon DEF Acts
  <2>4. SentIsDone(r)'
    BY <1>0, <2>1, <2>2, <2>3 DEF AccountedAt, SentIsDone
  <2>5. SuccessIsSent(r)'
    BY <1>0, <2>1 DEF AccountedAt, SuccessIsSent
  <2>6. Logged(r)'
    BY <2>2 DEF Logged
  <2> QED
    BY <2>4, <2>5, <2>6 DEF AccountedAt
<1>4. CASE PassLookup(r)
  <2>1. pc[r] = "execute" /\ pc'[r] = "gateway" /\ UNCHANGED <<mode, results, sent>>
    BY <1>4 DEF PassLookup
  <2> QED
    BY <1>0, <2>1 DEF AccountedAt, SentIsDone, SuccessIsSent, Logged, Acts
<1>5. CASE ExecutorReturns(r)
  <2>1. /\ mode'[r] = "final" /\ pc'[r] \in {"save_log", "save_summary"}
        /\ UNCHANGED <<results, sent>>
    BY <1>5 DEF ExecutorReturns, BlockAnalysis
  <2> QED
    BY <1>0, <2>1 DEF AccountedAt, SentIsDone, SuccessIsSent, Logged, Acts
<1>6. CASE Saves(r)
  <2>1. UNCHANGED <<mode, results, sent>>
    BY <1>6, SaveStep
  <2>2. SentIsDone(r)'
    BY <1>0, <1>6, <2>1, SaveStep DEF AccountedAt, SentIsDone, Acts
  <2>3. SuccessIsSent(r)'
    BY <1>0, <2>1 DEF AccountedAt, SuccessIsSent
  <2>4. ASSUME "db" \notin Faults PROVE Logged(r)'
    <3>1. CASE SaveLogEnd(r)
      <4>1. Unlogged(r) = {} /\ log' = log
        BY <2>4, <3>1 DEF SaveLogEnd
      <4> QED
        BY <2>1, <4>1 DEF Unlogged, Logged, Row
    <3>2. CASE pc[r] = "save_dashboard" /\ pc'[r] = "done"
      <4>1. mode[r] = "final"
        BY <1>6, <3>2, SaveStep
      <4> QED
        BY <1>0, <2>1, <2>4, <3>2, <4>1 DEF AccountedAt, Logged, Row
    <3>3. CASE ~SaveLogEnd(r) /\ ~(pc[r] = "save_dashboard" /\ pc'[r] = "done")
      <4>1. ~((pc'[r] = "save_dashboard" /\ mode'[r] = "final") \/ pc'[r] = "done")
        <5>1. CASE SaveLogRow(r)
          BY <5>1 DEF SaveLogRow, Safe, Routed
        <5>2. CASE ~SaveLogRow(r)
          <6>1. pc[r] # "save_log"
            BY <1>6, <3>3, <5>2 DEF Saves, SaveSummary, UpsertSummary, SaveVoc, UpsertVoc, SaveDashboard
          <6> QED
            BY <1>6, <2>1, <3>3, <6>1, SaveStep
        <5> QED
          BY <5>1, <5>2
      <4> QED
        BY <4>1 DEF Logged
    <3> QED
      BY <3>1, <3>2, <3>3
  <2> QED
    BY <2>2, <2>3, <2>4 DEF AccountedAt
<1>7. Step(r) => pc[r] \in Undecided \/ ActionExecutor(r) \/ PassLookup(r) \/ ExecutorReturns(r)
        \/ (SkipAction(r) \/ Deliver(r) \/ DeliverTimeout(r) \/ Refuse(r)) \/ Saves(r)
  BY DEF Step, Saves, Undecided, LoadContext, PlanEmpty, PlanFailed, PlanAnalysed, ReviewMissing,
     Review, IncrementRetry, NotifyAdmin, HumanQueue, AutoActionExecutor
<1>8. Start(r) => pc[r] \in Undecided
  BY StartStep DEF Undecided
<1> QED
  BY <1>1, <1>2, <1>3, <1>4, <1>5, <1>6, <1>7, <1>8

(* A row is written from a result, and a success was sent before.          *)
LEMMA RowsTrueKept ==
  ASSUME TypeOK, Accounted, RowsTrue, NEW r \in Runs, Start(r) \/ Step(r)
  PROVE  RowsTrue'
<1> SUFFICES ASSUME NEW row \in log', row.status = "success"
             PROVE  \E s \in sent' : s.run = row.run /\ s.act.token = row.token /\ s.act.slot = row.slot
  BY DEF RowsTrue
<1>1. sent \subseteq sent'
  BY Grows
<1>2. CASE row \in log
  BY <1>1, <1>2 DEF RowsTrue
<1>3. CASE row \notin log
  <2>1. PICK x \in results[r] : row = Row(r, x)
    BY <1>3, RowOrigin
  <2>2. [run |-> r, act |-> x.act] \in sent
    BY <2>1 DEF Accounted, AccountedAt, SuccessIsSent, Row
  <2>3. row.run = r /\ row.token = x.act.token /\ row.slot = x.act.slot
    BY <2>1 DEF Row
  <2> DEFINE s == [run |-> r, act |-> x.act]
  <2>4. s \in sent' /\ s.run = r /\ s.act = x.act
    BY <1>1, <2>2
  <2> HIDE DEF s
  <2> QED
    BY <2>3, <2>4
<1> QED
  BY <1>2, <1>3

(* The inductive invariant of the action log.                              *)
THEOREM AlwaysAccounted == Spec => [](Accounted /\ RowsTrue)
<1>1. Init => Accounted /\ RowsTrue
  BY DEF Init, Accounted, AccountedAt, SentIsDone, SuccessIsSent, Logged, RowsTrue
<1>2. TypeOK /\ Prepared /\ Safe /\ Orderly /\ Accounted /\ RowsTrue /\ [Next]_vars
        => Accounted' /\ RowsTrue'
  <2> SUFFICES ASSUME TypeOK, Prepared, Safe, Orderly, Accounted, RowsTrue, [Next]_vars
               PROVE  Accounted' /\ RowsTrue'
    OBVIOUS
  <2>1. ASSUME NEW r \in Runs, Start(r) \/ Step(r) PROVE Accounted' /\ RowsTrue'
    <3>1. \A q \in Runs : AccountedAt(q)'
      BY <2>1, AccountedApart, AccountedOwn DEF Orderly
    <3> QED
      BY <2>1, <3>1, RowsTrueKept DEF Accounted
  <2>2. CASE Crash
    <3>1. /\ \A q \in Runs : pc'[q] = "crashed" \/ pc'[q] = pc[q]
          /\ UNCHANGED <<mode, results, sent, log>>
      BY <2>2, CrashStep DEF local
    <3>2. RowsTrue'
      BY <3>1 DEF RowsTrue
    <3>3. ASSUME NEW q \in Runs PROVE AccountedAt(q)'
      <4>1. AccountedAt(q)
        BY DEF Accounted
      <4> QED
        BY <3>1, <4>1 DEF AccountedAt, SentIsDone, SuccessIsSent, Logged, Acts, Row
    <3> QED
      BY <3>2, <3>3 DEF Accounted
  <2>3. CASE UNCHANGED vars
    BY <2>3 DEF vars, local, shared, Accounted, AccountedAt, SentIsDone, SuccessIsSent, Logged,
       Acts, Row, RowsTrue
  <2> QED
    BY <2>1, <2>2, <2>3 DEF Next
<1> QED
  BY <1>1, <1>2, TypeInvariant, AlwaysSafe, AlwaysOrderly, PTL DEF Spec

(* With the database up, the log has a row for every action a finished run *)
(* sent, and says success of nothing that was not sent.                    *)
THEOREM TheLogIsTheTruth == ASSUME "db" \notin Faults PROVE Spec => []LogTellsTruth
<1>1. TypeOK /\ Accounted /\ RowsTrue => LogTellsTruth
  <2> SUFFICES ASSUME TypeOK, Accounted, RowsTrue PROVE LogTellsTruth
    OBVIOUS
  <2>1. ASSUME NEW s \in sent, pc[s.run] = "done"
        PROVE  \E row \in log : row.run = s.run /\ row.slot = s.act.slot
    <3> DEFINE q == s.run
    <3>1. q \in Runs
      BY DEF TypeOK
    <3>2. s.act \in Acts(q) /\ Logged(q)
      BY <3>1 DEF Accounted, AccountedAt, SentIsDone
    <3>3. PICK x \in results[q] : s.act = x.act
      BY <3>2 DEF Acts
    <3>4. Row(q, x) \in log
      BY <2>1, <3>2, <3>3 DEF Logged
    <3>5. Row(q, x).run = q /\ Row(q, x).slot = s.act.slot
      BY <3>3 DEF Row
    <3> QED
      BY <3>4, <3>5
  <2> QED
    BY <2>1 DEF LogTellsTruth, RowsTrue
<1> QED
  BY <1>1, TypeCorrect, AlwaysAccounted, PTL

-----------------------------------------------------------------------------
(* The refinement of PostCallPromise.                                      *)

Stages    == [q \in Runs |-> StageOf(q)]
Acc(q)    == IF verdict[q] \in Cleared THEN analysis[q] ELSE None
Accepted  == [q \in Runs |-> Acc(q)]
Shown     == [p \in Places |-> ShownAt(p)]
Delivered == {[run |-> s.run, kind |-> KindOf(s.act)] : s \in sent}

(* A step of one run moves no other run's stage.                           *)
LEMMA OwnStage ==
  ASSUME TypeOK, NEW r \in Runs, Start(r) \/ Step(r)
  PROVE  /\ Stages' = [Stages EXCEPT ![r] = StageOf(r)']
         /\ Accepted' = [Accepted EXCEPT ![r] = Acc(r)']
<1>1. ASSUME NEW q \in Runs, q # r PROVE StageOf(q)' = StageOf(q) /\ Acc(q)' = Acc(q)
  BY <1>1, Apart DEF StageOf, Acc, Ended, Refused
<1>2. Stages' = [Stages EXCEPT ![r] = StageOf(r)']
  BY <1>1 DEF Stages
<1>3. Accepted' = [Accepted EXCEPT ![r] = Acc(r)']
  BY <1>1 DEF Accepted
<1> QED
  BY <1>2, <1>3

(* A step that neither decides, ends, sends nor shows anything.            *)
LEMMA Stutter ==
  ASSUME TypeOK, NEW r \in Runs, Start(r) \/ Step(r),
         StageOf(r)' = StageOf(r), Acc(r)' = Acc(r), UNCHANGED <<sent, summary, voc, memory>>
  PROVE  UNCHANGED Promise!vars
<1>1. Stages' = Stages
  BY OwnStage DEF Stages
<1>2. Accepted' = Accepted
  BY OwnStage DEF Accepted
<1>3. Shown' = Shown
  BY DEF Shown, ShownAt
<1>4. Delivered' = Delivered
  BY DEF Delivered
<1> QED
  BY <1>1, <1>2, <1>3, <1>4 DEF Promise!vars, Stages, Accepted, Acc, Shown, Delivered

(* A run ends; one place may be emptied.                                   *)
LEMMA Closing ==
  ASSUME TypeOK, NEW r \in Runs, Start(r) \/ Step(r), NEW P \in SUBSET Places,
         StageOf(r)' = "closed", Acc(r)' = Acc(r), sent' = sent,
         \A p \in Places : ShownAt(p)' = IF p \in P THEN None ELSE ShownAt(p)
  PROVE  Promise!Close
<1>1. Stages' = [q \in Runs |-> IF q \in {r} THEN "closed" ELSE Stages[q]]
  BY OwnStage DEF Stages
<1>2. Accepted' = Accepted
  BY OwnStage DEF Accepted
<1>3. Shown' = [p \in Places |-> IF p \in P THEN None ELSE Shown[p]]
  BY DEF Shown
<1>4. Delivered' = Delivered
  BY DEF Delivered
<1> QED
  BY ZenonT(30), <1>1, <1>2, <1>3, <1>4 DEF Promise!Close, Stages, Accepted, Acc, Shown, Delivered

(* A cleared run shows its analysis in one place, or does not.             *)
LEMMA Showing ==
  ASSUME TypeOK, NEW r \in Runs, Start(r) \/ Step(r), NEW p \in Places,
         StageOf(r) = "cleared", Acc(r)' = Acc(r), sent' = sent,
         \A q \in Places : ShownAt(q)' = IF q = p THEN Acc(r) ELSE ShownAt(q)
  PROVE  /\ StageOf(r)' = "cleared" => Promise!Show(r)
         /\ StageOf(r)' = "closed" => Promise!ShowAndClose(r)
<1>1. Stages[r] = "cleared" /\ Stages' = [Stages EXCEPT ![r] = StageOf(r)']
  BY OwnStage DEF Stages
<1>2. Accepted' = Accepted /\ Accepted[r] = Acc(r)
  BY OwnStage DEF Accepted
<1>3. Shown' = [Shown EXCEPT ![p] = Accepted[r]]
  BY <1>2 DEF Shown
<1>4. Delivered' = Delivered
  BY DEF Delivered
<1>5. StageOf(r)' = "cleared" => Stages' = Stages
  BY <1>1 DEF Stages
<1>6. StageOf(r)' = "cleared" => Promise!Show(r)
  BY <1>1, <1>2, <1>3, <1>4, <1>5 DEF Promise!Show, Stages, Accepted, Acc, Shown, Delivered
<1>7. StageOf(r)' = "closed" => Promise!ShowAndClose(r)
  BY <1>1, <1>2, <1>3, <1>4 DEF Promise!ShowAndClose, Stages, Accepted, Acc, Shown, Delivered
<1> QED
  BY <1>6, <1>7

(* The review: it accepts, refuses for good, or asks for another try.      *)
LEMMA ReviewKeeps ==
  ASSUME TypeOK, Prepared, Untouched, NEW r \in Runs, ReviewMissing(r) \/ Review(r)
  PROVE  Promise!Accept(r) \/ Promise!Refuse(r) \/ UNCHANGED Promise!vars
<1>0. Start(r) \/ Step(r)
  BY DEF Step
<1>1. /\ pc[r] = "reviewer" /\ verdict[r] = "none"
      /\ verdict'[r] \in Cleared \cup {"fail"} /\ pc'[r] = RouteAfterReview(r, verdict'[r])
      /\ analysis'[r] \in Analysis
      /\ UNCHANGED <<sent, summary, voc, memory>>
  BY ReviewStep DEF Untouched, UntouchedAt, shared
<1>2. StageOf(r) = "open" /\ Acc(r) = None
  BY <1>1 DEF StageOf, Ended, Refused, Cleared, Acc
<1>3. Stages[r] = "open"
  BY <1>2 DEF Stages
<1>4. Shown' = Shown /\ Delivered' = Delivered
  BY <1>1 DEF Shown, ShownAt, Delivered
<1>5. CASE verdict'[r] \in Cleared
  <2>1. pc'[r] = "save_summary"
    BY <1>1, <1>5 DEF RouteAfterReview
  <2>2. StageOf(r)' = "cleared" /\ Acc(r)' = analysis'[r]
    BY <1>5, <2>1 DEF StageOf, Ended, Refused, Cleared, Acc
  <2>3. Promise!Accept(r)
    BY <1>0, <1>1, <1>3, <1>4, <2>2, OwnStage
    DEF Promise!Accept, Stages, Accepted, Acc, Shown, Delivered
  <2> QED
    BY <2>3
<1>6. CASE verdict'[r] = "fail" /\ pc'[r] = "notify_admin"
  <2>1. StageOf(r)' = "refused" /\ Acc(r)' = None
    BY <1>6 DEF StageOf, Ended, Refused, Cleared, Acc
  <2>2. Accepted' = Accepted
    BY <1>0, <1>2, <2>1, OwnStage DEF Accepted
  <2>3. Promise!Refuse(r)
    BY <1>0, <1>3, <1>4, <2>1, <2>2, OwnStage
    DEF Promise!Refuse, Stages, Accepted, Acc, Shown, Delivered
  <2> QED
    BY <2>3
<1>7. CASE verdict'[r] = "fail" /\ pc'[r] = "increment_retry"
  <2>1. StageOf(r)' = "open" /\ Acc(r)' = None
    BY <1>7 DEF StageOf, Ended, Refused, Cleared, Acc
  <2> QED
    BY <1>0, <1>1, <1>2, <2>1, Stutter
<1> QED
  BY <1>1, <1>5, <1>6, <1>7 DEF RouteAfterReview, Cleared

(* What is delivered is of a kind the stage of the run allows.             *)
LEMMA DeliverKeeps ==
  ASSUME TypeOK, Safe, Drafts, NEW r \in Runs,
         SkipAction(r) \/ Deliver(r) \/ DeliverTimeout(r) \/ Refuse(r)
  PROVE  Promise!Deliver(r) \/ UNCHANGED Promise!vars
<1>0. Start(r) \/ Step(r)
  BY DEF Step
<1>1. /\ pc[r] \in {"execute", "gateway"} /\ pc'[r] = "execute"
      /\ verdict' = verdict /\ analysis' = analysis
      /\ UNCHANGED <<summary, voc, memory>>
  BY FinishStep
<1>2. StageOf(r)' = StageOf(r) /\ Acc(r)' = Acc(r)
  BY <1>1 DEF StageOf, Ended, Refused, Acc
<1>3. CASE sent' = sent
  BY <1>0, <1>1, <1>2, <1>3, Stutter
<1>4. CASE sent' # sent
  <2>1. PICK a \in plan[r] : sent' = sent \cup {[run |-> r, act |-> a]}
    BY <1>4, FinishStep
  <2>2. Permitted(r, a)
    BY DEF Safe, PlanGuarded
  <2>3. KindOf(a) \in Promise!MayDeliver(StageOf(r))
    <3>1. CASE verdict[r] \in Cleared /\ a \in approved[r]
      <4>1. StageOf(r) = "cleared" /\ Draft(a)
        BY <1>1, <3>1 DEF StageOf, Ended, Refused, Cleared, Drafts, DraftsAt
      <4>2. KindOf(a) \in {"ordered", "record"}
        BY <4>1 DEF KindOf, Draft
      <4> QED
        BY <4>1, <4>2 DEF Promise!MayDeliver
    <3>2. CASE /\ verdict[r] = "fail"
               /\ IsAuto(a) /\ (a.token \in AutoTokens => a.marked)
      <4>1. StageOf(r) = "refused"
        BY <1>1, <3>2 DEF StageOf, Ended, Refused, Cleared
      <4>2. KindOf(a) \in {"marked_record", "alert"}
        BY <3>2 DEF KindOf, IsAuto
      <4> QED
        BY <4>1, <4>2 DEF Promise!MayDeliver
    <3> QED
      BY <2>2, <3>1, <3>2 DEF Permitted
  <2>4. Delivered' = Delivered \cup {[run |-> r, kind |-> KindOf(a)]}
    <3> DEFINE s == [run |-> r, act |-> a]
               f(x) == [run |-> x.run, kind |-> KindOf(x.act)]
    <3>1. f(s) = [run |-> r, kind |-> KindOf(a)]
      OBVIOUS
    <3>2. Delivered = {f(x) : x \in sent} /\ Delivered' = {f(x) : x \in sent'}
      BY DEF Delivered, KindOf, IsAuto
    <3>3. sent' = sent \cup {s}
      BY <2>1
    <3> HIDE DEF f, s
    <3> QED
      BY <3>1, <3>2, <3>3, Zenon
  <2>5. Stages' = Stages /\ Accepted' = Accepted
    BY <1>0, <1>2, OwnStage DEF Stages, Accepted
  <2>6. Shown' = Shown
    BY <1>1 DEF Shown, ShownAt
  <2>7. Stages[r] = StageOf(r)
    BY DEF Stages
  <2> QED
    BY <2>3, <2>4, <2>5, <2>6, <2>7 DEF Promise!Deliver, Stages, Accepted, Acc, Shown, Delivered
<1> QED
  BY <1>3, <1>4

(* The nodes around the review and the executor only move the run on.      *)
LEMMA MovingKeeps ==
  ASSUME TypeOK, Safe, Untouched, NEW r \in Runs,
         \/ LoadContext(r) \/ IncrementRetry(r) \/ NotifyAdmin(r) \/ HumanQueue(r)
         \/ AutoActionExecutor(r) \/ ActionExecutor(r) \/ PassLookup(r) \/ ExecutorReturns(r)
         \/ SaveLogRow(r) \/ SaveLogEnd(r)
  PROVE  UNCHANGED Promise!vars
<1> USE DEF TypeOK, Goto, local, shared
<1>0. Start(r) \/ Step(r)
  BY DEF Step
<1>1. CASE LoadContext(r) \/ IncrementRetry(r) \/ NotifyAdmin(r) \/ HumanQueue(r) \/ AutoActionExecutor(r)
  <2>1. /\ verdict[r] \notin Cleared /\ verdict'[r] \notin Cleared
        /\ UNCHANGED <<sent, summary, voc, memory>>
    <3>1. CASE LoadContext(r)
      BY <3>1 DEF LoadContext, Untouched, UntouchedAt, Cleared
    <3>2. CASE IncrementRetry(r)
      <4>1. verdict[r] \notin Cleared
        BY <3>2 DEF IncrementRetry, Untouched, UntouchedAt, Cleared
      <4> QED
        BY <3>2, <4>1 DEF IncrementRetry, Cleared
    <3>3. CASE NotifyAdmin(r) \/ HumanQueue(r) \/ AutoActionExecutor(r)
      BY <3>3 DEF NotifyAdmin, HumanQueue, AutoActionExecutor, Safe, Routed, Cleared
    <3> QED
      BY <1>1, <3>1, <3>2, <3>3
  <2>2. StageOf(r)' = StageOf(r)
    <3>1. CASE LoadContext(r) \/ IncrementRetry(r)
      BY <2>1, <3>1 DEF LoadContext, IncrementRetry, StageOf, Ended, Refused
    <3>2. CASE NotifyAdmin(r) \/ HumanQueue(r) \/ AutoActionExecutor(r)
      <4>1. verdict[r] = "fail" /\ verdict' = verdict
        BY <3>2 DEF NotifyAdmin, HumanQueue, AutoActionExecutor, Safe, Routed
      <4> QED
        BY <2>1, <3>2, <4>1 DEF NotifyAdmin, HumanQueue, AutoActionExecutor, StageOf, Ended, Refused
    <3> QED
      BY <1>1, <3>1, <3>2
  <2>3. Acc(r)' = Acc(r)
    BY <2>1 DEF Acc
  <2> QED
    BY <1>0, <2>1, <2>2, <2>3, Stutter
<1>2. CASE ActionExecutor(r) \/ PassLookup(r) \/ ExecutorReturns(r) \/ SaveLogRow(r) \/ SaveLogEnd(r)
  <2>1. UNCHANGED <<verdict, analysis, sent, summary, voc, memory>>
    BY <1>2 DEF ActionExecutor, PassLookup, ExecutorReturns, SaveLogRow, SaveLogEnd
  <2>2. \/ verdict[r] \in Cleared
        \/ verdict[r] = "fail" /\ pc[r] \in {"execute", "gateway", "save_log", "save_dashboard"}
    BY <1>2 DEF ActionExecutor, PassLookup, ExecutorReturns, SaveLogRow, SaveLogEnd, Safe, Routed
  <2>3. /\ pc[r] \in {"action_executor", "execute", "save_log"}
        /\ pc'[r] \in {"execute", "gateway", "save_log", "save_summary", "save_dashboard"}
        /\ verdict[r] = "fail" => pc'[r] # "save_summary"
    BY <1>2 DEF ActionExecutor, PassLookup, ExecutorReturns, BlockAnalysis, SaveLogRow, SaveLogEnd
  <2>4. StageOf(r)' = StageOf(r)
    BY <2>1, <2>2, <2>3 DEF StageOf, Ended, Refused, Cleared
  <2>5. Acc(r)' = Acc(r)
    BY <2>1 DEF Acc
  <2> QED
    BY <1>0, <2>1, <2>4, <2>5, Stutter
<1> QED
  BY <1>1, <1>2

(* A run that begins, or whose planner ends it.                            *)
LEMMA BeginningKeeps ==
  ASSUME TypeOK, Untouched, NEW r \in Runs,
         Start(r) \/ PlanEmpty(r) \/ PlanFailed(r) \/ PlanAnalysed(r)
  PROVE  Promise!Close \/ UNCHANGED Promise!vars
<1>0. Start(r) \/ Step(r)
  BY DEF Step
<1>1. /\ pc[r] \in {"idle", "planner"} /\ pc'[r] \in {"load_context", "reviewer", "done"}
      /\ verdict' = verdict /\ UNCHANGED <<sent, summary, voc, memory>>
  BY StartStep, PlannerStep DEF shared
<1>2. verdict[r] = "none"
  BY <1>1 DEF Untouched, UntouchedAt
<1>3. StageOf(r) = "open" /\ Acc(r) = None /\ Acc(r)' = None
  BY <1>1, <1>2 DEF StageOf, Ended, Refused, Cleared, Acc
<1>4. CASE pc'[r] = "done"
  <2>1. StageOf(r)' = "closed"
    BY <1>1, <1>2, <1>4 DEF StageOf, Ended, Refused, Cleared
  <2>2. \A p \in Places : ShownAt(p)' = IF p \in {} THEN None ELSE ShownAt(p)
    BY <1>1 DEF ShownAt, Places
  <2>3. {} \in SUBSET Places
    OBVIOUS
  <2> QED
    BY <1>0, <1>1, <1>3, <2>1, <2>2, <2>3, Closing
<1>5. CASE pc'[r] # "done"
  <2>1. StageOf(r)' = "open"
    BY <1>1, <1>2, <1>5 DEF StageOf, Ended, Refused, Cleared
  <2> QED
    BY <1>0, <1>1, <1>3, <2>1, Stutter
<1> QED
  BY <1>4, <1>5

(* The saving nodes of a cleared run show its analysis; a refused run only *)
(* empties the dashboard.                                                  *)
LEMMA SavingKeeps ==
  ASSUME TypeOK, Safe, NEW r \in Runs,
         SaveSummary(r) \/ UpsertSummary(r) \/ SaveVoc(r) \/ UpsertVoc(r) \/ SaveDashboard(r)
  PROVE  \/ Promise!Show(r) \/ Promise!ShowAndClose(r) \/ Promise!Close
         \/ UNCHANGED Promise!vars
<1> USE DEF TypeOK, Goto, local
<1>0. Start(r) \/ Step(r)
  BY DEF Step
<1>1. UNCHANGED <<verdict, analysis, sent>>
  BY DEF SaveSummary, UpsertSummary, SaveVoc, UpsertVoc, SaveDashboard
<1>2. Acc(r)' = Acc(r)
  BY <1>1 DEF Acc
<1>3. CASE SaveSummary(r) \/ UpsertSummary(r) \/ SaveVoc(r) \/ UpsertVoc(r)
  <2>1. /\ verdict[r] \in Cleared
        /\ pc[r] \in {"save_summary", "summary_db", "save_voc", "voc_db"}
        /\ pc'[r] \in {"summary_db", "save_voc", "voc_db", "save_log", "save_dashboard"}
    BY <1>3 DEF SaveSummary, UpsertSummary, SaveVoc, UpsertVoc, Safe, Routed
  <2>2. StageOf(r) = "cleared" /\ StageOf(r)' = "cleared" /\ Acc(r) = analysis[r]
    BY <1>1, <2>1 DEF StageOf, Ended, Refused, Cleared, Acc
  <2>3. CASE SaveSummary(r)
    <3>1. \A q \in Places : ShownAt(q)' = IF q = "memory_summary" THEN Acc(r) ELSE ShownAt(q)
      BY <2>2, <2>3 DEF SaveSummary, ShownAt, Places
    <3> QED
      BY <1>0, <1>1, <1>2, <2>2, <3>1, Showing DEF Places
  <2>4. CASE SaveVoc(r)
    <3>1. \A q \in Places : ShownAt(q)' = IF q = "memory_voc" THEN Acc(r) ELSE ShownAt(q)
      BY <2>2, <2>4 DEF SaveVoc, ShownAt, Places
    <3> QED
      BY <1>0, <1>1, <1>2, <2>2, <3>1, Showing DEF Places
  <2>5. CASE UpsertSummary(r) /\ summary' = analysis[r]
    <3>1. \A q \in Places : ShownAt(q)' = IF q = "summary" THEN Acc(r) ELSE ShownAt(q)
      BY <2>2, <2>5 DEF UpsertSummary, ShownAt, Places
    <3> QED
      BY <1>0, <1>1, <1>2, <2>2, <3>1, Showing DEF Places
  <2>6. CASE UpsertVoc(r) /\ voc' = analysis[r]
    <3>1. \A q \in Places : ShownAt(q)' = IF q = "voc" THEN Acc(r) ELSE ShownAt(q)
      BY <2>2, <2>6 DEF UpsertVoc, ShownAt, Places
    <3> QED
      BY <1>0, <1>1, <1>2, <2>2, <3>1, Showing DEF Places
  <2>7. CASE (UpsertSummary(r) /\ summary' = summary) \/ (UpsertVoc(r) /\ voc' = voc)
    <3>1. UNCHANGED <<summary, voc, memory>>
      BY <2>7 DEF UpsertSummary, UpsertVoc
    <3> QED
      BY <1>0, <1>1, <1>2, <2>2, <3>1, Stutter
  <2>8. UpsertSummary(r) => summary' = analysis[r] \/ summary' = summary
    BY DEF UpsertSummary, Written
  <2>9. UpsertVoc(r) => voc' = analysis[r] \/ voc' = voc
    BY DEF UpsertVoc, Written
  <2> QED
    BY <1>3, <2>3, <2>4, <2>5, <2>6, <2>7, <2>8, <2>9
<1>4. CASE SaveDashboard(r)
  <2>1. /\ pc[r] = "save_dashboard"
        /\ pc'[r] = IF mode[r] = "final" THEN "done" ELSE "action_executor"
        /\ verdict[r] \in Cleared \/ (verdict[r] = "fail" /\ mode[r] = "final")
    BY <1>4 DEF SaveDashboard, Safe, Routed
  <2>2. \A q \in Places : ShownAt(q)' =
          IF q = "dashboard"
            THEN IF BlockAnalysis(mode[r], verdict[r]) THEN None ELSE analysis[r]
            ELSE ShownAt(q)
    BY <1>4 DEF SaveDashboard, ShownAt, Places
  <2>3. CASE verdict[r] \in Cleared
    <3>1. StageOf(r) = "cleared" /\ Acc(r) = analysis[r]
      BY <2>1, <2>3 DEF StageOf, Ended, Refused, Cleared, Acc
    <3>2. StageOf(r)' = "cleared" \/ StageOf(r)' = "closed"
      BY <1>1, <2>1, <2>3 DEF StageOf, Ended, Refused, Cleared
    <3>3. \A q \in Places : ShownAt(q)' = IF q = "dashboard" THEN Acc(r) ELSE ShownAt(q)
      BY <2>2, <2>3, <3>1 DEF BlockAnalysis, Cleared
    <3> QED
      BY <1>0, <1>1, <1>2, <3>1, <3>2, <3>3, Showing DEF Places
  <2>4. CASE verdict[r] = "fail" /\ mode[r] = "final"
    <3>1. StageOf(r)' = "closed"
      BY <1>1, <2>1, <2>4 DEF StageOf, Ended, Refused, Cleared
    <3>2. \A q \in Places : ShownAt(q)' = IF q \in {"dashboard"} THEN None ELSE ShownAt(q)
      BY <2>2, <2>4 DEF BlockAnalysis
    <3>3. {"dashboard"} \in SUBSET Places
      BY DEF Places
    <3> QED
      BY <1>0, <1>1, <1>2, <3>1, <3>2, <3>3, Closing
  <2> QED
    BY <2>1, <2>3, <2>4
<1> QED
  BY <1>3, <1>4

(* A crash closes the active runs and empties what memory showed.          *)
LEMMA CrashKeeps ==
  ASSUME TypeOK, Crash
  PROVE  Promise!Close
<1> DEFINE S == {q \in Runs : Active(q)}
           P == {"memory_summary", "memory_voc", "dashboard"}
<1>1. /\ \A q \in Runs : pc'[q] = IF Active(q) THEN "crashed" ELSE pc[q]
      /\ UNCHANGED <<verdict, analysis, sent, summary, voc>> /\ memory' = Forgotten
  BY CrashStep DEF local
<1>2. \A q \in Runs : StageOf(q)' = IF q \in S THEN "closed" ELSE StageOf(q)
  <2> TAKE q \in Runs
  <2>1. CASE Active(q)
    <3>1. pc'[q] = "crashed"
      BY <1>1, <2>1
    <3>2. StageOf(q)' = "closed"
      BY <3>1 DEF StageOf, Ended, Refused
    <3> QED
      BY <2>1, <3>2
  <2>2. CASE ~Active(q)
    BY <1>1, <2>2 DEF StageOf, Ended, Refused
  <2> QED
    BY <2>1, <2>2
<1>3. Stages' = [q \in Runs |-> IF q \in S THEN "closed" ELSE Stages[q]]
  BY <1>2 DEF Stages
<1>4. Accepted' = Accepted /\ Delivered' = Delivered
  BY <1>1 DEF Accepted, Acc, Delivered
<1>5. Shown' = [p \in Places |-> IF p \in P THEN None ELSE Shown[p]]
  <2>1. \A p \in Places : ShownAt(p)' = IF p \in P THEN None ELSE ShownAt(p)
    BY <1>1 DEF ShownAt, Forgotten, Places
  <2> QED
    BY <2>1 DEF Shown
<1>6. S \in SUBSET Runs /\ P \in SUBSET Places
  BY DEF Places
<1> HIDE DEF S, P
<1> QED
  BY <1>3, <1>4, <1>5, <1>6 DEF Promise!Close, Stages, Accepted, Acc, Shown, Delivered

(* The pipeline, with its retries, overlapping runs, lost writes and       *)
(* crashes, implements what it promises the tenant.                        *)
THEOREM PromiseIsKept == Spec => KeepsPromise
<1>1. Init => Promise!Init
  BY DEF Init, Promise!Init, StageOf, Ended, Refused, Cleared, ShownAt, Forgotten, Places
<1>2. TypeOK /\ Prepared /\ Safe /\ Orderly /\ [Next]_vars => [Promise!Next]_(Promise!vars)
  <2> SUFFICES ASSUME TypeOK, Prepared, Safe, Orderly, [Next]_vars
               PROVE  Promise!Next \/ UNCHANGED Promise!vars
    OBVIOUS
  <2>0. Untouched /\ Drafts
    BY DEF Orderly
  <2>1. ASSUME NEW r \in Runs, Start(r) \/ Step(r)
        PROVE  \/ Promise!Accept(r) \/ Promise!Refuse(r) \/ Promise!Deliver(r) \/ Promise!Show(r)
               \/ Promise!ShowAndClose(r) \/ Promise!Close \/ UNCHANGED Promise!vars
    BY <2>0, <2>1, BeginningKeeps, ReviewKeeps, DeliverKeeps, MovingKeeps, SavingKeeps DEF Step
  <2>2. CASE Crash
    BY <2>2, CrashKeeps DEF Promise!Next
  <2>3. CASE UNCHANGED vars
    BY <2>3 DEF vars, local, shared, Promise!vars, StageOf, Ended, Refused, ShownAt
  <2> QED
    BY <2>1, <2>2, <2>3 DEF Next, Promise!Next
<1> QED
  BY <1>1, <1>2, TypeInvariant, AlwaysSafe, AlwaysOrderly, PTL DEF Spec, KeepsPromise, Promise!Spec

-----------------------------------------------------------------------------
(* Runs that never overlap, in a process that lives and with its database. *)

Calm == Serial /\ Faults \subseteq {"mcp"}

Alone        == \A q, r \in Runs : Active(q) /\ Active(r) => q = r
NeverCrashed == \A q \in Runs : pc[q] # "crashed"

(* What is at the gateway was looked up, and nobody logged since.          *)
LookedUp ==
  \A q \in Runs : pc[q] = "gateway" =>
    \A a \in plan[q] : IsFirst(a, plan[q]) => ~FoundInLog(a)

(* How far the run that saves has come, in the tables and in memory.       *)
Copies(s, v) == memory.summary = s /\ memory.voc = v

Between == {"summary_db", "save_voc", "voc_db"}

Story ==
  /\ (\A q \in Runs : pc[q] \notin Between) => summary = voc /\ Copies(summary, voc)
  /\ \A q \in Runs :
       /\ pc[q] = "summary_db" => summary = voc /\ Copies(analysis[q], voc)
       /\ pc[q] = "save_voc"   => summary = analysis[q] /\ Copies(analysis[q], voc)
       /\ pc[q] = "voc_db"     => summary = analysis[q] /\ Copies(analysis[q], analysis[q])

(* Only an active run steps, and it is not crashed by that.                *)
LEMMA StepOfActive ==
  ASSUME TypeOK, NEW r \in Runs, Step(r)
  PROVE  Active(r) /\ pc'[r] # "crashed"
<1> USE DEF TypeOK, Goto, local, shared, Active, Ended
<1>1. CASE PlanEmpty(r) \/ PlanFailed(r) \/ PlanAnalysed(r)
  BY <1>1, PlannerStep
<1>2. CASE ReviewMissing(r) \/ Review(r)
  <2>1. pc[r] = "reviewer" /\ \E v : pc' = [pc EXCEPT ![r] = RouteAfterReview(r, v)]
    BY <1>2 DEF ReviewMissing, Review
  <2> QED
    BY <2>1 DEF RouteAfterReview
<1>3. CASE LoadContext(r) \/ IncrementRetry(r) \/ NotifyAdmin(r) \/ HumanQueue(r)
           \/ AutoActionExecutor(r) \/ ActionExecutor(r)
  BY <1>3 DEF LoadContext, IncrementRetry, NotifyAdmin, HumanQueue, AutoActionExecutor, ActionExecutor
<1>4. CASE SkipAction(r) \/ Deliver(r) \/ DeliverTimeout(r) \/ Refuse(r)
  BY <1>4, FinishStep
<1>5. CASE PassLookup(r) \/ ExecutorReturns(r)
  BY <1>5 DEF PassLookup, ExecutorReturns, BlockAnalysis
<1>6. CASE Saves(r)
  BY <1>6, SaveStep
<1> QED
  BY <1>1, <1>2, <1>3, <1>4, <1>5, <1>6 DEF Step, Saves

(* While a run steps, or starts, no other is active.                       *)
LEMMA OthersRest ==
  ASSUME Serial, TypeOK, Alone, NEW r \in Runs, Start(r) \/ Step(r), NEW q \in Runs, q # r
  PROVE  ~Active(q) /\ pc'[q] = pc[q]
<1>1. pc'[q] = pc[q]
  BY Apart
<1>2. CASE Start(r)
  BY <1>1, <1>2 DEF Start, StartByHook, StartOnRequest, MayStart
<1>3. CASE Step(r)
  BY <1>1, <1>3, StepOfActive DEF Alone
<1> QED
  BY <1>2, <1>3

(* A run starts only when no other is active.                              *)
LEMMA AloneKept ==
  ASSUME Serial, TypeOK, Alone, NeverCrashed, NEW r \in Runs, Start(r) \/ Step(r)
  PROVE  Alone' /\ NeverCrashed'
<1>1. \A q \in Runs : q # r => ~Active(q)' /\ pc'[q] # "crashed"
  BY OthersRest DEF Active, Ended, NeverCrashed
<1>2. pc'[r] # "crashed"
  BY StepOfActive, StartStep
<1> QED
  BY <1>1, <1>2 DEF Alone, NeverCrashed

(* A lookup is not overtaken, for no other run is there to log.            *)
LEMMA LookedUpKept ==
  ASSUME Calm, TypeOK, Alone, LookedUp, Drafts, NEW r \in Runs, Start(r) \/ Step(r)
  PROVE  LookedUp'
<1>1. ASSUME NEW q \in Runs, q # r PROVE pc'[q] # "gateway"
  BY <1>1, OthersRest DEF Calm, Active, Ended
<1>2. CASE PassLookup(r)
  <2>1. PICK a \in plan[r] : IsFirst(a, plan[r]) /\ ~FoundInLog(a)
    BY <1>2 DEF PassLookup, Calm
  <2>2. ASSUME NEW b \in plan[r], IsFirst(b, plan[r]) PROVE b = a
    <3>1. a.slot <= b.slot /\ b.slot <= a.slot
      BY <2>1, <2>2 DEF IsFirst
    <3>2. a.slot \in Nat /\ b.slot \in Nat
      BY ConstantsOK DEF TypeOK, Action
    <3>3. a.slot = b.slot
      BY <3>1, <3>2
    <3> QED
      BY <3>3 DEF Drafts, DraftsAt, OneEach
  <2>3. plan' = plan /\ log' = log
    BY <1>2 DEF PassLookup, local, shared
  <2> QED
    BY <1>1, <2>1, <2>2, <2>3 DEF LookedUp, FoundInLog, IsFirst
<1>3. CASE ~PassLookup(r)
  <2>1. pc'[r] # "gateway"
    <3> USE DEF TypeOK, Goto
    <3>1. CASE Start(r)
      BY <3>1, StartStep
    <3>2. CASE PlanEmpty(r) \/ PlanFailed(r) \/ PlanAnalysed(r)
      BY <3>2, PlannerStep
    <3>3. CASE LoadContext(r) \/ IncrementRetry(r) \/ NotifyAdmin(r) \/ HumanQueue(r)
               \/ AutoActionExecutor(r) \/ ActionExecutor(r) \/ ExecutorReturns(r)
      BY <3>3 DEF LoadContext, IncrementRetry, NotifyAdmin, HumanQueue, AutoActionExecutor,
         ActionExecutor, ExecutorReturns, BlockAnalysis
    <3>4. CASE SkipAction(r) \/ Deliver(r) \/ DeliverTimeout(r) \/ Refuse(r)
      BY <3>4, FinishStep
    <3>5. CASE Saves(r)
      BY <3>5, SaveStep
    <3>6. CASE ReviewMissing(r) \/ Review(r)
      <4>1. \E v : pc' = [pc EXCEPT ![r] = RouteAfterReview(r, v)]
        BY <3>6 DEF ReviewMissing, Review
      <4> QED
        BY <4>1 DEF RouteAfterReview
    <3> QED
      BY <1>3, <3>1, <3>2, <3>3, <3>4, <3>5, <3>6 DEF Step, Saves
  <2> QED
    BY <1>1, <2>1 DEF LookedUp
<1> QED
  BY <1>2, <1>3

(* What a run at rest has sent is in the log.                              *)
LEMMA SentIsLogged ==
  ASSUME Calm, TypeOK, Safe, Accounted, NeverCrashed, NEW s \in sent, ~Active(s.run)
  PROVE  \E row \in log : row.token = s.act.token
<1> DEFINE q == s.run
<1>1. q \in Runs /\ pc[q] = "done"
  BY DEF TypeOK, Safe, SentGuarded, Undecided, Active, Ended, NeverCrashed
<1>2. s.act \in Acts(q) /\ Logged(q)
  BY <1>1 DEF Calm, Accounted, AccountedAt, SentIsDone
<1>3. PICK x \in results[q] : s.act = x.act
  BY <1>2 DEF Acts
<1>4. Row(q, x) \in log /\ Row(q, x).token = s.act.token
  BY <1>1, <1>2, <1>3 DEF Logged, Row
<1> QED
  BY <1>4

(* What an earlier run sent is in the log, and the lookup finds it.        *)
LEMMA NoResendKept ==
  ASSUME Calm, TypeOK, Safe, Accounted, Alone, NeverCrashed, LookedUp, NoResendAcrossRuns,
         NEW r \in Runs, Start(r) \/ Step(r)
  PROVE  NoResendAcrossRuns'
<1>1. ASSUME NEW s \in sent, NEW t \in sent', t \notin sent, s.act.token = t.act.token
      PROVE  s.run = t.run
  <2>1. PICK a \in plan[r] : IsFirst(a, plan[r]) /\ pc[r] = "gateway" /\ t = [run |-> r, act |-> a]
    <3>1. SkipAction(r) \/ Deliver(r) \/ DeliverTimeout(r) \/ Refuse(r)
      BY <1>1, SentStays
    <3>2. PICK a \in plan[r] : /\ IsFirst(a, plan[r])
                               /\ \/ sent' = sent \cup {[run |-> r, act |-> a]} /\ pc[r] = "gateway"
                                  \/ sent' = sent
      BY <3>1, FinishStep
    <3> QED
      BY <1>1, <3>2
  <2>2. ~FoundInLog(a)
    BY <2>1 DEF LookedUp
  <2>3. CASE s.run # r
    <3>1. s.run \in Runs
      BY DEF TypeOK
    <3>2. ~Active(s.run)
      BY <2>3, <3>1, OthersRest DEF Calm
    <3>3. \E row \in log : row.token = s.act.token
      BY <3>2, SentIsLogged
    <3>4. s.act.token = a.token
      BY <1>1, <2>1
    <3> QED
      BY <2>2, <3>3, <3>4 DEF FoundInLog
  <2> QED
    BY <2>1, <2>3
<1>2. ASSUME NEW s \in sent', NEW t \in sent', s \notin sent, t \notin sent PROVE s.run = t.run
  BY <1>2, SentOrigin
<1> QED
  BY <1>1, <1>2 DEF NoResendAcrossRuns

(* The saves of one run come in order, with none between them.             *)
LEMMA StoryKept ==
  ASSUME Calm, TypeOK, Alone, Story, NEW r \in Runs, Start(r) \/ Step(r)
  PROVE  Story'
<1> USE DEF TypeOK, Goto, local, shared
<1>1. ASSUME NEW q \in Runs, q # r PROVE pc[q] \notin Between /\ pc'[q] \notin Between
  BY <1>1, OthersRest DEF Calm, Active, Ended, Between
<1>2. "db" \notin Faults
  BY DEF Calm
<1>3. CASE SaveSummary(r)
  <2>1. summary = voc /\ Copies(summary, voc) /\ pc'[r] = "summary_db"
    BY <1>1, <1>3 DEF SaveSummary, Story, Between
  <2>2. /\ UNCHANGED <<summary, voc, analysis>> /\ memory'.summary = analysis[r]
        /\ memory'.voc = memory.voc
    BY <1>3 DEF SaveSummary
  <2> QED
    BY <1>1, <2>1, <2>2 DEF Story, Copies, Between
<1>4. CASE UpsertSummary(r)
  <2>1. summary = voc /\ Copies(analysis[r], voc) /\ pc'[r] = "save_voc"
    BY <1>4 DEF UpsertSummary, Story
  <2>2. UNCHANGED <<voc, analysis, memory>> /\ summary' = analysis[r]
    BY <1>2, <1>4 DEF UpsertSummary, Written
  <2> QED
    BY <1>1, <2>1, <2>2 DEF Story, Copies, Between
<1>5. CASE SaveVoc(r)
  <2>1. summary = analysis[r] /\ Copies(analysis[r], voc) /\ pc'[r] = "voc_db"
    BY <1>5 DEF SaveVoc, Story
  <2>2. /\ UNCHANGED <<summary, voc, analysis>> /\ memory'.voc = analysis[r]
        /\ memory'.summary = memory.summary
    BY <1>5 DEF SaveVoc
  <2> QED
    BY <1>1, <2>1, <2>2 DEF Story, Copies, Between
<1>6. CASE UpsertVoc(r)
  <2>1. summary = analysis[r] /\ Copies(analysis[r], analysis[r]) /\ pc'[r] \notin Between
    BY <1>6 DEF UpsertVoc, Story, Between
  <2>2. UNCHANGED <<summary, analysis, memory>> /\ voc' = analysis[r]
    BY <1>2, <1>6 DEF UpsertVoc, Written
  <2> QED
    BY <1>1, <2>1, <2>2 DEF Story, Copies, Between
<1>7. ASSUME summary' = summary, voc' = voc, memory'.summary = memory.summary,
             memory'.voc = memory.voc, pc[r] \notin Between, pc'[r] \notin Between
      PROVE  Story'
  BY <1>1, <1>7 DEF Story, Copies, Between
<1>8. CASE SaveDashboard(r)
  BY <1>7, <1>8 DEF SaveDashboard, Between
<1>9. CASE ~(SaveSummary(r) \/ UpsertSummary(r) \/ SaveVoc(r) \/ UpsertVoc(r) \/ SaveDashboard(r))
  <2>1. UNCHANGED <<summary, voc, memory>>
    BY <1>9 DEF Start, StartByHook, StartOnRequest, StartUnchanged, MayStart, Step, LoadContext,
       PlanEmpty, PlanFailed, PlanAnalysed, PlannerUnchanged,
       ReviewMissing, Review, IncrementRetry, ReviewerUnchanged, NotifyAdmin, HumanQueue,
       AutoActionExecutor, ActionExecutor, SkipAction, PassLookup, Deliver, DeliverTimeout, Refuse,
       ExecutorReturns, ExecutorUnchanged, SaveLogRow, SaveLogEnd
  <2>2. pc[r] \notin Between /\ pc'[r] \notin Between
    <3>1. CASE Start(r)
      BY <3>1, StartStep DEF Between
    <3>2. CASE PlanEmpty(r) \/ PlanFailed(r) \/ PlanAnalysed(r)
      BY <3>2, PlannerStep DEF Between
    <3>3. CASE LoadContext(r) \/ IncrementRetry(r) \/ NotifyAdmin(r) \/ HumanQueue(r)
               \/ AutoActionExecutor(r) \/ ActionExecutor(r)
      BY <3>3 DEF LoadContext, IncrementRetry, NotifyAdmin, HumanQueue, AutoActionExecutor,
         ActionExecutor, Between
    <3>4. CASE SkipAction(r) \/ Deliver(r) \/ DeliverTimeout(r) \/ Refuse(r)
      BY <3>4, FinishStep DEF Between
    <3>5. CASE PassLookup(r) \/ ExecutorReturns(r) \/ SaveLogRow(r) \/ SaveLogEnd(r)
      BY <3>5 DEF PassLookup, ExecutorReturns, BlockAnalysis, SaveLogRow, SaveLogEnd, Between
    <3>6. CASE ReviewMissing(r) \/ Review(r)
      <4>1. pc[r] = "reviewer" /\ \E v : pc' = [pc EXCEPT ![r] = RouteAfterReview(r, v)]
        BY <3>6 DEF ReviewMissing, Review
      <4> QED
        BY <4>1 DEF RouteAfterReview, Between
    <3> QED
      BY <1>9, <3>1, <3>2, <3>3, <3>4, <3>5, <3>6 DEF Step
  <2> QED
    BY <1>7, <2>1, <2>2
<1> QED
  BY <1>3, <1>4, <1>5, <1>6, <1>8, <1>9

Serene == Alone /\ NeverCrashed /\ LookedUp /\ NoResendAcrossRuns /\ Story

(* The inductive invariant of runs that follow one another.                *)
THEOREM AlwaysSerene == ASSUME Calm PROVE Spec => []Serene
<1>1. Init => Serene
  BY DEF Init, Serene, Alone, NeverCrashed, LookedUp, NoResendAcrossRuns, Story, Copies,
     Between, Active, Ended, Forgotten
<1>2. TypeOK /\ Safe /\ Orderly /\ Accounted /\ Serene /\ [Next]_vars => Serene'
  <2> SUFFICES ASSUME TypeOK, Safe, Orderly, Accounted, Serene, [Next]_vars PROVE Serene'
    OBVIOUS
  <2>1. ASSUME NEW r \in Runs, Start(r) \/ Step(r) PROVE Serene'
    <3>1. Serial /\ Drafts
      BY DEF Calm, Orderly
    <3> QED
      BY <2>1, <3>1, AloneKept, LookedUpKept, NoResendKept, StoryKept DEF Serene
  <2>2. ~Crash
    BY DEF Crash, Calm
  <2>3. CASE UNCHANGED vars
    BY <2>3 DEF vars, local, shared, Serene, Alone, NeverCrashed, LookedUp, NoResendAcrossRuns,
       Story, Copies, Between, Active, Ended, FoundInLog, IsFirst
  <2> QED
    BY <2>1, <2>2, <2>3 DEF Next
<1> QED
  BY <1>1, <1>2, TypeCorrect, AlwaysSafe, AlwaysOrderly, AlwaysAccounted, PTL DEF Spec

(* Runs of a call that follow one another send an intent once, even when a *)
(* first answer was lost to a timeout.                                     *)
THEOREM NeverResent == ASSUME Calm PROVE Spec => []NoResendAcrossRuns
<1>1. Serene => NoResendAcrossRuns
  BY DEF Serene
<1> QED
  BY <1>1, AlwaysSerene, PTL

(* Runs of a call that follow one another leave one story: the tables and  *)
(* their copies in memory agree whenever no run is active.                 *)
THEOREM OneStory == ASSUME Calm PROVE Spec => []RecordsAgree
<1>1. Serene => RecordsAgree
  <2> SUFFICES ASSUME Serene, \A r \in Runs : ~Active(r)
               PROVE  summary = voc /\ memory.voc = voc /\ memory.summary = summary
    BY DEF RecordsAgree
  <2>1. \A r \in Runs : pc[r] \notin Between
    BY DEF Active, Ended, Between
  <2> QED
    BY <2>1 DEF Serene, Story, Copies
<1> QED
  BY <1>1, AlwaysSerene, PTL
=============================================================================
