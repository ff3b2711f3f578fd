------------------------------ MODULE PostCall ------------------------------
(***************************************************************************)
(* The post-call pipeline of one call (app/agents/post_call): the          *)
(* LangGraph graph that analyses a finished call, has the analysis         *)
(* reviewed, publishes it and sends the follow-up actions over MCP.        *)
(*                                                                         *)
(* One call may be processed by several runs: the WebSocket teardown hook, *)
(* the manual API route, the batch script.  Nothing serialises them.  They *)
(* share Postgres (call_summaries, voc_analyses, mcp_action_logs), the     *)
(* in-memory stores of the process (call context, records) and the         *)
(* outside world that receives the actions.  A step of the model is what a *)
(* run does between two awaits.                                            *)
(***************************************************************************)
EXTENDS Naturals, FiniteSets

CONSTANTS
  Runs,          (* executions of the pipeline for this call               *)
  Intents,       (* idempotency tokens of the actions the LLM may propose  *)
  None,          (* no analysis                                            *)
  MaxRetries,    (* MAX_ANALYSIS_RETRIES; 2 in the code                    *)
  MaxProposals,  (* bound on the proposals of one plan; 8 in the code      *)
  NotionReady,   (* is_notion_ready(): the company database is configured  *)
  Serial,        (* runs of the call never overlap                         *)
  Faults         (* what may fail: "db", "mcp", "crash"                    *)

AutoTokens  == {"call_record", "voc_record"}
AlertTokens == {"alert_slack", "alert_email"}
Tokens      == Intents \cup AutoTokens \cup AlertTokens

ASSUME ConstantsOK ==
  /\ MaxRetries \in Nat
  /\ MaxProposals \in Nat
  /\ NotionReady \in BOOLEAN
  /\ Serial \in BOOLEAN
  /\ Faults \subseteq {"db", "mcp", "crash"}
  /\ Intents \cap (AutoTokens \cup AlertTokens) = {}

VARIABLES
  (* graph state of each run *)
  pc,          (* the node the run is at                                   *)
  trigger,     (* why the run was started                                  *)
  context,     (* the transcripts the run works on                         *)
  tries,       (* analysis_retry_count                                     *)
  analysis,    (* analysis_result                                          *)
  proposed,    (* proposed_actions                                         *)
  verdict,     (* review_verdict                                           *)
  approved,    (* approved_actions                                         *)
  humanReview, (* human_review_required                                    *)
  plan,        (* actions the executor has still to run                    *)
  results,     (* executed_actions                                         *)
  mode,        (* save_result_node's mode                                  *)
  (* shared by the runs *)
  spoken,      (* the database holds transcripts of the call               *)
  seeded,      (* _context_store                                           *)
  log,         (* mcp_action_logs                                          *)
  sent,        (* what the outside world received                          *)
  summary,     (* call_summaries                                           *)
  voc,         (* voc_analyses                                             *)
  memory       (* _summary_store, _voc_store and _dashboard_store          *)

local  == <<trigger, context, tries, analysis, proposed, verdict, approved,
            humanReview, plan, results, mode>>
shared == <<spoken, seeded, log, sent, summary, voc, memory>>
vars   == <<pc, local, shared>>

-----------------------------------------------------------------------------
Nodes == {"idle", "load_context", "planner", "reviewer", "increment_retry",
          "save_summary", "summary_db", "save_voc", "voc_db", "save_log",
          "save_dashboard",
          "action_executor", "notify_admin", "human_queue",
          "auto_action_executor", "execute", "gateway", "done", "crashed"}

(* "manual" is routed exactly as "call_ended". *)
Triggers == {"call_ended", "escalation_immediate"}
Contexts == {"none", "own", "empty", "sample"}
Cleared  == {"pass", "correctable"}
Verdicts == Cleared \cup {"fail", "none"}
Statuses == {"success", "failed", "skipped"}

(* An analysis is known by the planner call that made it; severe: negative *)
(* emotion and at least medium priority; corrected: the reviewer edited it.*)
Analysis == [run: Runs, try: 0..MaxRetries, severe: BOOLEAN, corrected: BOOLEAN]

(* A planned action; slot is its place in the list it is executed from,    *)
(* token its idempotency key, about the analysis it was written from,      *)
(* marked the [REVIEW_FAILED] prefix.                                      *)
Action == [slot: 1..(4 + MaxProposals), token: Tokens, about: Analysis,
           marked: BOOLEAN]

Act(slot, token, about) ==
  [slot |-> slot, token |-> token, about |-> about, marked |-> FALSE]

(* params.auto_injected *)
IsAuto(a) == a.token \in AutoTokens \cup AlertTokens

IsFirst(a, S) == \A b \in S : a.slot <= b.slot

Ended(r)  == pc[r] \in {"done", "crashed"}
Active(r) == pc[r] # "idle" /\ ~Ended(r)

(* The in-memory stores of a new process. *)
Forgotten == [summary |-> None, voc |-> None, dashboard |-> None]

Goto(r, node) == pc' = [pc EXCEPT ![r] = node]

Init ==
  /\ pc          = [r \in Runs |-> "idle"]
  /\ trigger     = [r \in Runs |-> "call_ended"]
  /\ context     = [r \in Runs |-> "none"]
  /\ tries       = [r \in Runs |-> 0]
  /\ analysis    = [r \in Runs |-> None]
  /\ proposed    = [r \in Runs |-> {}]
  /\ verdict     = [r \in Runs |-> "none"]
  /\ approved    = [r \in Runs |-> {}]
  /\ humanReview = [r \in Runs |-> FALSE]
  /\ plan        = [r \in Runs |-> {}]
  /\ results     = [r \in Runs |-> {}]
  /\ mode        = [r \in Runs |-> "intermediate"]
  /\ spoken \in BOOLEAN
  /\ seeded = "none"
  /\ log = {}
  /\ sent = {}
  /\ summary = None
  /\ voc = None
  /\ memory = Forgotten

-----------------------------------------------------------------------------
(***************************************************************************)
(* Starting a run.                                                         *)
(***************************************************************************)

(* get_call_context_for_post_call: the database, else the context some     *)
(* earlier run left in memory.                                             *)
FetchedContext ==
  {IF spoken THEN "own" ELSE "empty"} \cup
  (IF "db" \in Faults THEN {seeded} ELSE {})

StartUnchanged ==
  UNCHANGED <<context, tries, analysis, proposed, verdict, approved,
              humanReview, plan, results, mode,
              spoken, log, sent, summary, voc, memory>>

MayStart(r) == pc[r] = "idle" /\ (Serial => \A q \in Runs : ~Active(q))

(* run_post_call_agent_safely, the teardown hook: without a context it     *)
(* seeds nothing and goes on.                                              *)
StartByHook(r) ==
  /\ MayStart(r)
  /\ \E t \in Triggers : trigger' = [trigger EXCEPT ![r] = t]
  /\ \E fetched \in FetchedContext :
       seeded' = IF fetched = "none" THEN seeded ELSE fetched
  /\ Goto(r, "load_context")
  /\ StartUnchanged

(* run_post_call_for_completed_call, the route and the batch: without a    *)
(* context it gives up.                                                    *)
StartOnRequest(r) ==
  /\ MayStart(r)
  /\ \E t \in Triggers : trigger' = [trigger EXCEPT ![r] = t]
  /\ \E fetched \in FetchedContext :
       IF fetched = "none"
         THEN Goto(r, "done") /\ UNCHANGED seeded
         ELSE Goto(r, "load_context") /\ seeded' = fetched
  /\ StartUnchanged

Start(r) == StartByHook(r) \/ StartOnRequest(r)

(* get_call_context never fails: what was not seeded is a sample call.     *)
LoadContext(r) ==
  /\ pc[r] = "load_context"
  /\ context' = [context EXCEPT ![r] = IF seeded = "none" THEN "sample" ELSE seeded]
  /\ Goto(r, "planner")
  /\ UNCHANGED <<trigger, tries, analysis, proposed, verdict, approved,
                 humanReview, plan, results, mode, shared>>

-----------------------------------------------------------------------------
(***************************************************************************)
(* Planner.                                                                *)
(***************************************************************************)

RouteAfterPlanner_NoTrigger(r, human) == IF human THEN "done" ELSE "reviewer"

RouteAfterPlanner(r, human) ==
  IF trigger[r] = "escalation_immediate" \/ human THEN "done" ELSE "reviewer"

NewAnalysis(r, severe) ==
  [run |-> r, try |-> tries[r], severe |-> severe, corrected |-> FALSE]

(* _inject_mandatory_actions *)
Injected(a) ==
  IF ~NotionReady THEN {}
  ELSE {Act(1, "call_record", a)} \cup
       (IF a.severe THEN {Act(2, "voc_record", a)} ELSE {})

Plan_Accumulate(r, a, wanted) ==
  LET fresh == {Act(4 + i, wanted[i], a) : i \in DOMAIN wanted} IN
  proposed' = [proposed EXCEPT ![r] = @ \cup fresh \cup Injected(a)]

(* The propose_* calls of the model's answer in order, then the injected   *)
(* records.                                                                *)
Plan(r, a, wanted) ==
  LET fresh == {Act(4 + i, wanted[i], a) : i \in DOMAIN wanted} IN
  proposed' = [proposed EXCEPT ![r] = fresh \cup Injected(a)]

PlannerUnchanged(r) ==
  UNCHANGED <<trigger, context, tries, verdict, approved, plan, results, mode, shared>>

(* No transcript: a fallback analysis and no action, not even the records. *)
PlanEmpty(r) ==
  /\ pc[r] = "planner"
  /\ context[r] = "empty"
  /\ analysis' = [analysis EXCEPT ![r] = NewAnalysis(r, FALSE)]
  /\ proposed' = [proposed EXCEPT ![r] = {}]
  /\ Goto(r, RouteAfterPlanner(r, humanReview[r]))
  /\ UNCHANGED humanReview
  /\ PlannerUnchanged(r)

(* Two failed LLM calls, or an answer without a tool call. *)
PlanFailed(r) ==
  /\ pc[r] = "planner"
  /\ context[r] # "empty"
  /\ analysis' = [analysis EXCEPT ![r] = NewAnalysis(r, FALSE)]
  /\ proposed' = [proposed EXCEPT ![r] = {}]
  /\ humanReview' = [humanReview EXCEPT ![r] = TRUE]
  /\ Goto(r, RouteAfterPlanner(r, TRUE))
  /\ PlannerUnchanged(r)

(* An answer with tool calls; a proposal that breaks a guard (an invalid   *)
(* callback time) asks for a human.  A missing record_analysis is the      *)
(* fallback, which is not severe.                                          *)
PlanAnalysed(r) ==
  /\ pc[r] = "planner"
  /\ context[r] # "empty"
  /\ \E severe \in BOOLEAN, n \in 0..MaxProposals :
     \E wanted \in [1..n -> Intents], violation \in BOOLEAN :
       /\ violation => n > 0
       /\ analysis' = [analysis EXCEPT ![r] = NewAnalysis(r, severe)]
       /\ Plan(r, NewAnalysis(r, severe), wanted)
       /\ humanReview' = [humanReview EXCEPT ![r] = @ \/ violation]
       /\ Goto(r, RouteAfterPlanner(r, humanReview[r] \/ violation))
  /\ PlannerUnchanged(r)

-----------------------------------------------------------------------------
(***************************************************************************)
(* Reviewer.  Its tool-calling loop is module Reviewer; here any verdict   *)
(* may come with any decision on each action, as an explicit verdict does. *)
(***************************************************************************)

RouteAfterReview_SaveAnyway(r, v) ==
  CASE v \in Cleared             -> "save_summary"
    [] v \notin Cleared /\ tries[r] < MaxRetries -> "increment_retry"
    [] OTHER                     -> "save_summary"

RouteAfterReview(r, v) ==
  CASE v \in Cleared             -> "save_summary"
    [] v \notin Cleared /\ tries[r] < MaxRetries -> "increment_retry"
    [] OTHER                     -> "notify_admin"

(* Nothing on fail; else the bypassing records, then what was approved.    *)
Approve(r, v, ok) ==
  IF v = "fail" THEN {} ELSE {a \in proposed[r] : IsAuto(a)} \cup ok

ReviewerUnchanged(r) ==
  UNCHANGED <<trigger, context, tries, proposed, plan, results, mode, shared>>

ReviewMissing(r) ==
  /\ pc[r] = "reviewer"
  /\ context[r] = "empty"
  /\ verdict' = [verdict EXCEPT ![r] = "fail"]
  /\ approved' = [approved EXCEPT ![r] = {}]
  /\ humanReview' = [humanReview EXCEPT ![r] = TRUE]
  /\ Goto(r, RouteAfterReview(r, "fail"))
  /\ UNCHANGED analysis
  /\ ReviewerUnchanged(r)

Review(r) ==
  /\ pc[r] = "reviewer"
  /\ context[r] # "empty"
  /\ \E v \in Cleared \cup {"fail"}, corrected \in BOOLEAN, severe \in BOOLEAN :
     \E ok \in SUBSET {a \in proposed[r] : ~IsAuto(a)} :
       /\ ~corrected => severe = analysis[r].severe
       /\ verdict' = [verdict EXCEPT ![r] = v]
       /\ analysis' = [analysis EXCEPT ![r].corrected = corrected, ![r].severe = severe]
       /\ approved' = [approved EXCEPT ![r] = Approve(r, v, ok)]
       /\ humanReview' = [humanReview EXCEPT ![r] = (v = "fail")]
       /\ Goto(r, RouteAfterReview(r, v))
  /\ ReviewerUnchanged(r)

IncrementRetry_NoCount(r) ==
  /\ pc[r] = "increment_retry"
  /\ verdict' = [verdict EXCEPT ![r] = "none"]
  /\ approved' = [approved EXCEPT ![r] = {}]
  /\ humanReview' = [humanReview EXCEPT ![r] = FALSE]
  /\ Goto(r, "planner")
  /\ UNCHANGED <<trigger, context, tries, analysis, proposed, plan, results, mode, shared>>

IncrementRetry(r) ==
  /\ pc[r] = "increment_retry"
  /\ tries' = [tries EXCEPT ![r] = @ + 1]
  /\ verdict' = [verdict EXCEPT ![r] = "none"]
  /\ approved' = [approved EXCEPT ![r] = {}]
  /\ humanReview' = [humanReview EXCEPT ![r] = FALSE]
  /\ Goto(r, "planner")
  /\ UNCHANGED <<trigger, context, analysis, proposed, plan, results, mode, shared>>

-----------------------------------------------------------------------------
(***************************************************************************)
(* Reviewer failed for good: administrators are alerted, the records are   *)
(* marked, and only those are sent.                                        *)
(***************************************************************************)

Mark_CallRecordOnly(a) ==
  IF a.token = "call_record" THEN [a EXCEPT !.marked = TRUE] ELSE a

(* _mutate_notion_actions_in_place *)
Mark(a) ==
  IF a.token \in AutoTokens THEN [a EXCEPT !.marked = TRUE] ELSE a

Alerts_SlackOnly(r) == {Act(3, "alert_slack", analysis[r])}

Alerts(r) == {Act(3, "alert_slack", analysis[r]), Act(4, "alert_email", analysis[r])}

NotifyAdmin(r) ==
  /\ pc[r] = "notify_admin"
  /\ proposed' = [proposed EXCEPT ![r] = {Mark(a) : a \in @} \cup Alerts(r)]
  /\ humanReview' = [humanReview EXCEPT ![r] = TRUE]
  /\ Goto(r, "human_queue")
  /\ UNCHANGED <<trigger, context, tries, analysis, verdict, approved, plan,
                 results, mode, shared>>

HumanQueue(r) ==
  /\ pc[r] = "human_queue"
  /\ humanReview' = [humanReview EXCEPT ![r] = TRUE]
  /\ results' = [results EXCEPT ![r] = {}]
  /\ Goto(r, "auto_action_executor")
  /\ UNCHANGED <<trigger, context, tries, analysis, proposed, verdict, approved,
                 plan, mode, shared>>

AutoActions_All(r) == proposed[r]

AutoActions(r) == {a \in proposed[r] : IsAuto(a)}

AutoActionExecutor(r) ==
  /\ pc[r] = "auto_action_executor"
  /\ plan' = [plan EXCEPT ![r] = AutoActions(r)]
  /\ Goto(r, "execute")
  /\ UNCHANGED <<trigger, context, tries, analysis, proposed, verdict, approved,
                 humanReview, results, mode, shared>>

ActionExecutor(r) ==
  /\ pc[r] = "action_executor"
  /\ plan' = [plan EXCEPT ![r] = approved[r]]
  /\ results' = [results EXCEPT ![r] = {}]
  /\ Goto(r, "execute")
  /\ UNCHANGED <<trigger, context, tries, analysis, proposed, verdict, approved,
                 humanReview, mode, shared>>

-----------------------------------------------------------------------------
(***************************************************************************)
(* ActionExecutor: one action after the other, each a lookup in the action *)
(* log and then, when the log holds no row of its token, an MCP call.      *)
(***************************************************************************)

FoundInLog_SuccessOnly(a) ==
  \E row \in log : row.token = a.token /\ row.status = "success"

(* find_existing_action: a row of the token, whatever its status. *)
FoundInLog(a) == \E row \in log : row.token = a.token

Finish(r, a, status) ==
  /\ plan' = [plan EXCEPT ![r] = @ \ {a}]
  /\ results' = [results EXCEPT ![r] = @ \cup {[act |-> a, status |-> status]}]
  /\ Goto(r, "execute")

ExecutorUnchanged ==
  UNCHANGED <<trigger, context, tries, analysis, proposed, verdict, approved,
              humanReview, mode, spoken, seeded, log, summary, voc, memory>>

(* The lookup finds a row, and the action is skipped. *)
SkipAction(r) ==
  /\ pc[r] = "execute"
  /\ \E a \in plan[r] :
       /\ IsFirst(a, plan[r])
       /\ FoundInLog(a)
       /\ Finish(r, a, "skipped")
  /\ UNCHANGED sent
  /\ ExecutorUnchanged

(* The lookup finds none, or fails: a database error counts as none. *)
PassLookup(r) ==
  /\ pc[r] = "execute"
  /\ \E a \in plan[r] :
       /\ IsFirst(a, plan[r])
       /\ FoundInLog(a) => "db" \in Faults
  /\ Goto(r, "gateway")
  /\ UNCHANGED <<local, shared>>

(* The provider does the action and the answer arrives. *)
Deliver(r) ==
  /\ pc[r] = "gateway"
  /\ \E a \in plan[r] :
       /\ IsFirst(a, plan[r])
       /\ sent' = sent \cup {[run |-> r, act |-> a]}
       /\ Finish(r, a, "success")
  /\ ExecutorUnchanged

(* The MCP call times out after the provider has done the action. *)
DeliverTimeout(r) ==
  /\ pc[r] = "gateway"
  /\ "mcp" \in Faults
  /\ \E a \in plan[r] :
       /\ IsFirst(a, plan[r])
       /\ sent' = sent \cup {[run |-> r, act |-> a]}
       /\ Finish(r, a, "failed")
  /\ ExecutorUnchanged

(* The connector refuses (failed) or is not configured (skipped). *)
Refuse(r) ==
  /\ pc[r] = "gateway"
  /\ \E a \in plan[r], status \in {"failed", "skipped"} :
       /\ IsFirst(a, plan[r])
       /\ Finish(r, a, status)
  /\ UNCHANGED sent
  /\ ExecutorUnchanged

-----------------------------------------------------------------------------
(***************************************************************************)
(* save_result_node, before the actions (intermediate) and after (final).  *)
(* The repositories swallow their database errors: a lost write is silent. *)
(***************************************************************************)

(* fail_block_analysis *)
BlockAnalysis(m, v) == m = "final" /\ v = "fail"

ExecutorReturns_OnFailure(r) ==
  /\ pc[r] = "execute"
  /\ plan[r] = {} \/ \E x \in results[r] : x.status = "failed"
  /\ mode' = [mode EXCEPT ![r] = "final"]
  /\ Goto(r, IF BlockAnalysis("final", verdict[r]) THEN "save_log" ELSE "save_summary")
  /\ UNCHANGED <<trigger, context, tries, analysis, proposed, verdict, approved,
                 humanReview, plan, results, shared>>

(* The executor node returns and save_final begins. *)
ExecutorReturns(r) ==
  /\ pc[r] = "execute"
  /\ plan[r] = {}
  /\ mode' = [mode EXCEPT ![r] = "final"]
  /\ Goto(r, IF BlockAnalysis("final", verdict[r]) THEN "save_log" ELSE "save_summary")
  /\ UNCHANGED <<trigger, context, tries, analysis, proposed, verdict, approved,
                 humanReview, plan, results, shared>>

Written(old, new) == {new} \cup (IF "db" \in Faults THEN {old} ELSE {})

(* save_summary: the in-memory record, then the upsert. *)
SaveSummary(r) ==
  /\ pc[r] = "save_summary"
  /\ memory' = [memory EXCEPT !.summary = analysis[r]]
  /\ Goto(r, "summary_db")
  /\ UNCHANGED <<local, spoken, seeded, log, sent, summary, voc>>

UpsertSummary(r) ==
  /\ pc[r] = "summary_db"
  /\ summary' \in Written(summary, analysis[r])
  /\ Goto(r, "save_voc")
  /\ UNCHANGED <<local, spoken, seeded, log, sent, voc, memory>>

SaveVoc(r) ==
  /\ pc[r] = "save_voc"
  /\ memory' = [memory EXCEPT !.voc = analysis[r]]
  /\ Goto(r, "voc_db")
  /\ UNCHANGED <<local, spoken, seeded, log, sent, summary, voc>>

UpsertVoc_KeepFirst(r) ==
  /\ pc[r] = "voc_db"
  /\ voc' \in Written(voc, IF voc = None THEN analysis[r] ELSE voc)
  /\ Goto(r, IF mode[r] = "final" THEN "save_log" ELSE "save_dashboard")
  /\ UNCHANGED <<local, spoken, seeded, log, sent, summary, memory>>

UpsertVoc(r) ==
  /\ pc[r] = "voc_db"
  /\ voc' \in Written(voc, analysis[r])
  /\ Goto(r, IF mode[r] = "final" THEN "save_log" ELSE "save_dashboard")
  /\ UNCHANGED <<local, spoken, seeded, log, sent, summary, memory>>

Row(r, x) == [run |-> r, slot |-> x.act.slot, token |-> x.act.token, status |-> x.status]

(* Results of the run whose row is not inserted yet. *)
Unlogged_Success(r) == {x \in results[r] : x.status = "success" /\ Row(r, x) \notin log}

Unlogged(r) == {x \in results[r] : Row(r, x) \notin log}

SaveLogRow(r) ==
  /\ pc[r] = "save_log"
  /\ \E x \in Unlogged(r) :
       /\ \A y \in Unlogged(r) : x.act.slot <= y.act.slot
       /\ log' = log \cup {Row(r, x)}
  /\ UNCHANGED <<pc, local, spoken, seeded, sent, summary, voc, memory>>

(* All rows are in, or the database failed and the rest is dropped. *)
SaveLogEnd(r) ==
  /\ pc[r] = "save_log"
  /\ Unlogged(r) = {} \/ "db" \in Faults
  /\ Goto(r, "save_dashboard")
  /\ UNCHANGED <<local, shared>>

SaveDashboard(r) ==
  /\ pc[r] = "save_dashboard"
  /\ memory' = [memory EXCEPT !.dashboard =
                  IF BlockAnalysis(mode[r], verdict[r]) THEN None ELSE analysis[r]]
  /\ Goto(r, IF mode[r] = "final" THEN "done" ELSE "action_executor")
  /\ UNCHANGED <<local, spoken, seeded, log, sent, summary, voc>>

-----------------------------------------------------------------------------
(* The process dies: its runs and its in-memory stores are gone, what was  *)
(* written or sent stays.                                                  *)
Crash ==
  /\ "crash" \in Faults
  /\ \E r \in Runs : Active(r)
  /\ pc' = [r \in Runs |-> IF Active(r) THEN "crashed" ELSE pc[r]]
  /\ seeded' = "none"
  /\ memory' = Forgotten
  /\ UNCHANGED <<local, spoken, log, sent, summary, voc>>

(* What a started run does next. *)
Step(r) ==
  \/ LoadContext(r)
  \/ PlanEmpty(r) \/ PlanFailed(r) \/ PlanAnalysed(r)
  \/ ReviewMissing(r) \/ Review(r) \/ IncrementRetry(r)
  \/ NotifyAdmin(r) \/ HumanQueue(r) \/ AutoActionExecutor(r)
  \/ ActionExecutor(r)
  \/ SkipAction(r) \/ PassLookup(r)
  \/ Deliver(r) \/ DeliverTimeout(r) \/ Refuse(r)
  \/ ExecutorReturns(r)
  \/ SaveSummary(r) \/ UpsertSummary(r) \/ SaveVoc(r) \/ UpsertVoc(r)
  \/ SaveLogRow(r) \/ SaveLogEnd(r) \/ SaveDashboard(r)

Next ==
  \/ \E r \in Runs : Start(r) \/ Step(r)
  \/ Crash

(* The event loop runs a ready task; LLM and MCP calls have timeouts. *)
Fairness == \A r \in Runs : WF_vars(Step(r))

Spec     == Init /\ [][Next]_vars
FairSpec == Spec /\ Fairness

-----------------------------------------------------------------------------
(* The variables have their types (state.py's TypedDict), and the retry    *)
(* counter stays within MAX_ANALYSIS_RETRIES.                              *)
TypeOK ==
  /\ pc \in [Runs -> Nodes]
  /\ trigger \in [Runs -> Triggers]
  /\ context \in [Runs -> Contexts]
  /\ tries \in [Runs -> 0..MaxRetries]
  /\ analysis \in [Runs -> Analysis \cup {None}]
  /\ proposed \in [Runs -> SUBSET Action]
  /\ verdict \in [Runs -> Verdicts]
  /\ approved \in [Runs -> SUBSET Action]
  /\ humanReview \in [Runs -> BOOLEAN]
  /\ plan \in [Runs -> SUBSET Action]
  /\ results \in [Runs -> SUBSET [act: Action, status: Statuses]]
  /\ mode \in [Runs -> {"intermediate", "final"}]
  /\ spoken \in BOOLEAN
  /\ seeded \in {"none", "own", "empty"}
  /\ log \subseteq [run: Runs, slot: 1..(4 + MaxProposals), token: Tokens,
                    status: Statuses]
  /\ sent \subseteq [run: Runs, act: Action]
  /\ summary \in Analysis \cup {None}
  /\ voc \in Analysis \cup {None}
  /\ memory \in [summary: Analysis \cup {None}, voc: Analysis \cup {None},
                dashboard: Analysis \cup {None}]

(* What is published of the call: rows, and what the routes read first.    *)
Published == {summary, voc, memory.summary, memory.voc, memory.dashboard} \ {None}

(* The final analyses of the runs whose reviewer let them through.         *)
ClearedAnalyses == {analysis[r] : r \in {q \in Runs : verdict[q] \in Cleared}}

(* Only a reviewed analysis is ever published, in the form the reviewer    *)
(* left it: in the database and on the dashboard, whichever runs overlap,  *)
(* retry, fail or crash (graph.py: "only analyses that passed review are   *)
(* stored").                                                               *)
OnlyReviewedPublished == Published \subseteq ClearedAnalyses

(* A run sends nothing before its review ends; afterwards a cleared run    *)
(* sends what the reviewer approved and a refused run only alerts and      *)
(* records marked [REVIEW_FAILED].                                         *)
SentRespectsReview ==
  \A s \in sent :
    \/ verdict[s.run] \in Cleared /\ s.act \in approved[s.run]
    \/ /\ verdict[s.run] = "fail" /\ tries[s.run] = MaxRetries
       /\ IsAuto(s.act) /\ (s.act.token \in AutoTokens => s.act.marked)

(* Whatever a run sends was written from its last analysis: the records    *)
(* re-injected on each retry replace the earlier ones and do not add up.   *)
SentFromLastTry == \A s \in sent : s.act.about.try = tries[s.run]

(* An immediate escalation leaves no trace outside its own state           *)
(* (graph.py: it bypasses reviewer, storage and actions).                  *)
EscalationLeavesNoTrace ==
  \A r \in Runs : trigger[r] = "escalation_immediate" =>
    /\ results[r] = {} /\ \A s \in sent : s.run # r
    /\ \A a \in Published : a.run # r

(* Runs of a call that do not overlap do not send the same intent twice,   *)
(* even when a first answer was lost to a timeout: the action log of the   *)
(* earlier run stops the later one.                                        *)
NoResendAcrossRuns ==
  \A s, t \in sent : s.act.token = t.act.token => s.run = t.run

(* With the database up, a finished run has a row for every action it      *)
(* sent, and every row that says success stands for an action that was     *)
(* sent: the log the next run and the operators read is the truth.         *)
LogTellsTruth ==
  /\ \A s \in sent : pc[s.run] = "done" =>
       \E row \in log : row.run = s.run /\ row.slot = s.act.slot
  /\ \A row \in log : row.status = "success" =>
       \E s \in sent : s.run = row.run /\ s.act.token = row.token

(* Runs that do not overlap leave one story: once all is quiet the summary *)
(* and the VOC rows come from the same analysis, and a restart, which      *)
(* drops the in-memory copies, does not change what the routes show.       *)
RecordsAgree ==
  (\A r \in Runs : ~Active(r)) =>
    /\ summary = voc
    /\ memory.summary = summary /\ memory.voc = voc

(* A finished run that got past its planner has decided every action it    *)
(* planned: nothing approved, or injected, is silently dropped.            *)
EveryPlannedActionAttempted ==
  \A r \in Runs : pc[r] = "done" =>
    /\ verdict[r] \in Cleared => {x.act : x \in results[r]} = approved[r]
    /\ verdict[r] = "fail" => {x.act : x \in results[r]} = AutoActions(r)

(* Every run ends: retries are bounded and no node waits for another run.  *)
RunsEnd == \A r \in Runs : Active(r) ~> Ended(r)

(* A review that fails for good reaches the administrators: both alerts    *)
(* are tried, or were logged by an earlier run.                            *)
RefusalAlertsAdmin ==
  \A r \in Runs :
    pc[r] = "notify_admin" ~>
      \/ pc[r] = "crashed"
      \/ pc[r] = "done" /\ AlertTokens \subseteq {x.act.token : x \in results[r]}

-----------------------------------------------------------------------------
(***************************************************************************)
(* Refinement: how the state of the graph shows the stages of              *)
(* PostCallPromise.                                                        *)
(***************************************************************************)

(* Past the last refused review: the nodes only notify_admin leads to.     *)
Refused(r) ==
  \/ pc[r] \in {"notify_admin", "human_queue", "auto_action_executor"}
  \/ pc[r] \in {"execute", "gateway", "save_log", "save_dashboard"} /\ verdict[r] = "fail"

StageOf(r) ==
  IF Ended(r) THEN "closed"
  ELSE IF verdict[r] \in Cleared THEN "cleared"
  ELSE IF Refused(r) THEN "refused" ELSE "open"

Places == {"summary", "voc", "memory_summary", "memory_voc", "dashboard"}

ShownAt(p) ==
  CASE p = "summary"        -> summary
    [] p = "voc"            -> voc
    [] p = "memory_summary" -> memory.summary
    [] p = "memory_voc"     -> memory.voc
    [] p = "dashboard"      -> memory.dashboard

KindOf(a) ==
  IF ~IsAuto(a) THEN "ordered"
  ELSE IF a.token \in AlertTokens THEN "alert"
  ELSE IF a.marked THEN "marked_record" ELSE "record"

Promise == INSTANCE PostCallPromise WITH
  Analyses  <- Analysis,
  stage     <- [r \in Runs |-> StageOf(r)],
  accepted  <- [r \in Runs |-> IF verdict[r] \in Cleared THEN analysis[r] ELSE None],
  shown     <- [p \in Places |-> ShownAt(p)],
  delivered <- {[run |-> s.run, kind |-> KindOf(s.act)] : s \in sent}

(* The pipeline, with its retries, overlapping runs, lost writes and       *)
(* crashes, does nothing PostCallPromise does not allow.                   *)
KeepsPromise == Promise!Spec

-----------------------------------------------------------------------------
(***************************************************************************)
(* What the repository says and the code does not do.                      *)
(***************************************************************************)

(* "one per call": within one run an intent is sent once.  The log that    *)
(* would stop the second is written after all the actions have run.        *)
OncePerIntent ==
  \A s, t \in sent : s.run = t.run /\ s.act.token = t.act.token => s = t

(* "every call -> call_record": a full run of a call with transcripts      *)
(* tries the record before it ends.                                        *)
EveryCallRecorded ==
  \A r \in Runs :
    pc[r] = "done" /\ context[r] = "own" /\ trigger[r] # "escalation_immediate" =>
      \E x \in results[r] : x.act.token = "call_record"

(* "voc_record: [the insight] that passed the reviewer": an unmarked one   *)
(* says what the reviewed analysis says.                                   *)
VocRecordReviewed ==
  \A s \in sent : s.act.token = "voc_record" /\ ~s.act.marked =>
    s.act.about = analysis[s.run]

(* "without a context the agent runs on an empty fallback": nothing is     *)
(* published for the call from the sample conversation.                    *)
SampleNeverPublished ==
  \A a \in Published : context[a.run] # "sample"
=============================================================================
