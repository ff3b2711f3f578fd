-------------------------- MODULE PostCallPromise --------------------------
(***************************************************************************)
(* What the post-call pipeline promises the tenant, whatever graph, retry  *)
(* and storage it is made of (the docstrings of app/agents/post_call/      *)
(* graph.py and save_result_node.py):                                      *)
(*   - a run decides once: it accepts an analysis or refuses;              *)
(*   - only an accepted analysis is ever shown, and by its own run;        *)
(*   - a run that accepted delivers what was ordered and records, one that *)
(*     refused only marked records and alerts, an undecided one nothing;   *)
(*   - a closed run is silent.                                             *)
(***************************************************************************)
CONSTANTS
  Runs,       (* executions of the pipeline                                *)
  Analyses,   (* what a run may come to think of the call                  *)
  Places,     (* where an analysis is shown                                *)
  None        (* nothing shown, nothing accepted                           *)

VARIABLES
  stage,      (* "open", "cleared", "refused" or "closed"                  *)
  accepted,   (* the analysis a run was allowed to show                    *)
  shown,      (* the analysis each place shows                             *)
  delivered   (* what left the system: run and kind                        *)

vars == <<stage, accepted, shown, delivered>>

Kinds == {"ordered", "record", "marked_record", "alert"}

MayDeliver(st) ==
  CASE st = "cleared" -> {"ordered", "record"}
    [] st = "refused" -> {"marked_record", "alert"}
    [] OTHER          -> {}

Init ==
  /\ stage     = [r \in Runs |-> "open"]
  /\ accepted  = [r \in Runs |-> None]
  /\ shown     = [p \in Places |-> None]
  /\ delivered = {}

Accept(r) ==
  /\ stage[r] = "open"
  /\ stage' = [stage EXCEPT ![r] = "cleared"]
  /\ \E a \in Analyses : accepted' = [accepted EXCEPT ![r] = a]
  /\ UNCHANGED <<shown, delivered>>

Refuse(r) ==
  /\ stage[r] = "open"
  /\ stage' = [stage EXCEPT ![r] = "refused"]
  /\ UNCHANGED <<accepted, shown, delivered>>

Show(r) ==
  /\ stage[r] = "cleared"
  /\ \E p \in Places : shown' = [shown EXCEPT ![p] = accepted[r]]
  /\ UNCHANGED <<stage, accepted, delivered>>

Deliver(r) ==
  /\ \E k \in MayDeliver(stage[r]) : delivered' = delivered \cup {[run |-> r, kind |-> k]}
  /\ UNCHANGED <<stage, accepted, shown>>

(* Runs end, of themselves or with the process, and places may be emptied. *)
Close ==
  /\ \E S \in SUBSET Runs :
       stage' = [r \in Runs |-> IF r \in S THEN "closed" ELSE stage[r]]
  /\ \E P \in SUBSET Places :
       shown' = [p \in Places |-> IF p \in P THEN None ELSE shown[p]]
  /\ UNCHANGED <<accepted, delivered>>

(* The last Show of a run may also close it. *)
ShowAndClose(r) ==
  /\ stage[r] = "cleared"
  /\ stage' = [stage EXCEPT ![r] = "closed"]
  /\ \E p \in Places : shown' = [shown EXCEPT ![p] = accepted[r]]
  /\ UNCHANGED <<accepted, delivered>>

Next ==
  \/ \E r \in Runs : Accept(r) \/ Refuse(r) \/ Show(r) \/ Deliver(r) \/ ShowAndClose(r)
  \/ Close

Spec == Init /\ [][Next]_vars
=============================================================================
