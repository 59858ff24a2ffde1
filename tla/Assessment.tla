------------------------------ MODULE Assessment ------------------------------
(***************************************************************************)
(* How a request becomes a strategy and a policy, before any model is      *)
(* asked (core/execution/assessment.py, core/execution/policy.py,          *)
(* core/orchestration/plan.py): term lists classify its intent, risk and   *)
(* complexity, and these the topology and limits of the Run.               *)
(*                                                                         *)
(* Abstractions: a request is the term lists of which it holds a term, and *)
(* whether it is long; a workspace is how many of the paths the request    *)
(* names it makes sense of, and whether it has a gates file.  Limits of    *)
(* the model loop and the wording of reasons are left out.                 *)
(***************************************************************************)
EXTENDS Naturals

\* The term lists; a greeting is the whole request.
Terms == {"change", "read_only", "operations", "high", "medium", "broad", "several"}

Requests ==
  [terms : SUBSET Terms, long : BOOLEAN]
    \cup {[terms |-> {"greeting"}, long |-> FALSE]}

\* Paths beyond the fourth make no difference.
Workspaces == [paths : 0..4, gates : BOOLEAN]

Intent(r) ==
  IF "change" \notin r.terms /\ r.terms \cap {"greeting", "read_only"} # {}
  THEN "read_only"
  ELSE IF "operations" \in r.terms THEN "operations" ELSE "change"

Risk(r) ==
  CASE Intent(r) = "read_only" -> "low"
    [] Intent(r) = "operations" -> "high"
    [] OTHER -> IF "high" \in r.terms THEN "high"
                ELSE IF "medium" \in r.terms THEN "medium" ELSE "low"

Complexity(r, w) ==
  IF w.paths >= 4 \/ "broad" \in r.terms THEN "large"
  ELSE IF w.paths >= 2 \/ "several" \in r.terms \/ r.long THEN "medium"
  ELSE "small"

SelectStrategy(r, w) ==
  IF Intent(r) = "read_only" THEN "planner_direct"
  ELSE IF Risk(r) = "high" \/ Complexity(r, w) = "large" THEN "scout_then_dag"
  ELSE IF w.gates THEN "coder_with_gates"
  ELSE IF Complexity(r, w) = "small" /\ Risk(r) = "low" THEN "direct_local"
  ELSE "single_actor"

Assess(r, w) ==
  [strategy |-> SelectStrategy(r, w), approval |-> Risk(r) = "high"]

Strategies == {"planner_direct", "direct_local", "single_actor",
               "coder_with_gates", "scout_then_coder", "scout_then_dag"}

\* compile_task_plan: each role is planned once, and names its Actor.
RolesOf(strategy) ==
  CASE strategy \in {"none", "planner_direct"} -> {}
    [] strategy = "scout_then_coder" -> {"scout", "coder"}
    [] strategy = "scout_then_dag" -> {"scout", "coder", "verifier"}
    [] OTHER -> {"coder"}

DependenciesOf(planned) ==
  [a \in planned |->
     CASE a = "scout" -> {}
       [] a = "coder" -> planned \cap {"scout"}
       [] a = "verifier" -> {"coder"}]

MaxActorsOf(strategy) ==
  CASE strategy \in {"none", "planner_direct"} -> 0
    [] strategy = "scout_then_coder" -> 2
    [] strategy = "scout_then_dag" -> 4
    [] OTHER -> 1

\* A budget without start attempts allows as many as there may be Actors.
StartAttemptsOf(strategy) ==
  CASE strategy \in {"none", "planner_direct", "direct_local"} -> 1
    [] strategy = "scout_then_coder" -> 4
    [] strategy = "scout_then_dag" -> 8
    [] OTHER -> 2
=============================================================================
