--------------------------- MODULE ActorExecutor ---------------------------
(***************************************************************************)
(* One Actor task in a disposable worktree (core/actors/worktree.py) with  *)
(* the deterministic verification and bounded repair of a Coder            *)
(* (core/verification).                                                    *)
(*                                                                         *)
(* A step ends at the next await: the provider's start, the Actor's loop,  *)
(* a run of the gates, a claim on the ledger, the diff, and the clean-ups  *)
(* of the finally block.  Several executions interleave at these points    *)
(* and share the Run's repair budget and its wall time.                    *)
(*                                                                         *)
(* Abstractions: the Actor's model loop is its outcome (module ModelLoop). *)
(* The content of a worktree is a version that grows with everything that  *)
(* may edit it, the Actor's loop and the commands of the gates. What a     *)
(* failed set-up or teardown leaves on disk is not followed:               *)
(* cleanup_orphans only removes what git does not list. A failure category *)
(* is kept as the one thing asked of it: whether it is one of the two      *)
(* infrastructure categories. The category is looked for in the words of   *)
(* the phase and of the error, so an error whose words are free has any    *)
(* category.                                                               *)
(***************************************************************************)
EXTENDS Integers, FiniteSets

CONSTANTS
  Tasks,         \* task_ids that may be delegated
  RoleOf,        \* the role each is delegated with
  Gates,         \* .sca/quality-gates.toml names at least one gate
  GatesRequired, \* policy.require_quality_gates
  Fingerprints,  \* the failures the gates can show
  ConfigRepairs, \* max_repair_attempts of the gates' configuration
  MaxRepairs     \* budget.max_repair_attempts: of one task, and of the Run

Roles == {"scout", "coder", "verifier"}

ASSUME ExecutorAssumption ==
  /\ IsFiniteSet(Tasks)
  /\ RoleOf \in [Tasks -> Roles]
  /\ Gates \in BOOLEAN /\ GatesRequired \in BOOLEAN
  /\ {ConfigRepairs, MaxRepairs} \subseteq Nat

VARIABLES
  actor,      \* the execution of each task
  worktree,   \* its newest worktree: "live" in use; "closed" when a teardown was
              \*   tried, whatever it removed; "left" when none ever is, though
              \*   there may be one, whole or half made
  repairs,    \* ledger: repair_attempts
  late        \* the Run's active wall time is over its limit

executorVars == <<actor, worktree, repairs, late>>

\* "passed" is the version the last passing run of the gates left behind, "diff"
\* the one the exported diff holds; NoVersion for neither.
NoVersion == 0

Idle ==
  [at |-> "off", version |-> NoVersion, passed |-> NoVersion, seen |-> {},
   tried |-> 0, status |-> "none", infra |-> FALSE, diff |-> NoVersion]

ExecutorInit ==
  /\ actor = [t \in Tasks |-> Idle]
  /\ worktree = [t \in Tasks |-> "none"]
  /\ repairs = 0
  /\ late = FALSE

RepairLimit == IF ConfigRepairs < MaxRepairs THEN ConfigRepairs ELSE MaxRepairs

At(t, phase) == actor[t].at = phase

Becomes(t, record) == actor' = [actor EXCEPT ![t] = record]

\* Leave for the finally block without a diff.
Ends(t, status, infra, phase) ==
  [Idle EXCEPT !.at = phase, !.status = status, !.infra = infra]

(***************************************************************************)
(* Up to the first await: orphans, worktree, dependency baseline, role and *)
(* gate configuration. setup_worktree may raise with a worktree half made, *)
(* which the clean-up then does not know of; without a provider its        *)
(* shutdown is skipped. All of it is the phase "worktree setup/baseline",  *)
(* so every error in it is an infrastructure failure, also the missing     *)
(* gates of coder_with_gates.                                              *)
(***************************************************************************)
MustHaveGates(t) == RoleOf[t] = "coder" /\ GatesRequired /\ ~Gates

Setup(t) ==
  /\ \/ /\ Becomes(t, [Idle EXCEPT !.at = "result", !.status = "failed",
                                   !.infra = TRUE])
        /\ worktree' = [worktree EXCEPT ![t] = "left"]
     \/ /\ Becomes(t, [Idle EXCEPT !.at = "cleanup", !.status = "failed",
                                   !.infra = TRUE])
        /\ worktree' = [worktree EXCEPT ![t] = "live"]
     \/ /\ ~MustHaveGates(t)
        /\ Becomes(t, [Idle EXCEPT !.at = "startup"])
        /\ worktree' = [worktree EXCEPT ![t] = "live"]
  /\ UNCHANGED <<repairs, late>>

\* Fault: a provider that does not start leaves no clean-up to do.
StartupWithoutCleanup(t) ==
  /\ At(t, "startup")
  /\ \/ Becomes(t, [actor[t] EXCEPT !.at = "acting"])
     \/ Becomes(t, Ends(t, "failed", TRUE, "result"))
  /\ UNCHANGED <<worktree, repairs, late>>

\* tool_provider.start, then the copies of the context files.
Startup(t) ==
  /\ At(t, "startup")
  /\ \/ Becomes(t, [actor[t] EXCEPT !.at = "acting"])
     \/ Becomes(t, Ends(t, "failed", TRUE, "cleanup"))
  /\ UNCHANGED <<worktree, repairs, late>>

(***************************************************************************)
(* actor.run: it may change the worktree however it ends.  A failed loop   *)
(* keeps its diff, an exception does not.                                  *)
(***************************************************************************)
Edited(t) == [actor[t] EXCEPT !.version = @ + 1]

FinishLoop(t) ==
  /\ At(t, "acting")
  /\ \/ Becomes(t, [Edited(t) EXCEPT !.at =
          IF RoleOf[t] = "coder" /\ Gates THEN "verifying" ELSE "extracting",
          !.status = "done"])
     \/ \E infra \in BOOLEAN :
          \/ Becomes(t, [Edited(t) EXCEPT !.at = "extracting",
                                   !.status = "failed", !.infra = infra])
          \/ Becomes(t, Ends(t, "failed", infra, "cleanup"))
  /\ UNCHANGED <<worktree, repairs, late>>

(***************************************************************************)
(* Verification and repair.  The gates are commands of the project, run in *)
(* the worktree, and may change it whatever they report.  A report that    *)
(* shows a failure seen before ends the repairs; the first one is compared *)
(* with nothing.                                                           *)
(***************************************************************************)
GatesPass(t) ==
  /\ At(t, "verifying")
  /\ Becomes(t, [Edited(t) EXCEPT !.at = "extracting",
                                 !.passed = actor[t].version + 1])
  /\ UNCHANGED <<worktree, repairs, late>>

\* Fault: the failures seen so far are not kept.
GatesFailForgetting(t, failure) ==
  /\ At(t, "verifying")
  /\ IF actor[t].tried < RepairLimit
     THEN Becomes(t, [Edited(t) EXCEPT !.at = "claiming", !.seen = {failure}])
     ELSE Becomes(t, Ends(t, "failed", FALSE, "cleanup"))
  /\ UNCHANGED <<worktree, repairs, late>>

GatesFail(t, failure) ==
  /\ At(t, "verifying")
  /\ IF failure \notin actor[t].seen /\ actor[t].tried < RepairLimit
     THEN Becomes(t, [Edited(t) EXCEPT !.at = "claiming",
                                      !.seen = @ \cup {failure}])
     ELSE Becomes(t, Ends(t, "failed", FALSE, "cleanup"))
  /\ UNCHANGED <<worktree, repairs, late>>

\* The runner raises; the words of a sandbox's error make it infrastructure.
GatesRaise(t) ==
  /\ At(t, "verifying")
  /\ \E infra \in BOOLEAN : Becomes(t, Ends(t, "failed", infra, "cleanup"))
  /\ UNCHANGED <<worktree, repairs, late>>

\* Fault: an attempt that was granted is not counted for its task.
ClaimRepairUncounted(t) ==
  /\ At(t, "claiming")
  /\ IF ~late /\ repairs < MaxRepairs
     THEN /\ repairs' = repairs + 1
          /\ Becomes(t, [actor[t] EXCEPT !.at = "repairing"])
     ELSE /\ Becomes(t, Ends(t, "failed", FALSE, "cleanup"))
          /\ UNCHANGED repairs
  /\ UNCHANGED <<worktree, late>>

\* claim_repair_attempt, then the Actor's loop runs again.
ClaimRepair(t) ==
  /\ At(t, "claiming")
  /\ IF ~late /\ repairs < MaxRepairs
     THEN /\ repairs' = repairs + 1
          /\ Becomes(t, [actor[t] EXCEPT !.at = "repairing", !.tried = @ + 1])
     ELSE /\ Becomes(t, Ends(t, "failed", FALSE, "cleanup"))
          /\ UNCHANGED repairs
  /\ UNCHANGED <<worktree, late>>

\* Fault: what was repaired counts as passing.
FinishRepairBelieved(t) ==
  /\ At(t, "repairing")
  /\ \/ Becomes(t, [Edited(t) EXCEPT !.at = "extracting"])
     \/ \E infra \in BOOLEAN : Becomes(t, Ends(t, "failed", infra, "cleanup"))
  /\ UNCHANGED <<worktree, repairs, late>>

FinishRepair(t) ==
  /\ At(t, "repairing")
  /\ \/ Becomes(t, [Edited(t) EXCEPT !.at = "verifying"])
     \/ \E infra \in BOOLEAN : Becomes(t, Ends(t, "failed", infra, "cleanup"))
  /\ UNCHANGED <<worktree, repairs, late>>

\* A diff that cannot be extracted or written is only logged.
Extract(t) ==
  /\ At(t, "extracting")
  /\ \E version \in {NoVersion, actor[t].version} :
       Becomes(t, [actor[t] EXCEPT !.at = "cleanup", !.diff = version])
  /\ UNCHANGED <<worktree, repairs, late>>

(***************************************************************************)
(* The finally block awaits the provider's shutdown and close_workspace,   *)
(* then tears the worktree down. An Exception of one of them is logged and *)
(* does not stop the next. teardown_worktree does what git lets it: a      *)
(* worktree that is closed may be on disk all the same.                    *)
(***************************************************************************)
CleanUp(t) ==
  /\ At(t, "cleanup")
  /\ worktree' = [worktree EXCEPT ![t] = "closed"]
  /\ Becomes(t, [actor[t] EXCEPT !.at = "result"])
  /\ UNCHANGED <<repairs, late>>

(***************************************************************************)
(* A cancellation is no Exception: the work in progress goes to the        *)
(* finally block, a clean-up in progress is cut off with all that follow.  *)
(***************************************************************************)
Cancelled(t) ==
  CASE At(t, "off") \/ At(t, "result") -> actor[t]
    [] At(t, "cleanup") -> Ends(t, "cancelled", FALSE, "result")
    [] OTHER -> Ends(t, "cancelled", FALSE, "cleanup")

CutOff(t) == At(t, "cleanup")

ExecutorStep(t) ==
  \/ Startup(t) \/ FinishLoop(t)
  \/ GatesPass(t) \/ (\E f \in Fingerprints : GatesFail(t, f)) \/ GatesRaise(t)
  \/ ClaimRepair(t) \/ FinishRepair(t)
  \/ Extract(t) \/ CleanUp(t)

WallTimeEnds == ~late /\ late' = TRUE /\ UNCHANGED <<actor, worktree, repairs>>

-----------------------------------------------------------------------------
Phases == {"off", "startup", "acting", "verifying", "claiming", "repairing",
           "extracting", "cleanup", "result"}

Execution ==
  [at : Phases, version : Nat, passed : Nat, seen : SUBSET Fingerprints,
   tried : Nat, status : {"none", "done", "failed", "cancelled"},
   infra : BOOLEAN, diff : Nat]

ExecutorTypeOK ==
  /\ actor \in [Tasks -> Execution]
  /\ worktree \in [Tasks -> {"none", "live", "closed", "left"}]
  /\ repairs \in Nat
  /\ late \in BOOLEAN

\* The gates have the last word on a Coder that is done: nothing else edits its
\* worktree, by a repair, a failed loop or late, between their last passing run and
\* the diff (the verification loop of execute).  What that run itself wrote is
\* exported with the rest, and no report is about it.
GatesHaveLastWord ==
  \A t \in Tasks :
    actor[t].at = "result" /\ actor[t].status = "done"
      /\ RoleOf[t] = "coder" /\ Gates
        => /\ actor[t].passed = actor[t].version
           /\ actor[t].diff \in {NoVersion, actor[t].passed}

\* No repair is tried after a failure that was shown before, none beyond the
\* task's limit, and all executions of the Run together stay within the
\* budget they claim from concurrently (the repair loop, claim_repair_attempt).
RepairsBounded ==
  /\ repairs <= MaxRepairs
  /\ \A t \in Tasks : actor[t].tried <= RepairLimit
                        /\ actor[t].tried <= Cardinality(actor[t].seen)

\* An execution has its worktree as long as it works, none is over without a clean-up,
\* whichever step failed or was cancelled, and one that is done has tried its teardown:
\* what stays on disk is from a failed set-up, a failed teardown or a clean-up that was
\* itself cancelled (the finally block of execute).
CleanUpNeverSkipped ==
  \A t \in Tasks :
    /\ worktree[t] = "live" <=> actor[t].at \notin {"off", "result"}
    /\ actor[t].at = "result" /\ actor[t].status = "done" => worktree[t] = "closed"
=============================================================================
