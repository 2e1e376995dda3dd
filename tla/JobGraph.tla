------------------------------ MODULE JobGraph ------------------------------
(* The WorkflowRun controller: planning, the graph of WorkflowJobs, and    *)
(* the result of the run (internal/controller/workflowrun_controller.go).  *)
(*                                                                         *)
(* One reconcile of one run is a sequence of API calls.  It works on a     *)
(* cached copy of the run (rc) and on a list of the jobs (snap) read once; *)
(* every write goes to one object and is refused when that object has      *)
(* changed since it was read.  Between two calls Runners take and finish   *)
(* jobs, users cancel, approve and delete, and the controller may fail.    *)
EXTENDS Naturals, Sequences, FiniteSets

CONSTANTS Workflows,     \* the workflow definitions a run may be for
          MaxFaults      \* failures of a reconcile and deletions of jobs

(* workflow.Parse: the ids of a workflow are different, what is needed     *)
(* exists, and a matrix has finitely many combinations.                    *)
ASSUME WorkflowsAssumption ==
    \A w \in Workflows :
        LET I == {w.order[i] : i \in DOMAIN w.order} IN
        /\ DOMAIN w.order \subseteq Nat /\ IsFiniteSet(DOMAIN w.order)
        /\ \A i, k \in DOMAIN w.order : w.order[i] = w.order[k] => i = k
        /\ \A id \in I : w.width[id] \in Nat /\ w.needs[id] \subseteq I
        /\ w.deferred \subseteq I
        /\ w.outcomes \subseteq {"success", "failure", "cancelled", "skipped", "timeout"}

VARIABLES wf,      \* the definition this run is planned from
          run,     \* the WorkflowRun
          rcache,  \* what the controller's cache holds of it
          job,     \* the WorkflowJobs that exist
          plan,    \* the jobs whose plan ConfigMap exists
          needs,   \* the needs ConfigMaps: job -> result of every dependency
          work,    \* the jobs with a native Job or an active Pod
          newer,   \* a run for a newer revision of the pull request exists
          gone,    \* the jobs somebody has deleted
          pc, rc, snap, todo, goal, visit, pend, expd,   \* the reconcile
          faults

store == <<wf, job, plan, needs, work, newer, gone>>
local == <<pc, rc, snap, todo, goal, visit, pend, expd>>
vars  == <<wf, run, rcache, job, plan, needs, work, newer, gone, pc, rc, snap, todo, goal, visit, pend, expd, faults>>

-----------------------------------------------------------------------------
(* The definition: ids in the order of their names, and for each its       *)
(* needs, its condition, the number of matrix combinations (0: no matrix)  *)
(* and the sets of ids with an attribute.                                  *)
Ids == {wf.order[i] : i \in DOMAIN wf.order}

(* A job is its logical id and the number of the combination; the result   *)
(* placeholder of a deferred job has the id of a job without a matrix.     *)
Expanded(id) == IF wf.width[id] = 0 THEN {<<id, 0>>} ELSE {<<id, k>> : k \in 1..wf.width[id]}

DefinedJobs(w) ==
    UNION {{<<w.order[i], k>> : k \in 0..w.width[w.order[i]]} : i \in DOMAIN w.order}

Logical(j) == j[1]

Position(id) == CHOOSE i \in DOMAIN wf.order : wf.order[i] = id

Before(j, k) ==
    \/ Position(j[1]) < Position(k[1])
    \/ Position(j[1]) = Position(k[1]) /\ j[2] < k[2]

First(S) == CHOOSE j \in S : \A k \in S : ~Before(k, j)

(* S in the order of the names.                                            *)
Sorted(S) == [n \in 1..Cardinality(S) |->
                CHOOSE j \in S : Cardinality({k \in S : Before(k, j)}) = n - 1]

NewJob(placeholder) ==
    [ready |-> "none", result |-> "none", timedOut |-> FALSE, runner |-> FALSE,
     stop |-> "no", reason |-> "none", placeholder |-> placeholder]

Results == {"success", "failure", "cancelled", "skipped"}

Terminal(r) == r.result # "none"

(* workflowJobEffectiveResult: continue-on-error turns a failure into a    *)
(* success, but not a timeout.                                             *)
Effective(jobs, j) ==
    IF jobs[j].result = "failure" /\ Logical(j) \in wf.tolerate /\ ~jobs[j].timedOut
    THEN "success" ELSE jobs[j].result

Group(jobs, id) == {j \in DOMAIN jobs : Logical(j) = id}

(* workflowJobGroupResult: failure wins over cancelled over skipped.       *)
GroupResult(jobs, id) ==
    LET R == {Effective(jobs, j) : j \in Group(jobs, id)} IN
    IF "failure" \in R THEN "failure"
    ELSE IF "none" \in R THEN "none"
    ELSE IF "cancelled" \in R THEN "cancelled"
    ELSE IF "skipped" \in R THEN "skipped"
    ELSE "success"

NeedsContext(jobs, id) == [d \in wf.needs[id] |-> GroupResult(jobs, d)]

ReachedDirectly(jobs, id) == wf.needs[id]

(* workflowJobAncestorStatus: the walk goes from a group to the needs of   *)
(* its jobs, so it ends at a group without jobs.                           *)
Reached(jobs, id) ==
    {d \in Ids : \A S \in SUBSET Ids :
        /\ wf.needs[id] \subseteq S
        /\ \A x \in S : Group(jobs, x) # {} => wf.needs[x] \subseteq S
        => d \in S}

AncestorStatus(jobs, id, cancel) ==
    LET R == {Effective(jobs, j) : j \in UNION {Group(jobs, d) : d \in Reached(jobs, id)}} IN
    [success   |-> ~cancel /\ R \cap {"failure", "cancelled", "skipped"} = {},
     failure   |-> "failure" \in R,
     cancelled |-> cancel \/ "cancelled" \in R]

(* EvaluateJobCondition over the conditions the model has: no condition or *)
(* one without a status function demands success().                        *)
Runnable(jobs, id, cancel) ==
    LET s == AncestorStatus(jobs, id, cancel) IN
    CASE wf.cond[id] = "always"    -> TRUE
      [] wf.cond[id] = "failure"   -> s.failure
      [] wf.cond[id] = "cancelled" -> s.cancelled
      [] OTHER                     -> s.success

Broken(id) == wf.cond[id] = "broken"

(* workflowJobReady: a job that waits for nothing is ready as created.     *)
Ready(jobs, j) ==
    \/ jobs[j].ready = "true"
    \/ Logical(j) \notin wf.gated /\ wf.needs[Logical(j)] = {} /\ wf.cond[Logical(j)] = "none"

-----------------------------------------------------------------------------
Init ==
    /\ wf \in Workflows
    /\ run = [cancel |-> FALSE, approved |-> FALSE, recorded |-> FALSE,
              planned |-> "new", result |-> "none"]
    /\ rcache = run
    /\ job = <<>> /\ plan = {} /\ needs = <<>> /\ work = {} /\ newer = FALSE /\ gone = {}
    /\ pc = "idle" /\ rc = run /\ snap = <<>> /\ todo = <<>> /\ goal = "idle"
    /\ visit = {} /\ pend = {} /\ expd = {} /\ faults = 0

EndPass == pc' = "idle" /\ snap' = <<>> /\ todo' = <<>> /\ goal' = "idle" /\ visit' = {} /\ pend' = {} /\ expd' = {} /\ UNCHANGED rc

(* Status().Update of the run: refused when the run has changed.           *)
UpdateRun(new) == IF run = rc THEN run' = new ELSE UNCHANGED run

CurrentIfExists(j) == j \in DOMAIN job

(* Status().Update of a job: refused when the job has changed or is gone.  *)
Current(j) == j \in DOMAIN job /\ job[j] = snap[j]

(* completeUnscheduledWorkflowJob                                          *)
Completed(r, result, reason) ==
    [r EXCEPT !.result = result, !.ready = "false", !.reason = reason]

-----------------------------------------------------------------------------
(* reconcileWorkflowRun                                                    *)

CancelledBeforeConcurrency == rc.cancel /\ rc.planned = "waiting"

(* A run that is planned, or cancelled while it waits, is observed; one    *)
(* that waits asks the gate again; every other one is planned.             *)
StartPass ==
    /\ pc = "idle" /\ rcache.result = "none"
    /\ rc' = rcache
    /\ pc' = CASE rcache.planned = "true" -> "list"
               [] rcache.planned = "waiting" -> IF rcache.cancel THEN "list" ELSE "gate"
               [] OTHER -> "approval"
    /\ UNCHANGED <<store, run, rcache, snap, todo, goal, visit, pend, expd, faults>>

(* completeUnplannedWorkflowRun                                            *)
CompleteUnplanned(result) ==
    /\ UpdateRun([rc EXCEPT !.planned = "false", !.result = result])
    /\ EndPass /\ UNCHANGED <<store, rcache, faults>>

(* A pull request run that needs approval: cancelled, replaced by a newer  *)
(* revision, waiting, or approved and not yet recorded.                    *)
Approval ==
    /\ pc = "approval"
    /\ \/ wf.approval /\ rc.cancel /\ CompleteUnplanned("cancelled")
       \/ wf.approval /\ ~rc.cancel /\ newer /\ CompleteUnplanned("superseded")
       \/ /\ wf.approval /\ ~rc.cancel /\ ~newer /\ ~rc.approved
          /\ UpdateRun([rc EXCEPT !.planned = "awaiting"])
          /\ EndPass /\ UNCHANGED <<store, rcache, faults>>
       \/ /\ wf.approval /\ ~rc.cancel /\ ~newer /\ rc.approved /\ ~rc.recorded
          /\ UpdateRun([rc EXCEPT !.recorded = TRUE])
          /\ EndPass /\ UNCHANGED <<store, rcache, faults>>
       \/ /\ wf.approval => ~rc.cancel /\ ~newer /\ rc.recorded
          /\ pc' = "plan"
          /\ UNCHANGED <<store, run, rcache, rc, snap, todo, goal, visit, pend, expd, faults>>

Creation(S) ==
    LET s == Sorted(S) IN
    [i \in 1..(2 * Len(s)) |-> <<IF i % 2 = 1 THEN "create" ELSE "plan", s[(i + 1) \div 2]>>]

(* planWorkflowJobs, ensureWorkflowPlan and ensureWorkflowJobs: every job  *)
(* whose planning does not use needs is created with its plan.             *)
PlanRun ==
    /\ pc = "plan"
    /\ todo' = Creation(UNION {Expanded(id) : id \in Ids \ wf.deferred})
    /\ goal' = "gate" /\ pc' = "write"
    /\ UNCHANGED <<store, run, rcache, rc, snap, visit, pend, expd, faults>>

(* planningFailed with a terminal disposition.                             *)
FailPlanning ==
    /\ UpdateRun([rc EXCEPT !.planned = "false", !.result = "invalid"])
    /\ EndPass /\ UNCHANGED <<store, rcache, faults>>

(* The Project or the file is gone, a merge has conflicts, the workflow or *)
(* its trigger is invalid.  Failures to retry are Abort.                   *)
PlanningFailed == pc = "plan" /\ wf.mayFail /\ FailPlanning

(* handleConcurrency: the outcome is ConcurrencyGate's.                    *)
HandleConcurrency ==
    /\ pc = "gate"
    /\ \/ /\ pc' = "list" /\ UNCHANGED <<run, rc, snap, todo, goal, visit, pend, expd>>
       \/ /\ wf.runGate /\ rc.planned # "true"
          /\ UpdateRun([rc EXCEPT !.planned = "waiting"]) /\ EndPass
       \/ /\ wf.runGate /\ rc.planned = "waiting"
          /\ UpdateRun([rc EXCEPT !.cancel = TRUE]) /\ EndPass
    /\ UNCHANGED <<store, rcache, faults>>

-----------------------------------------------------------------------------
(* The writes of a reconcile that are known in advance: one call a step.   *)
Advance ==
    /\ todo' = Tail(todo)
    /\ pc' = IF Len(todo) = 1 THEN goal ELSE "write"
    /\ UNCHANGED <<rc, goal, visit, pend, expd>>

With(f, j, value) == [k \in DOMAIN f \cup {j} |-> IF k = j THEN value ELSE f[k]]

Refused == EndPass /\ UNCHANGED <<job, plan, needs>>

(* ensureWorkflowJobs and completeDeferredJobResult: what exists already   *)
(* is taken over if it matches; a result placeholder matches no planned    *)
(* job and is not replaced.                                                *)
CreateJob(j, placeholder) ==
    IF j \in DOMAIN job /\ job[j].placeholder # placeholder THEN Refused
    ELSE /\ job' = IF j \in DOMAIN job THEN job ELSE With(job, j, NewJob(placeholder))
         /\ snap' = With(snap, j, job'[j])
         /\ Advance /\ UNCHANGED <<plan, needs>>

(* ensurePlanConfigMap                                                     *)
CreatePlan(j) == plan' = plan \cup {j} /\ Advance /\ UNCHANGED <<job, needs, snap>>

(* ensureNeedsContextConfigMap: immutable; a snapshot that differs from    *)
(* what is found now fails the job.                                        *)
CreateNeeds(j) ==
    LET context == NeedsContext(snap, Logical(j)) IN
    /\ needs' = IF j \in DOMAIN needs THEN needs ELSE With(needs, j, context)
    /\ IF needs'[j] = context THEN Advance
       ELSE todo' = <<<<"failure", j, "PlanUnavailable">>>> /\ UNCHANGED <<pc, rc, goal, visit, pend, expd>>
    /\ UNCHANGED <<job, plan, snap>>

(* A status update: nothing is sent when nothing changes.                  *)
UpdateJob(j, new) ==
    IF new = snap[j] THEN Advance /\ UNCHANGED <<job, plan, needs, snap>>
    ELSE IF ~Current(j) THEN Refused
    ELSE /\ job' = [job EXCEPT ![j] = new]
         /\ snap' = [snap EXCEPT ![j] = new]
         /\ Advance /\ UNCHANGED <<plan, needs>>

Complete(j, result, reason) ==
    UpdateJob(j, IF Terminal(snap[j]) THEN snap[j] ELSE Completed(snap[j], result, reason))

Write ==
    /\ pc = "write" /\ todo # <<>>
    /\ LET call == Head(todo)
           j    == call[2]
       IN  \/ call[1] = "create"  /\ CreateJob(j, FALSE)
           \/ call[1] = "reserve" /\ CreateJob(j, TRUE)
           \/ call[1] = "plan"    /\ CreatePlan(j)
           \/ call[1] = "needs"   /\ CreateNeeds(j)
           \/ call[1] = "ready"   /\ UpdateJob(j, [snap[j] EXCEPT !.ready = call[3]])
           \/ call[1] = "stop"    /\ UpdateJob(j, [snap[j] EXCEPT !.stop = call[3]])
           \/ call[1] = "error"   /\ Refused
           \/ call[1] \in Results /\ Complete(j, call[1], call[3])
    /\ UNCHANGED <<wf, run, rcache, work, newer, gone, faults>>

Then(calls, next) ==
    /\ todo' = calls /\ goal' = next
    /\ pc' = IF calls = <<>> THEN next ELSE "write"

(* The jobs that must exist whatever the deferred jobs become.             *)
ExpectedAtFirst == UNION {Expanded(id) : id \in Ids \ wf.deferred}

(* observeWorkflowJobs: one live list; a run cancelled before it was       *)
(* admitted completes every job first.                                     *)
ListJobs ==
    /\ pc = "list"
    /\ snap' = job
    /\ LET open == Sorted({j \in DOMAIN job : ~Terminal(job[j])}) IN
       Then(IF CancelledBeforeConcurrency
            THEN [i \in DOMAIN open |-> <<"cancelled", open[i], "cancel">>] ELSE <<>>, "deferred")
    /\ visit' = wf.deferred
    /\ pend' = {}
    /\ expd' = ExpectedAtFirst
    /\ UNCHANGED <<store, run, rcache, rc, faults>>

-----------------------------------------------------------------------------
(* reconcileDeferredJobs                                                   *)

(* deferredWorkflowJobGraph: a deferred job stands for itself until all    *)
(* its combinations exist or its placeholder has a result.                 *)
Whole(id) ==
    LET G == Group(snap, id) IN
    \/ <<id, 0>> \in G /\ Terminal(snap[<<id, 0>>])
    \/ Cardinality(G) = IF \E j \in G : j[2] > 0 THEN wf.width[id] ELSE 1

DependenciesDone(id) ==
    \A d \in wf.needs[id] :
        /\ d \in wf.deferred => Whole(d)
        /\ Group(snap, d) # {} /\ \A j \in Group(snap, d) : Terminal(snap[j])

Planned(id) == \E j \in Group(snap, id) : ~snap[j].placeholder

(* The jobs that stand for id in the end are there and have results.       *)
Settled(id) ==
    LET G == Group(snap, id) IN
    IF <<id, 0>> \in G /\ Terminal(snap[<<id, 0>>]) THEN {<<id, 0>>}
    ELSE IF G # {} /\ First(G)[2] > 0 /\ Cardinality(G) = wf.width[id] /\ \A j \in G : Terminal(snap[j]) THEN G
    ELSE {}

(* completeDeferredJobPlanning: a placeholder with the result.             *)
Conclude(id, result, reason) ==
    /\ Then(<<<<"reserve", <<id, 0>>>>, <<result, <<id, 0>>, reason>>>>, "idle")
    /\ UNCHANGED <<pend, expd>>

(* A job whose dependencies are done: its condition, its matrix and the    *)
(* creation of its combinations, or a result instead.  When jobs were      *)
(* missing the reconcile ends and is repeated.                             *)
MayRun(id) == Planned(id) \/ (~Broken(id) /\ Runnable(snap, id, rc.cancel))

PlanDeferred(id) ==
    \/ ~MayRun(id) /\ Broken(id) /\ Conclude(id, "failure", "condition")
    \/ ~MayRun(id) /\ ~Broken(id) /\ rc.cancel /\ Conclude(id, "cancelled", "cancel")
    \/ ~MayRun(id) /\ ~Broken(id) /\ ~rc.cancel /\ Conclude(id, "skipped", "condition")
    \/ MayRun(id) /\ id \in wf.unplannable /\ Conclude(id, "failure", "planning")
    \/ /\ MayRun(id) /\ id \notin wf.unplannable
       /\ expd' = expd \cup Expanded(id)
       /\ Then(Creation(Expanded(id)), IF Expanded(id) \subseteq DOMAIN snap THEN "deferred" ELSE "idle")
       /\ UNCHANGED pend

ReconcileDeferred ==
    /\ pc = "deferred" /\ visit # {}
    /\ LET id == Logical(First({<<i, 0>> : i \in visit})) IN
       /\ visit' = visit \ {id}
       /\ IF Settled(id) # {} THEN expd' = expd \cup Settled(id) /\ UNCHANGED <<pc, todo, goal, pend>>
          ELSE IF CancelledBeforeConcurrency THEN Conclude(id, "cancelled", "cancel")
          ELSE IF ~DependenciesDone(id) THEN pend' = pend \cup {id} /\ UNCHANGED <<pc, todo, goal, expd>>
          ELSE PlanDeferred(id)
    /\ UNCHANGED <<store, run, rcache, rc, snap, faults>>

(* reconcileMatrixFailFast: after a failure of a combination the others    *)
(* are cancelled: at once if no Runner has them, else by a request.        *)
MatrixFailed(jobs, id) ==
    id \in wf.failFast /\ \E j \in Group(jobs, id) : j[2] > 0 /\ Effective(jobs, j) = "failure"

FailFast ==
    /\ pc = "deferred" /\ visit = {}
    /\ LET open == Sorted({j \in DOMAIN snap : j[2] > 0 /\ ~Terminal(snap[j]) /\ MatrixFailed(snap, Logical(j))})
       IN  Then([i \in DOMAIN open |-> IF snap[open[i]].runner
                                       THEN <<"stop", open[i], "failfast">>
                                       ELSE <<"cancelled", open[i], "failfast">>],
                "graph")
    /\ visit' = IF Cardinality(DOMAIN snap) = Cardinality(expd) THEN DOMAIN snap ELSE {}
    /\ UNCHANGED <<store, run, rcache, rc, snap, pend, expd, faults>>

-----------------------------------------------------------------------------
(* reconcileWorkflowJobGraphWithDependencies                               *)

(* reconcileAssignedWorkflowJobCancellation                                *)
StopRequest(j) ==
    IF ~Broken(Logical(j)) /\ Runnable(snap, Logical(j), TRUE) THEN "no" ELSE "cancel"

GateOutcomes(j) == IF Logical(j) \in wf.gated THEN {"acquired", "waiting", "superseded"} ELSE {"acquired"}

AdmissionWithoutSkip(j, outcome) == <<<<"ready", j, IF Runnable(snap, Logical(j), rc.cancel) THEN "true" ELSE "unknown">>>>

(* The calls for a job whose dependencies have results.                    *)
Admission(j, outcome) ==
    LET id == Logical(j) IN
    CASE Broken(id) -> <<<<"failure", j, "condition">>>>
      [] ~Broken(id) /\ ~Runnable(snap, id, rc.cancel) ->
           IF rc.cancel THEN <<<<"cancelled", j, "cancel">>>> ELSE <<<<"skipped", j, "condition">>>>
      [] OTHER ->
           (IF wf.needs[id] = {} THEN <<>> ELSE <<<<"needs", j>>>>)
             \o CASE outcome = "acquired"   -> <<<<"ready", j, "true">>>>
                  [] outcome = "waiting"    -> <<<<"ready", j, "unknown">>>>
                  [] outcome = "superseded" -> <<<<"cancelled", j, "superseded">>>>

GraphCallsUnordered(j, outcome) ==
    IF Terminal(snap[j]) \/ snap[j].runner THEN <<>> ELSE Admission(j, outcome)

GraphCalls(j, outcome) ==
    CASE Terminal(snap[j]) -> <<>>
      [] ~Terminal(snap[j]) /\ snap[j].runner ->
           IF rc.cancel THEN <<<<"stop", j, StopRequest(j)>>>> ELSE <<>>
      [] ~Terminal(snap[j]) /\ ~snap[j].runner /\ snap[j].ready = "true" /\ ~rc.cancel -> <<>>
      [] OTHER ->
           IF \E d \in wf.needs[Logical(j)] \ pend : Group(snap, d) = {} THEN <<<<"error", j>>>>
           ELSE IF \E d \in wf.needs[Logical(j)] : d \in pend \/ \E k \in Group(snap, d) : ~Terminal(snap[k])
           THEN <<<<"ready", j, "unknown">>>>
           ELSE Admission(j, outcome)

(* One job after the other, in the order of the list.                      *)
Graph ==
    /\ pc = "graph" /\ visit # {}
    /\ LET j == First(visit) IN
       /\ visit' = visit \ {j}
       /\ \E outcome \in GateOutcomes(j) : Then(GraphCalls(j, outcome), "graph")
    /\ UNCHANGED <<store, run, rcache, rc, snap, pend, expd, faults>>

-----------------------------------------------------------------------------
(* The end of observeWorkflowJobs                                          *)

(* A job is missing, or the plan of an unfinished one.                     *)
StateMissing ==
    \/ Cardinality(DOMAIN snap) # Cardinality(expd)
    \/ \E j \in DOMAIN snap : ~Terminal(snap[j]) /\ j \notin plan

Having(result) == {j \in DOMAIN snap : snap[j].result = result}

(* workflowJobCancelledByMatrixFailFast                                    *)
CancelledByFailFast(j) == snap[j].reason = "failfast" \/ snap[j].stop = "failfast"

Conclusion ==
    LET timedOut == {j \in Having("failure") : snap[j].timedOut} IN
    IF \E j \in Having("cancelled") : ~CancelledByFailFast(j) THEN "cancelled"
    ELSE IF Having("failure") # {} /\ rc.cancel THEN "cancelled"
    ELSE IF timedOut # {} THEN "timedout"
    ELSE IF \E j \in Having("failure") : Effective(snap, j) = "failure" THEN "failure"
    ELSE IF Having("cancelled") # {} THEN "cancelled"
    ELSE "success"

RunDone ==
    /\ pend = {} /\ ~StateMissing
    /\ \A j \in DOMAIN snap : Terminal(snap[j])
    /\ \A j \in DOMAIN snap \cap work : Logical(j) \notin wf.gated
    /\ Having("cancelled") # {} => work = {}

FinishPass ==
    /\ pc = "graph" /\ visit = {}
    /\ UpdateRun(CASE StateMissing /\ work = {} -> [rc EXCEPT !.planned = "false", !.result = "lost"]
                   [] RunDone -> [rc EXCEPT !.planned = "true", !.result = Conclusion]
                   [] OTHER -> [rc EXCEPT !.planned = "true"])
    /\ EndPass
    /\ UNCHANGED <<store, rcache, faults>>

-----------------------------------------------------------------------------
(* A call fails or the controller ends: the next reconcile starts anew.    *)
Abort ==
    /\ pc # "idle" /\ faults < MaxFaults
    /\ faults' = faults + 1
    /\ EndPass /\ UNCHANGED <<store, run, rcache>>

Sync == rcache # run /\ rcache' = run /\ UNCHANGED <<store, run, local, faults>>

Cancel ==
    /\ run.result = "none" /\ ~run.cancel
    /\ run' = [run EXCEPT !.cancel = TRUE]
    /\ UNCHANGED <<store, rcache, local, faults>>

Approve ==
    /\ wf.approval /\ run.result = "none" /\ ~run.approved
    /\ run' = [run EXCEPT !.approved = TRUE]
    /\ UNCHANGED <<store, rcache, local, faults>>

NewRevision ==
    /\ wf.approval /\ ~newer /\ newer' = TRUE
    /\ UNCHANGED <<wf, run, rcache, job, plan, needs, work, gone, local, faults>>

(* claimWorkflowJob and executeWorkflowJob (see RunnerAssignment): only    *)
(* jobs of a run that is planned in the API server; no Runner has the      *)
(* label of a placeholder.                                                 *)
Assign(j) ==
    /\ run.planned = "true"
    /\ j \in DOMAIN job /\ ~Terminal(job[j]) /\ ~job[j].runner /\ ~job[j].placeholder
    /\ Ready(job, j) /\ ~MatrixFailed(job, Logical(j))
    /\ job' = [job EXCEPT ![j].runner = TRUE]
    /\ work' = work \cup {j}
    /\ UNCHANGED <<wf, run, rcache, plan, needs, newer, gone, local, faults>>

(* The native Job ends, or a requested cancellation removes it: then the   *)
(* Pod may outlive the result.                                             *)
Finish(j) ==
    /\ j \in DOMAIN job /\ job[j].runner /\ ~Terminal(job[j])
    /\ \/ /\ \E r \in wf.outcomes :
               job' = [job EXCEPT ![j].result = IF r = "timeout" THEN "failure" ELSE r, ![j].timedOut = (r = "timeout")]
          /\ work' = work \ {j}
       \/ /\ job[j].stop # "no"
          /\ job' = [job EXCEPT ![j].result = "cancelled"]
          /\ UNCHANGED work
    /\ UNCHANGED <<wf, run, rcache, plan, needs, newer, gone, local, faults>>

StopPod(j) ==
    /\ j \in work /\ (j \in DOMAIN job => Terminal(job[j]))
    /\ work' = work \ {j}
    /\ UNCHANGED <<wf, run, rcache, job, plan, needs, newer, gone, local, faults>>

(* Somebody deletes a WorkflowJob; its ConfigMaps go with it.              *)
DeleteJob(j) ==
    /\ j \in DOMAIN job /\ Logical(j) \in wf.deletable /\ faults < MaxFaults
    /\ faults' = faults + 1
    /\ job' = [k \in DOMAIN job \ {j} |-> job[k]]
    /\ plan' = plan \ {j}
    /\ needs' = [k \in DOMAIN needs \ {j} |-> needs[k]]
    /\ gone' = gone \cup {j}
    /\ UNCHANGED <<wf, run, rcache, work, newer, local>>

Step ==
    \/ Approval \/ PlanRun \/ PlanningFailed \/ HandleConcurrency \/ Write
    \/ ListJobs \/ ReconcileDeferred \/ FailFast \/ Graph \/ FinishPass

Environment ==
    \/ Sync \/ Cancel \/ Approve \/ NewRevision
    \/ \E j \in DefinedJobs(wf) : Assign(j) \/ Finish(j) \/ StopPod(j) \/ DeleteJob(j)

Next == StartPass \/ Step \/ Abort \/ Environment

Spec == Init /\ [][Next]_vars

(* Reconciles are requeued and go on, watches deliver, Runners take and    *)
(* finish what is ready, the gate admits in the end (ConcurrencyGate's     *)
(* WaitersProceed), and administrators answer.                             *)
Admitting == HandleConcurrency /\ pc' = "list"

AdmittingJob == Graph /\ \A i \in DOMAIN todo' : todo'[i][1] = "ready" => todo'[i][3] = "true"

Fairness ==
    /\ WF_vars(StartPass) /\ WF_vars(Step) /\ WF_vars(Sync) /\ WF_vars(Approve)
    /\ SF_vars(Admitting) /\ SF_vars(pc = "graph" /\ AdmittingJob)
    /\ \A j \in UNION {DefinedJobs(w) : w \in Workflows} :
         WF_vars(Assign(j)) /\ WF_vars(Finish(j)) /\ WF_vars(StopPod(j))

FairSpec == Spec /\ Fairness
-----------------------------------------------------------------------------
(* Properties.                                                             *)

(* The jobs that stand for id when it is finished: its combinations, or    *)
(* the placeholder that holds the result of a job never planned.           *)
Final(id) ==
    \/ /\ Expanded(id) \subseteq DOMAIN job
       /\ \A j \in Expanded(id) : Terminal(job[j])
    \/ <<id, 0>> \in DOMAIN job /\ job[<<id, 0>>].placeholder /\ Terminal(job[<<id, 0>>])

Admitted(j) == job[j].runner \/ job[j].ready = "true"

(* docs/reference.md "needs": no job is offered to a Runner before all     *)
(* combinations of everything it needs have results, although the list of  *)
(* jobs is old when the condition is written and a matrix may be created   *)
(* while its dependents are already there.                                 *)
RunsAfterNeeds ==
    gone = {} =>
        \A j \in DOMAIN job : Admitted(j) => \A d \in wf.needs[Logical(j)] : Final(d)

(* What needs reaches, by its definition.                                  *)
Ancestors(id) ==
    {d \in Ids : \A S \in SUBSET Ids :
        wf.needs[id] \subseteq S /\ (\A x \in S : wf.needs[x] \subseteq S) => d \in S}

(* workflowJobAncestorStatus and EvaluateJobCondition: the results that    *)
(* let a job run are still what they were.  A job without status function  *)
(* has only ancestors that succeeded, direct or not, and failure() has one *)
(* that failed.                                                            *)
ConditionJustified ==
    gone = {} =>
        \A j \in DOMAIN job : job[j].runner =>
            LET A == {k \in DOMAIN job : Logical(k) \in Ancestors(Logical(j))} IN
            /\ wf.cond[Logical(j)] = "none" => \A k \in A : Effective(job, k) = "success"
            /\ wf.cond[Logical(j)] = "failure" => \E k \in A : Effective(job, k) = "failure"

(* A result is final: a job or a run that has one keeps it, whichever of   *)
(* the controllers writes next from whatever copy.                         *)
ResultsStick ==
    /\ run.result # "none" => run'.result = run.result
    /\ \A j \in DOMAIN job \cap DOMAIN job' :
         Terminal(job[j]) => job'[j].result = job[j].result

(* observeWorkflowJobs: "ExecutionStateLost" is reported only when a       *)
(* WorkflowJob was really deleted, not because the controller failed       *)
(* halfway through creating the jobs of a deferred matrix.  One case the   *)
(* code misses: the result placeholder of a deferred job and combinations  *)
(* of its matrix both exist, because a later reconcile saw a cancellation  *)
(* that the one which failed halfway had not seen.                         *)
PlaceholderBesideJob ==
    \E j, k \in DOMAIN job : Logical(j) = Logical(k) /\ job[j].placeholder /\ ~job[k].placeholder

LostOnlyWhenDeleted == run.result = "lost" => gone # {} \/ PlaceholderBesideJob

(* The result of the run is the one its jobs add up to, computed from a    *)
(* list and copies that are old when it is written.                        *)
ConclusionFits ==
    run.result # "none" /\ run.planned = "true" /\ gone = {} =>
        LET E == {Effective(job, j) : j \in DOMAIN job} IN
        /\ \A id \in Ids : Final(id)
        /\ work = {} \/ "cancelled" \notin E
        /\ run.result = "success" => E \subseteq {"success", "skipped"}
        /\ run.result \in {"failure", "timedout"} => "failure" \in E /\ ~run.cancel

(* Nothing is started for a run that has its result, although reconciles   *)
(* that began before still create and update jobs.                         *)
QuietAfterCompletion == run.result # "none" /\ gone = {} => work' \subseteq work

(* ensureNeedsContextConfigMap: the snapshot a job was given stays true,   *)
(* a later reconcile never finds different results.                        *)
NeedsSnapshotHolds == gone = {} => \A j \in DOMAIN job : job[j].reason # "PlanUnavailable"

(* The reconcile of a run and needs: nothing starts early, and what a job  *)
(* was told of the jobs it needs does not change afterwards.               *)
NeedsRespected == RunsAfterNeeds /\ NeedsSnapshotHolds

(* What a run and its jobs came to is justified by the results it was      *)
(* computed from, although lists and copies are old when it is written.    *)
OutcomeJustified == ConditionJustified /\ ConclusionFits /\ LostOnlyWhenDeleted

(* What is settled stays so, whichever reconcile comes late.               *)
SettledStays == [][ResultsStick /\ QuietAfterCompletion]_vars

(* Every run has a result in the end, although reconciles fail halfway,    *)
(* unless somebody deletes its jobs.                                       *)
RunCompletes == <>(run.result # "none" \/ gone # {})
=============================================================================
