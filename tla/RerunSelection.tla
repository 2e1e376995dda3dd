--------------------------- MODULE RerunSelection ---------------------------
(***************************************************************************)
(* Which jobs an attempt of a WorkflowRun executes, and whose results they *)
(* depend on: the selections the console offers (internal/workflowrun/     *)
(* rerun.go, internal/console/handler.go), the plan the controller makes   *)
(* of a selection and the prerequisites it takes from earlier attempts     *)
(* (internal/controller/workflowrun_rerun.go, workflowrun_controller.go).  *)
(*                                                                         *)
(* An expanded job's ID is <<logical job, i>>: i = 0 for a job without     *)
(* matrix and for the placeholder that records the result of a deferred    *)
(* job that was never expanded, else the combination's place.  A job also  *)
(* carries its attempt and the results it was run with, for the            *)
(* properties.                                                             *)
(***************************************************************************)
EXTENDS Naturals, Sequences, FiniteSets, TLC

CONSTANTS
    LogicalJobs,    \* the jobs of the workflow file
    Needs,          \* the jobs each of them needs
    Totals,         \* the sizes its matrix may expand to; {0} without matrix
    Deferred,       \* the jobs whose planning reads needs
    MaxAttempts,    \* bound on the attempts of a run
    MaxLost         \* bound on the attempts deleted by retention

VARIABLES
    lineage,        \* the attempts, oldest first
    lost            \* attempts that have been deleted

qvars == <<lineage, lost>>

Job(id, total, n, result) ==
    [id |-> id, total |-> total, attempt |-> n, result |-> result, saw |-> {}]

Logical(job) == job.id[1]
Ended(job)   == job.result # "none"
Group(jobs, l) == {j \in jobs : Logical(j) = l}
IDs(jobs) == {j.id : j \in jobs}

Latest == Len(lineage)
Retained(k) == k \notin lost

-----------------------------------------------------------------------------
(* The jobs of a lineage that are still effective.                         *)

NoHistory == [ids |-> {}, logicals |-> {}, jobs |-> {}]

SupersededNever(h, j) == FALSE
Superseded(h, j) == j.id \in h.ids \/ Logical(j) \in h.logicals \/ <<Logical(j), 0>> \in h.ids

(* All the combinations of a matrix, or a job without one.                 *)
Whole(group) == \E j \in group : j.total = 0 \/ Cardinality(group) = j.total

(* JobHistory.Add, attempts newest first; the caller keeps them by ID.     *)
Add(h, selected, jobs) ==
    LET retained == {j \in jobs : ~Superseded(h, j)}
    IN [ids      |-> h.ids \cup IDs(jobs) \cup selected,
        logicals |-> h.logicals \cup {l \in LogicalJobs : Whole(Group(jobs, l))},
        jobs     |-> {j \in h.jobs : j.id \notin IDs(retained)} \cup retained]

(* h and then the attempts from n down to k.                               *)
Back(h, n, k) ==
    LET f[i \in k..(n + 1)] ==
          IF i = n + 1 THEN h ELSE Add(f[i + 1], lineage[i].selected, lineage[i].jobs)
    IN f[k]

-----------------------------------------------------------------------------
(* The selections of the console.                                          *)

(* jobIDsWithDependents: with the jobs of the lineage that need a selected *)
(* logical job, to a fixed point.                                          *)
WithDependents(jobs, ids) ==
    LET f[i \in 0..Cardinality(LogicalJobs)] ==
          IF i = 0 THEN ids
          ELSE LET reached == f[i - 1]
                   logical == {Logical(j) : j \in {x \in jobs : x.id \in reached}}
               IN reached \cup {j.id : j \in {x \in jobs : Needs[Logical(x)] \cap logical # {}}}
    IN f[Cardinality(LogicalJobs)]

(* FailedJobIDs: failures, and combinations that fail-fast cancelled.      *)
FailedJobIDs(jobs) ==
    WithDependents(jobs, IDs({j \in jobs : j.result \in {"failure", "failfast"}}))

(* effectiveWorkflowJobs goes back to the last attempt that ran all jobs.  *)
FullAttempt(n) == CHOOSE k \in 1..n :
    /\ lineage[k].selected = {}
    /\ \A i \in (k + 1)..n : lineage[i].selected # {}

CompleteHistory(n) == \A k \in FullAttempt(n)..n :
    Retained(k) /\ Cardinality(lineage[k].jobs) = lineage[k].counted

Effective(n) == Back(NoHistory, n, FullAttempt(n)).jobs

-----------------------------------------------------------------------------
(* The plan of an attempt.                                                 *)

(* The WorkflowJobs that planning makes without knowing any result.        *)
Static(l, n) ==
    IF Totals[l] = {0} THEN {Job(<<l, 0>>, 0, n, "none")}
    ELSE LET total == CHOOSE t \in Totals[l] : TRUE
         IN {Job(<<l, i>>, total, n, "none") : i \in 1..total}

Planned(n) == UNION {Static(l, n) : l \in LogicalJobs \ Deferred}

(* resolveRerunHistory: the attempts are read newest first, one more each  *)
(* time the resolution is not possible yet.                                *)
Reaches(n, k) == \A i \in k..(n - 1) : Retained(i)

SelectionResolved(n, k) ==
    LET history == Back(NoHistory, n - 1, k).jobs
    IN \A id \in lineage[n].selected :
         id \in IDs(Planned(n)) \/ \E j \in history : j.id = id /\ Logical(j) \in Deferred

ResolvedAt(resolved) ==
    {k \in resolved : \A i \in resolved : i <= k}

(* A deferred job is expanded again when one of its prerequisites runs     *)
(* again and all of its combinations are selected.                         *)
Reexpand(l, jobs, logicals) ==
    /\ Needs[l] \cap logicals # {}
    /\ \A j \in jobs : j.total = 0 \/ Cardinality(jobs) = j.total

(* selectRerunWorkflowPlan: for each deferred job of the attempt, the      *)
(* combinations it keeps; none means it is expanded.                       *)
SelectDeferred(n, history) ==
    LET selected == lineage[n].selected
        chosen(l) == {j \in Group(history, l) : j.id \in selected \ IDs(Planned(n))}
        logicals == {id[1] : id \in selected}
        kept(l) == IF Reexpand(l, chosen(l), logicals) THEN {}
                   ELSE {j \in chosen(l) : j.total # 0}
    IN [l \in {x \in Deferred : chosen(x) # {}} |->
          {Job(j.id, j.total, n, "none") : j \in kept(l)}]

Everything == [l \in Deferred |-> {}]

(* deferredWorkflowJobGraph: a job that is not expanded yet stands for its *)
(* combinations.                                                           *)
Reserved(jobs, deferred, l, n) ==
    LET group == Group(jobs, l)
    IN CASE \E j \in group : j.id = <<l, 0>> /\ Ended(j) -> {}
         [] deferred[l] # {} -> {j \in deferred[l] : j.id \notin IDs(jobs)}
         [] group # {} /\ Whole(group) -> {}
         [] OTHER -> {Job(<<l, 0>>, 0, n, "none")}

Graph(jobs, deferred, n) ==
    jobs \cup UNION {Reserved(jobs, deferred, l, n) : l \in DOMAIN deferred}

-----------------------------------------------------------------------------
(* The prerequisites taken from earlier attempts.                          *)

(* validateRerunDependencyGroup.                                           *)
GroupValid(group) ==
    /\ group # {}
    /\ \A j, k \in group : j.total = k.total
    /\ \A j \in group : Cardinality(group) = IF j.total = 0 THEN 1 ELSE j.total

(* Current jobs replace the historical ones with their ID.                 *)
Merged(current, history) == current \cup {j \in history : j.id \notin IDs(current)}

(* jobs, and those of all they need, directly or not.                      *)
WithPrerequisites(jobs, all) ==
    LET f[i \in 0..Cardinality(LogicalJobs)] ==
          IF i = 0 THEN jobs
          ELSE LET reached == f[i - 1]
                   needed == UNION {Needs[Logical(x)] : x \in reached}
               IN reached \cup {j \in all : Logical(j) \in needed}
    IN f[Cardinality(LogicalJobs)]

Visited(current, history) ==
    WithPrerequisites({j \in current : ~Ended(j)}, Merged(current, history))

(* resolvedRerunDependencyWorkflowJobs succeeds.                           *)
DependenciesFound(current, history) ==
    LET all == Merged(current, history)
        needed == UNION {Needs[Logical(j)] : j \in Visited(current, history)}
    IN \A l \in needed : /\ GroupValid(Group(all, l))
                         /\ \A d \in Group(all, l) \ current : Ended(d)

HistoryFor(n, current, k) ==
    Back(Add(NoHistory, lineage[n].selected, current), n - 1, k).jobs \ current

(* rerunDependencyWorkflowJobs; a full attempt has no historical jobs.     *)
Dependencies(n, current) ==
    IF lineage[n].selected = {} THEN [found |-> TRUE, jobs |-> {}]
    ELSE LET at == ResolvedAt({k \in 1..n : Reaches(n, k) /\ DependenciesFound(current, IF k = n THEN {} ELSE HistoryFor(n, current, k))})
         IN IF at = {} THEN [found |-> FALSE, jobs |-> {}]
            ELSE LET k == CHOOSE x \in at : TRUE
                     history == IF k = n THEN {} ELSE HistoryFor(n, current, k)
                 IN [found |-> TRUE, jobs |-> Visited(current, history) \ current]

-----------------------------------------------------------------------------
Attempt(selected) ==
    [selected |-> selected, state |-> "new", deferred |-> Everything, jobs |-> {}, counted |-> 0]

SelectionInit == lineage = <<Attempt({})>> /\ lost = {}

(* The controller plans the latest attempt.                                *)
PlanAttempt ==
    LET n == Latest
        a == lineage[n]
        full == a.selected = {}
        at == IF full \/ Deferred = {} THEN {n} ELSE ResolvedAt({k \in 1..n : Reaches(n, k) /\ SelectionResolved(n, k)})
        unknown == Deferred = {} /\ ~(a.selected \subseteq IDs(Planned(n)))
        history == IF at = {} THEN {}
                   ELSE LET k == CHOOSE x \in at : TRUE
                        IN IF k = n THEN {} ELSE Back(NoHistory, n - 1, k).jobs
        deferred == IF full THEN Everything ELSE SelectDeferred(n, history)
        planned == {j \in Planned(n) : full \/ j.id \in a.selected}
        valid == at # {} /\ ~unknown /\ Dependencies(n, Graph(planned, deferred, n)).found
    IN /\ a.state = "new"
       /\ lineage' = [lineage EXCEPT ![n] =
            IF valid
            THEN [a EXCEPT !.state = "running", !.jobs = planned, !.deferred = deferred,
                           !.counted = Cardinality(planned) + Cardinality(DOMAIN deferred)]
            ELSE [a EXCEPT !.state = "invalid"]]
       /\ UNCHANGED lost

Current(n) == Graph(lineage[n].jobs, lineage[n].deferred, n)

Running(n) == lineage[n].state = "running"

HistoryFound(n) == Dependencies(n, Current(n)).found

(* The jobs that reconcile sees: those of the attempt and the historical.  *)
Seen(n) == Current(n) \cup Dependencies(n, Current(n)).jobs

NeededBy(seen, l) == UNION {Group(seen, d) : d \in Needs[l]}

(* The prerequisites of l have all ended.                                  *)
Ready(seen, l) ==
    /\ \A d \in Needs[l] : Group(seen, d) # {}
    /\ \A j \in NeededBy(seen, l) : Ended(j)

(* workflowJobAncestorStatus: the default condition success().             *)
Success(seen, l) ==
    \A j \in WithPrerequisites(NeededBy(seen, l), seen) : j.result = "success"

Saw(seen, l) == {<<j.id, j.attempt>> : j \in NeededBy(seen, l)}

(* reconcileDeferredJobs expands a deferred job once its needs have ended, *)
(* or records its result in placeholders.                                  *)
ExpandDeferred(l) ==
    LET n == Latest
        seen == Seen(n)
        kept == lineage[n].deferred[l]
        skipped == {[j EXCEPT !.result = "skipped"] :
                      j \in IF kept = {} THEN {Job(<<l, 0>>, 0, n, "none")} ELSE kept}
        expanded(total) == IF kept # {} THEN kept
                           ELSE IF total = 0 THEN {Job(<<l, 0>>, 0, n, "none")}
                           ELSE {Job(<<l, i>>, total, n, "none") : i \in 1..total}
    IN /\ Running(n) /\ HistoryFound(n)
       /\ l \in DOMAIN lineage[n].deferred
       /\ Group(lineage[n].jobs, l) = {}
       /\ Ready(seen, l)
       /\ \E jobs \in IF Success(seen, l) THEN {expanded(t) : t \in Totals[l]} ELSE {skipped} :
            lineage' = [lineage EXCEPT ![n].jobs =
              @ \cup {[j EXCEPT !.saw = Saw(seen, l)] : j \in jobs}]
       /\ UNCHANGED lost

(* A job of the attempt ends; the failure of a combination may cancel the  *)
(* unfinished others.                                                      *)
EndJob(j) ==
    LET n == Latest
        seen == Seen(n)
        others == {x \in Group(lineage[n].jobs, Logical(j)) \ {j} : ~Ended(x)}
        end(x, result) == [x EXCEPT !.result = result, !.saw = Saw(seen, Logical(j))]
    IN /\ Running(n) /\ HistoryFound(n)
       /\ ~Ended(j)
       /\ Ready(seen, Logical(j))
       /\ \E result \in IF Success(seen, Logical(j)) THEN {"success", "failure"} ELSE {"skipped"} :
            LET stopped == IF result = "failure" THEN others ELSE {}
            IN lineage' = [lineage EXCEPT ![n].jobs =
                 (@ \ ({j} \cup stopped)) \cup {end(j, result)}
                    \cup {end(x, "failfast") : x \in stopped}]
       /\ UNCHANGED lost

(* The attempt completes, its history is lost meanwhile, or it goes on.    *)
CompleteAttempt ==
    LET n == Latest
        a == lineage[n]
        whole == /\ \A j \in a.jobs : Ended(j)
                 /\ \A l \in DOMAIN a.deferred : Group(a.jobs, l) # {}
        state == IF ~HistoryFound(n) THEN "stateLost"
                 ELSE IF \E j \in a.jobs : j.result = "failure" THEN "failed" ELSE "succeeded"
    IN /\ Running(n)
       /\ whole \/ state = "stateLost"
       /\ lineage' = [lineage EXCEPT ![n].state = state,
                                     ![n].counted = IF whole THEN Cardinality(a.jobs) ELSE @]
       /\ UNCHANGED lost

-----------------------------------------------------------------------------
(* rerunWorkflow of the console.                                           *)

Rerun(selected) ==
    /\ Latest < MaxAttempts
    /\ lineage[Latest].state \in {"failed", "succeeded", "stateLost"}
    /\ lineage' = Append(lineage, Attempt(selected))
    /\ UNCHANGED lost

RerunAll == Rerun({})

RerunFailed ==
    /\ lineage[Latest].state = "failed"
    /\ Rerun(FailedJobIDs(lineage[Latest].jobs))

RerunSelected(j) ==
    /\ CompleteHistory(Latest)
    /\ j \in Effective(Latest)
    /\ Rerun(WithDependents(Effective(Latest), {j.id}))

(* Retention deletes an attempt that is not the latest one.                *)
LoseAttempt(k) ==
    /\ Cardinality(lost) < MaxLost
    /\ k \in 1..(Latest - 1) /\ Retained(k)
    /\ lost' = lost \cup {k}
    /\ UNCHANGED lineage

SelectionNext ==
    \/ PlanAttempt
    \/ \E l \in Deferred : ExpandDeferred(l)
    \/ \E j \in lineage[Latest].jobs : EndJob(j)
    \/ CompleteAttempt
    \/ RerunAll
    \/ RerunFailed
    \/ \E k \in 1..Latest : \E j \in lineage[k].jobs : RerunSelected(j)
    \/ \E k \in 1..MaxAttempts : LoseAttempt(k)

-----------------------------------------------------------------------------
(* The result of a prerequisite is its newest: no later attempt, the job's *)
(* own included, selected that prerequisite, ran it, or expanded its       *)
(* matrix anew (workflowrun_rerun.go:177, rerun.go:198).                   *)
NewestResultsUsed ==
    \A n \in 1..Latest : \A j \in lineage[n].jobs : \A s \in j.saw :
        \A i \in (s[2] + 1)..n :
            /\ s[1] \notin lineage[i].selected
            /\ s[1] \notin IDs(lineage[i].jobs)
            /\ ~Whole(Group(lineage[i].jobs, s[1][1]))

(* An attempt executes what was selected: a job it did not select belongs  *)
(* to a matrix all of whose earlier combinations were selected.            *)
SelectionRespected ==
    \A n \in 2..Latest : lineage[n].selected # {} =>
        \A j \in lineage[n].jobs : j.id \notin lineage[n].selected =>
            /\ Logical(j) \in Deferred
            /\ \A x \in Effective(n - 1) :
                 Logical(x) = Logical(j) => x.id \in lineage[n].selected

(* What the console offers can be planned: an attempt is rejected, or      *)
(* loses its state, only when an earlier attempt was deleted.              *)
OfferedIsPlannable ==
    \A n \in 1..Latest : lineage[n].state \in {"invalid", "stateLost"} => lost # {}
=============================================================================
