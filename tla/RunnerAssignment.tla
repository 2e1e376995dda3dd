-------------------------- MODULE RunnerAssignment --------------------------
(***************************************************************************)
(* The Runner controller, internal/controller/runner_controller.go: a      *)
(* Runner claims a WorkflowJob, starts its native Job, follows it and lets *)
(* go of it.                                                               *)
(*                                                                         *)
(* The assignment is written in two objects, Runner.status.workflowJobRef  *)
(* and WorkflowJob.status.runnerRef, and what runs is a third one, the     *)
(* native Job.  One reconcile runs at a time; each of its calls on the API *)
(* server is one step, so that the WorkflowRun controller, users and       *)
(* Kubernetes act in between, a call may fail, and the answer of a call    *)
(* that succeeded may be lost.  Runners are read through the informer      *)
(* cache, and so are the lists of jobs.                                    *)
(***************************************************************************)
EXTENDS Naturals, FiniteSets

CONSTANTS
    Runners,        \* Runners of the Project
    Jobs,           \* WorkflowJobs, the combinations of one matrix
    Order,          \* place of each job by creation time, then name
    MaxParallel,    \* strategy.max-parallel of the matrix; 0 is no limit
    FailFast,       \* strategy.fail-fast of the matrix
    MaxIncidents,   \* bound on failures, cancellations and deletions
    MaxLostReplies, \* bound on those that are assignments with a lost answer
    None

ASSUME NoneAssumption == None \notin Runners \cup Jobs
ASSUME OrderAssumption == Order \in [Jobs -> Nat]
ASSUME BoundsAssumption ==
    /\ MaxParallel \in Nat /\ FailFast \in BOOLEAN
    /\ MaxIncidents \in Nat /\ MaxLostReplies \in Nat

VARIABLES
    runner,    \* the Runner objects
    job,       \* the WorkflowJob objects
    native,    \* the native Jobs
    pods,      \* the jobs that have a Pod that has not ended
    secret,    \* the jobs that have an authentication Secret
    rcache,    \* the informer's copies: of Runners,
    rcurrent,  \* ... which of them are the stored version,
    jcache,    \* ... of WorkflowJobs,
    ncache,    \* ... of native Jobs
    pc,        \* next call of the reconcile
    rn, rcopy, rfresh, \* its Runner, the copy, whether it is the stored version
    jb, jcopy, \* its WorkflowJob and the copy
    verdict,   \* the result to record
    incidents, lostReplies

cluster == <<runner, job, native, pods, secret>>
caches  == <<rcache, rcurrent, jcache, ncache>>
locals  == <<rn, rcopy, rfresh, jb, jcopy, verdict>>
history == <<incidents, lostReplies>>
vars == <<cluster, caches, pc, locals, history>>

-----------------------------------------------------------------------------
(* Objects.                                                                *)

(* A Runner that is being deleted stays until the reconcile removes its    *)
(* finalizer.                                                              *)
Runner == [life : {"active", "deleting", "gone"}, ref : Jobs \cup {None}]

(* "over" is success or cancelled: the controller treats them alike.       *)
Result == {"none", "failure", "over"}

(* launched: the Succeeded condition is JobPending or JobRunning, or there *)
(* is a start time; cancel: CancellationRequested.                         *)
Job == [exists : BOOLEAN, runner : Runners \cup {None}, launched : BOOLEAN,
        cancel : BOOLEAN, result : Result]

NewRunner == [life |-> "active", ref |-> None]
NoRunner  == [life |-> "gone", ref |-> None]
NewJob == [exists |-> TRUE, runner |-> None, launched |-> FALSE,
           cancel |-> FALSE, result |-> "none"]
NoJob  == [NewJob EXCEPT !.exists = FALSE]

(* A completed native Job is retained; "none" once it is deleted.          *)
Native == {"none", "running", "ended"}

(* terminalWorkflowJob, negated.                                           *)
Unfinished(o) == o.exists /\ o.result = "none"

(* WorkflowJobs that a Runner is working on.                               *)
Assigned == {j \in Jobs : Unfinished(job[j]) /\ job[j].runner # None}

PC == {"idle", "getjob", "adopt", "clean", "clear", "unfinalize", "observe",
       "report", "remove", "complete", "check", "secret", "recheck", "create",
       "claim", "reserve", "assign", "release"}

TypeOK ==
    /\ runner \in [Runners -> Runner]
    /\ job \in [Jobs -> Job]
    /\ native \in [Jobs -> Native]
    /\ pods \subseteq Jobs
    /\ secret \subseteq Jobs
    /\ rcache \in [Runners -> Runner]
    /\ rcurrent \subseteq Runners
    /\ jcache \in [Jobs -> Job]
    /\ ncache \in [Jobs -> Native]
    /\ pc \in PC
    /\ rn \in Runners \cup {None}
    /\ rcopy \in Runner
    /\ rfresh \in BOOLEAN
    /\ jb \in Jobs \cup {None}
    /\ jcopy \in Job
    /\ verdict \in Result
    /\ incidents \in Nat
    /\ lostReplies \in Nat
    /\ pc # "idle" => rn \in Runners
    /\ pc \notin {"idle", "unfinalize", "claim"} => jb \in Jobs

Init ==
    /\ runner = [r \in Runners |-> NewRunner]
    /\ job = [j \in Jobs |-> NewJob]
    /\ native = [j \in Jobs |-> "none"]
    /\ pods = {}
    /\ secret = {}
    /\ rcache = runner
    /\ rcurrent = Runners
    /\ jcache = job
    /\ ncache = native
    /\ pc = "idle"
    /\ rn = None /\ rcopy = NoRunner /\ rfresh = FALSE
    /\ jb = None /\ jcopy = NoJob /\ verdict = "none"
    /\ incidents = 0 /\ lostReplies = 0

-----------------------------------------------------------------------------
(* Writes.                                                                 *)

EndReconcile ==
    /\ pc' = "idle"
    /\ rn' = None /\ rcopy' = NoRunner /\ rfresh' = FALSE
    /\ jb' = None /\ jcopy' = NoJob /\ verdict' = "none"

(* updateRunnerStatus and the removal of the finalizer: they succeed only  *)
(* if the copy is the stored version, and the copy becomes it.             *)
WriteRunner(new) ==
    /\ runner' = [runner EXCEPT ![rn] = new]
    /\ rcurrent' = rcurrent \ {rn}

(* Status().Update and Status().Patch with the optimistic lock: nothing    *)
(* that a job records is ever taken back, so equal copies are the same     *)
(* version.                                                                *)
JobUnchanged == job[jb] = jcopy
WriteJob(new) == job' = [job EXCEPT ![jb] = new]

-----------------------------------------------------------------------------
(* Reconcile up to the observation of the native Job.                      *)

(* assignedWorkflowJob: the job the Runner's copy refers to, or a job that *)
(* the cache shows as assigned to the Runner.                              *)
Listed(r) == {j \in Jobs : Unfinished(jcache[j]) /\ jcache[j].runner = r}

(* Mutant: a missing reference is followed.                                *)
ReconcileUnchecked(r) ==
    /\ pc = "idle"
    /\ rcache[r].life # "gone"
    /\ rn' = r /\ rcopy' = rcache[r] /\ rfresh' = (r \in rcurrent)
    /\ jb' = rcache[r].ref
    /\ pc' = "getjob"
    /\ UNCHANGED <<cluster, caches, jcopy, verdict, history>>

Reconcile(r) ==
    /\ pc = "idle"
    /\ rcache[r].life # "gone"
    /\ rn' = r /\ rcopy' = rcache[r] /\ rfresh' = (r \in rcurrent)
    /\ \/ /\ rcache[r].ref # None
          /\ jb' = rcache[r].ref
          /\ pc' = "getjob"
          /\ UNCHANGED jcopy
       \/ /\ rcache[r].ref = None
          /\ \E j \in Listed(r) : jb' = j /\ jcopy' = jcache[j]
          /\ pc' = "adopt"
       \/ /\ rcache[r].ref = None
          /\ Listed(r) = {}
          /\ pc' = IF rcache[r].life = "deleting" THEN "unfinalize" ELSE "claim"
          /\ UNCHANGED <<jb, jcopy>>
    /\ UNCHANGED <<cluster, caches, verdict, history>>

(* Mutant: a Runner that is being deleted lets go of its job.              *)
AfterGetUnlessDeleting(o) ==
    CASE Unfinished(o) /\ o.runner = rn /\ rcopy.life = "active" -> "observe"
      [] o.exists /\ o.result # "none"                      -> "clean"
      [] OTHER                                              -> "clear"

(* Mutant: the Secret of a finished job is taken as removed.               *)
AfterGetWithoutCleanup(o) == IF Unfinished(o) /\ o.runner = rn THEN "observe" ELSE "clear"

(* The reference is outdated if the job is gone, finished or not assigned  *)
(* to this Runner.                                                         *)
AfterGet(o) ==
    CASE Unfinished(o) /\ o.runner = rn -> "observe"
      [] o.exists /\ o.result # "none"  -> "clean"
      [] OTHER                          -> "clear"

(* The referenced job is read from the API server.                         *)
GetAssignedJob ==
    /\ pc = "getjob"
    /\ jcopy' = job[jb]
    /\ pc' = AfterGet(job[jb])
    /\ UNCHANGED <<cluster, caches, rn, rcopy, rfresh, jb, verdict, history>>

AdoptJob ==
    LET new == [rcopy EXCEPT !.ref = jb]
    IN  /\ pc = "adopt"
        /\ IF rfresh
           THEN /\ WriteRunner(new)
                /\ rcopy' = new
                /\ pc' = "observe"
                /\ UNCHANGED <<rn, rfresh, jb, jcopy, verdict>>
           ELSE /\ EndReconcile
                /\ UNCHANGED <<runner, rcurrent>>
        /\ UNCHANGED <<job, native, pods, secret, rcache, jcache, ncache, history>>

(* cleanupAuthSecret.                                                      *)
CleanupSecret ==
    /\ pc = "clean"
    /\ secret' = secret \ {jb}
    /\ pc' = "clear"
    /\ UNCHANGED <<runner, job, native, pods, caches, locals, history>>

(* updateRunnerStatus without a job.  A reconcile that found the reference *)
(* outdated goes on, one that has recorded a result is requeued.           *)
ClearReference ==
    LET new == [rcopy EXCEPT !.ref = None]
    IN  /\ pc = "clear"
        /\ IF rfresh THEN WriteRunner(new) ELSE UNCHANGED <<runner, rcurrent>>
        /\ IF rfresh /\ verdict = "none"
           THEN /\ rcopy' = new
                /\ pc' = IF new.life = "deleting" THEN "unfinalize" ELSE "claim"
                /\ UNCHANGED <<rn, rfresh, jb, jcopy, verdict>>
           ELSE EndReconcile
        /\ UNCHANGED <<job, native, pods, secret, rcache, jcache, ncache, history>>

RemoveFinalizer ==
    /\ pc = "unfinalize"
    /\ IF rfresh THEN WriteRunner(NoRunner) ELSE UNCHANGED <<runner, rcurrent>>
    /\ EndReconcile
    /\ UNCHANGED <<job, native, pods, secret, rcache, jcache, ncache, history>>

-----------------------------------------------------------------------------
(* Following the native Job.                                               *)

(* getNativeJob: the cache, and the API server if the cache has nothing.   *)
ReadNative(j) == IF ncache[j] # "none" THEN ncache[j] ELSE native[j]

(* updateWorkflowJobStatus: the runner's conclusion, a missed deadline or  *)
(* the condition of the native Job decides.                                *)
Verdicts(n) == IF n = "ended" THEN Result \ {"none"} ELSE {"none"}

ObserveNativeJob ==
    LET n == ReadNative(jb)
    IN  /\ pc = "observe"
        /\ verdict' \in Verdicts(n)
        /\ pc' = CASE n # "none"                  -> "report"
                   [] n = "none" /\ jcopy.cancel  -> "remove"
                   [] OTHER                       -> "check"
        /\ UNCHANGED <<cluster, caches, rn, rcopy, rfresh, jb, jcopy, history>>

ReportStatus ==
    LET new == IF verdict = "none" THEN [jcopy EXCEPT !.launched = TRUE]
                                   ELSE [jcopy EXCEPT !.result = verdict]
        next == CASE verdict # "none"                  -> "clean"
                  [] verdict = "none" /\ jcopy.cancel  -> "remove"
                  [] OTHER                             -> "idle"
    IN  /\ pc = "report"
        /\ IF new # jcopy /\ JobUnchanged THEN WriteJob(new) ELSE UNCHANGED job
        /\ IF (new # jcopy /\ ~JobUnchanged) \/ next = "idle"
           THEN EndReconcile
           ELSE /\ pc' = next
                /\ jcopy' = new
                /\ UNCHANGED <<rn, rcopy, rfresh, jb, verdict>>
        /\ UNCHANGED <<runner, native, pods, secret, caches, history>>

(* cancelWorkflowJob: the native Job is deleted in the background, its Pod *)
(* stops later.                                                            *)
RemoveNativeJob ==
    /\ pc = "remove"
    /\ native' = [native EXCEPT ![jb] = "none"]
    /\ verdict' = "over"
    /\ pc' = "complete"
    /\ UNCHANGED <<runner, job, pods, secret, caches, rn, rcopy, rfresh, jb, jcopy, history>>

(* completeAssignedWorkflowJob.  The cancellation of a deleted job goes on *)
(* with its Secret.                                                        *)
CompleteJob ==
    LET new == [jcopy EXCEPT !.result = verdict]
    IN  /\ pc = "complete"
        /\ IF JobUnchanged THEN WriteJob(new) ELSE UNCHANGED job
        /\ IF JobUnchanged \/ (verdict = "over" /\ ~job[jb].exists)
           THEN /\ pc' = "clean"
                /\ jcopy' = new
                /\ UNCHANGED <<rn, rcopy, rfresh, jb, verdict>>
           ELSE EndReconcile
        /\ UNCHANGED <<runner, native, pods, secret, caches, history>>

-----------------------------------------------------------------------------
(* executeWorkflowJob.                                                     *)

(* workflowJobCancellationRequested, from the API server.                  *)
CancellationRequested == ~job[jb].exists \/ job[jb].cancel

Fail == pc' = "complete" /\ verdict' = "failure"

(* The Runner is misconfigured, the plan is missing, permissions are       *)
(* refused, credentials expire too soon, or an error has lasted for        *)
(* jobStartTimeout (failExpiredPreStart).                                  *)
FailBeforeStart ==
    /\ pc = "check"
    /\ Fail
    /\ UNCHANGED <<cluster, caches, rn, rcopy, rfresh, jb, jcopy, history>>

(* An error that has not lasted so long: the reconcile is repeated.        *)
RetryBeforeStart ==
    /\ pc = "check"
    /\ EndReconcile
    /\ UNCHANGED <<cluster, caches, history>>

(* Mutant: a recorded launch is not looked at.                             *)
LaunchForgotten == FALSE

(* workflowJobLaunched.                                                    *)
Launched == jcopy.launched

(* Mutant: a Pod that has ended counts as active.                          *)
AnyPod == TRUE

(* activeWorkflowJobPods.                                                  *)
ActivePods == jb \in pods

(* A job that was launched and has no native Job any more is not started   *)
(* again.                                                                  *)
CheckBeforeStart ==
    /\ pc = "check"
    /\ CASE CancellationRequested ->
              pc' = "remove" /\ UNCHANGED locals
         [] ~CancellationRequested /\ Launched /\ ActivePods ->
              EndReconcile
         [] ~CancellationRequested /\ Launched /\ ~ActivePods ->
              Fail /\ UNCHANGED <<rn, rcopy, rfresh, jb, jcopy>>
         [] OTHER ->
              pc' = "secret" /\ UNCHANGED locals
    /\ UNCHANGED <<cluster, caches, history>>

(* ensureAuthSecret; the Secret belongs to the job and goes with it.       *)
EnsureSecret ==
    /\ pc = "secret"
    /\ secret' = IF job[jb].exists THEN secret \cup {jb} ELSE secret
    /\ pc' = "recheck"
    /\ UNCHANGED <<runner, job, native, pods, caches, locals, history>>

(* The last look at the cancellation before the native Job is created.     *)
RecheckCancellation ==
    /\ pc = "recheck"
    /\ pc' = IF CancellationRequested THEN "remove" ELSE "create"
    /\ UNCHANGED <<cluster, caches, locals, history>>

(* Building or creating the native Job fails: its Secret is removed, and   *)
(* the job fails if the Runner's configuration or the timeout says so.     *)
AbandonStart ==
    /\ pc \in {"recheck", "create"}
    /\ secret' = secret \ {jb}
    /\ \/ Fail /\ UNCHANGED <<rn, rcopy, rfresh, jb, jcopy>>
       \/ EndReconcile
    /\ UNCHANGED <<runner, job, native, pods, caches, history>>

(* createNativeJob: the name of the native Job is that of the WorkflowJob. *)
CreateNativeJob ==
    /\ pc = "create"
    /\ IF native[jb] = "none"
       THEN /\ native' = [native EXCEPT ![jb] = "running"]
            /\ pods' = pods \cup {jb}
            /\ pc' = "report"
       ELSE /\ pc' = "observe"
            /\ UNCHANGED <<native, pods>>
    /\ UNCHANGED <<runner, job, secret, caches, locals, history>>

-----------------------------------------------------------------------------
(* claimWorkflowJob.                                                       *)

Queued(o) == Unfinished(o) /\ o.runner = None

(* Mutants: the matrix is looked up in the informer's copies.              *)
MatrixFullInCache ==
    /\ MaxParallel > 0
    /\ Cardinality({j \in Jobs : Unfinished(jcache[j]) /\ jcache[j].runner # None}) >= MaxParallel
MatrixFailedInCache ==
    FailFast /\ \E j \in Jobs : jcache[j].exists /\ jcache[j].result = "failure"

(* matrixJobState looks at the API server, the queue is a cached index.    *)
MatrixFull   == MaxParallel > 0 /\ Cardinality(Assigned) >= MaxParallel
MatrixFailed == FailFast /\ \E j \in Jobs : job[j].exists /\ job[j].result = "failure"

Candidates == IF MatrixFull \/ MatrixFailed THEN {} ELSE {j \in Jobs : Queued(jcache[j])}

(* Mutant: the stored reference is not looked at again.                    *)
ClaimableIgnoringReference(r) == runner[r].life = "active"

Claimable(r) == runner[r].life = "active" /\ runner[r].ref = None

(* Nothing is claimed without a candidate, or while the Runner or its      *)
(* Project is not configured.                                              *)
ChooseJob ==
    /\ pc = "claim"
    /\ \/ EndReconcile
       \/ \E j \in Candidates :
            /\ \A k \in Candidates : Order[j] <= Order[k]
            /\ IF Queued(job[j]) /\ Claimable(rn)
               THEN /\ jb' = j /\ jcopy' = job[j]
                    /\ rcopy' = runner[rn] /\ rfresh' = TRUE
                    /\ pc' = "reserve"
                    /\ UNCHANGED <<rn, verdict>>
               ELSE EndReconcile
    /\ UNCHANGED <<cluster, caches, history>>

ReserveRunner ==
    LET new == [rcopy EXCEPT !.ref = jb]
    IN  /\ pc = "reserve"
        /\ IF rfresh
           THEN /\ WriteRunner(new)
                /\ rcopy' = new
                /\ pc' = "assign"
                /\ UNCHANGED <<rn, rfresh, jb, jcopy, verdict>>
           ELSE /\ EndReconcile
                /\ UNCHANGED <<runner, rcurrent>>
        /\ UNCHANGED <<job, native, pods, secret, rcache, jcache, ncache, history>>

AssignJob ==
    /\ pc = "assign"
    /\ IF JobUnchanged
       THEN WriteJob([jcopy EXCEPT !.runner = rn]) /\ EndReconcile
       ELSE pc' = "release" /\ UNCHANGED <<job, locals>>
    /\ UNCHANGED <<runner, native, pods, secret, caches, history>>

(* The assignment is stored, but the controller is told that it failed.    *)
AssignJobReplyLost ==
    /\ pc = "assign"
    /\ incidents < MaxIncidents /\ lostReplies < MaxLostReplies
    /\ JobUnchanged
    /\ WriteJob([jcopy EXCEPT !.runner = rn])
    /\ pc' = "release"
    /\ incidents' = incidents + 1 /\ lostReplies' = lostReplies + 1
    /\ UNCHANGED <<runner, native, pods, secret, caches, locals>>

(* releaseRunnerClaim.                                                     *)
ReleaseClaim ==
    /\ pc = "release"
    /\ IF runner[rn].ref = jb
       THEN WriteRunner([runner[rn] EXCEPT !.ref = None])
       ELSE UNCHANGED <<runner, rcurrent>>
    /\ EndReconcile
    /\ UNCHANGED <<job, native, pods, secret, rcache, jcache, ncache, history>>

-----------------------------------------------------------------------------
(* Failures and the rest of the cluster.                                   *)

Incident ==
    /\ incidents < MaxIncidents
    /\ incidents' = incidents + 1
    /\ UNCHANGED lostReplies

(* A failed call or a crash ends the reconcile.                            *)
Fault ==
    /\ pc # "idle"
    /\ Incident
    /\ EndReconcile
    /\ UNCHANGED <<cluster, caches>>

SyncRunner(r) ==
    /\ r \notin rcurrent
    /\ rcache' = [rcache EXCEPT ![r] = runner[r]]
    /\ rcurrent' = rcurrent \cup {r}
    /\ UNCHANGED <<cluster, jcache, ncache, pc, locals, history>>

SyncJob(j) ==
    /\ jcache[j] # job[j]
    /\ jcache' = [jcache EXCEPT ![j] = job[j]]
    /\ UNCHANGED <<cluster, rcache, rcurrent, ncache, pc, locals, history>>

SyncNative(j) ==
    /\ ncache[j] # native[j]
    /\ ncache' = [ncache EXCEPT ![j] = native[j]]
    /\ UNCHANGED <<cluster, rcache, rcurrent, jcache, pc, locals, history>>

(* The Pod ends, by itself or at the deadline, and its native Job says so. *)
FinishNativeJob(j) ==
    /\ native[j] = "running"
    /\ native' = [native EXCEPT ![j] = "ended"]
    /\ pods' = pods \ {j}
    /\ UNCHANGED <<runner, job, secret, caches, pc, locals, history>>

(* The Pod of a deleted native Job stops.                                  *)
StopPod(j) ==
    /\ native[j] = "none"
    /\ j \in pods
    /\ pods' = pods \ {j}
    /\ UNCHANGED <<runner, job, native, secret, caches, pc, locals, history>>

(* Somebody deletes the native Job.                                        *)
LoseNativeJob(j) ==
    /\ native[j] # "none"
    /\ Incident
    /\ native' = [native EXCEPT ![j] = "none"]
    /\ UNCHANGED <<runner, job, pods, secret, caches, pc, locals>>

(* The WorkflowRun controller cancels: completeUnscheduledWorkflowJob for  *)
(* a job without Runner, setWorkflowJobCancellationRequested otherwise.    *)
CancelJob(j) ==
    /\ Unfinished(job[j])
    /\ ~job[j].cancel
    /\ Incident
    /\ job' = [job EXCEPT ![j] = IF @.runner = None THEN [@ EXCEPT !.result = "over"]
                                                    ELSE [@ EXCEPT !.cancel = TRUE]]
    /\ UNCHANGED <<runner, native, pods, secret, caches, pc, locals>>

(* The job goes with its WorkflowRun.                                      *)
DeleteJob(j) ==
    /\ job[j].exists
    /\ Incident
    /\ job' = [job EXCEPT ![j] = NoJob]
    /\ secret' = secret \ {j}
    /\ UNCHANGED <<runner, native, pods, caches, pc, locals>>

(* What a deleted job owned is collected.                                  *)
CollectNativeJob(j) ==
    /\ ~job[j].exists
    /\ native[j] # "none"
    /\ native' = [native EXCEPT ![j] = "none"]
    /\ UNCHANGED <<runner, job, pods, secret, caches, pc, locals, history>>

(* A user or reconcileReplicas of the RunnerSet deletes a Runner.          *)
DeleteRunner(r) ==
    /\ runner[r].life = "active"
    /\ Incident
    /\ runner' = [runner EXCEPT ![r].life = "deleting"]
    /\ rcurrent' = rcurrent \ {r}
    /\ rfresh' = (rfresh /\ rn # r)
    /\ UNCHANGED <<job, native, pods, secret, rcache, jcache, ncache, pc,
                   rn, rcopy, jb, jcopy, verdict>>

-----------------------------------------------------------------------------
Step ==
    \/ GetAssignedJob \/ AdoptJob \/ CleanupSecret \/ ClearReference \/ RemoveFinalizer
    \/ ObserveNativeJob \/ ReportStatus \/ RemoveNativeJob \/ CompleteJob
    \/ FailBeforeStart \/ RetryBeforeStart \/ CheckBeforeStart \/ EnsureSecret
    \/ RecheckCancellation \/ AbandonStart \/ CreateNativeJob
    \/ ChooseJob \/ ReserveRunner \/ AssignJob \/ AssignJobReplyLost \/ ReleaseClaim

Environment ==
    \/ \E r \in Runners : SyncRunner(r) \/ DeleteRunner(r)
    \/ \E j \in Jobs :
         \/ SyncJob(j) \/ SyncNative(j) \/ FinishNativeJob(j) \/ StopPod(j)
         \/ LoseNativeJob(j) \/ CancelJob(j) \/ DeleteJob(j) \/ CollectNativeJob(j)

Next == (\E r \in Runners : Reconcile(r)) \/ Step \/ Fault \/ Environment

Spec == Init /\ [][Next]_vars

(* The worker goes on, a Runner is requeued every few seconds, watches     *)
(* deliver, native Jobs have a deadline.  A job is not retried for ever    *)
(* before its start: after jobStartTimeout failExpiredPreStart gives up.   *)
Fairness ==
    /\ WF_vars(Step)
    /\ SF_vars(CheckBeforeStart \/ FailBeforeStart)
    /\ SF_vars(CreateNativeJob \/ (AbandonStart /\ Fail))
    /\ \A r \in Runners : SF_vars(Reconcile(r)) /\ WF_vars(SyncRunner(r))
    /\ \A j \in Jobs : /\ WF_vars(SyncJob(j)) /\ WF_vars(SyncNative(j))
                       /\ WF_vars(FinishNativeJob(j)) /\ WF_vars(StopPod(j))

FairSpec == Spec /\ Fairness

-----------------------------------------------------------------------------
(* Properties.                                                             *)

(* A step that creates the native Job of a WorkflowJob.                    *)
Launch(j) == native[j] # "running" /\ native'[j] = "running"

(* The Runner is there and refers to the job.                              *)
Holds(r, j) == runner[r].life # "gone" /\ runner[r].ref = j

Executing == {"observe", "report", "remove", "complete", "check", "secret", "recheck", "create"}

(* The two objects agree: a job that is assigned and unfinished, or whose  *)
(* Secret is left, is held by its Runner.                                  *)
JobsHeld ==
    \A j \in Jobs :
        j \in Assigned \cup secret =>
            job[j].exists /\ job[j].runner # None /\ Holds(job[j].runner, j)

(* What the caches and the copies of the reconcile still say.              *)
CopiesLag ==
    /\ \A r \in Runners : r \in rcurrent => rcache[r] = runner[r]
    /\ \A j \in Jobs : jcache[j].runner # None => job[j].runner = jcache[j].runner \/ ~job[j].exists
    /\ rfresh => rn \in Runners /\ rcopy = runner[rn]
    /\ pc # "idle" => rcopy.life # "gone"

(* What the reconcile knows at its next call.                              *)
Knowledge ==
    /\ pc \in {"adopt", "claim", "unfinalize", "reserve"} => rcopy.ref = None
    /\ pc \in Executing \cup {"getjob", "clean", "clear"} => rcopy.ref = jb
    /\ pc = "adopt" /\ job[jb].exists => job[jb].runner = rn
    /\ pc \in {"adopt"} \cup Executing => Unfinished(jcopy)
    /\ pc \in Executing =>
          /\ Holds(rn, jb)
          /\ job[jb].exists => job[jb].runner = rn
          /\ Unfinished(job[jb]) => job[jb].launched = jcopy.launched
    /\ pc = "complete" => verdict # "none"
    /\ pc \in {"secret", "recheck", "create"} => ~jcopy.launched
    /\ pc \in {"clean", "clear"} => ~(Unfinished(job[jb]) /\ job[jb].runner = rn)
    /\ pc = "clear" /\ jb \in secret => job[jb].runner # rn
    /\ pc \in {"reserve", "assign", "release"} => job[jb].runner = None
    /\ pc = "assign" => Holds(rn, jb)

(* claimWorkflowJob, assignedWorkflowJob and releaseRunnerClaim keep the   *)
(* Runner's workflowJobRef and the job's runnerRef together: a reference   *)
(* is cleared only after its job was finished, or not assigned, in the API *)
(* server.  This is the inductive invariant behind SlotExclusive,          *)
(* BusyRunnerStays, SecretHasCleaner and NoRestart; it needs that no       *)
(* answer of an assignment is lost.                                        *)
AssignmentConsistent == JobsHeld /\ CopiesLag /\ Knowledge

(* docs/reference.md:969 "Each Runner is one reusable execution slot":     *)
(* claimWorkflowJob writes Runner and WorkflowJob one after the other and  *)
(* works from caches, and a Runner still never has two unfinished jobs,    *)
(* unless the answer of an assignment is lost.                             *)
SlotExclusive ==
    \A j, k \in Assigned : job[j].runner = job[k].runner => j = k

(* claimWorkflowJob: strategy.max-parallel bounds the jobs of the matrix   *)
(* that Runners work on, although Runners choose from a cached queue and   *)
(* the count is old when the assignment is written.                        *)
MaxParallelRespected == MaxParallel > 0 => Cardinality(Assigned) <= MaxParallel

(* claimWorkflowJob: with fail-fast no combination is assigned any more    *)
(* after one has failed, although that was looked up before the Runner and *)
(* the job were written.                                                   *)
FailFastStops ==
    [][\A j \in Jobs : job[j].runner = None /\ job'[j].runner # None => ~MatrixFailed]_job

(* docs/reference.md:1058 "A busy Runner selected for removal stops        *)
(* accepting assignments, finishes its current WorkflowJob, and then       *)
(* terminates": an unfinished job's Runner still exists.                   *)
BusyRunnerStays == \A j \in Assigned : runner[job[j].runner].life # "gone"

(* executeWorkflowJob does not replace a native Job that disappeared after *)
(* its launch was recorded: what may have had effects does not run twice,  *)
(* although the record it looks at was read before.                        *)
NoRestart ==
    [][\A j \in Jobs : Unfinished(job[j]) /\ job[j].launched => ~Launch(j)]_native

(* docs/reference.md:2083 the token "is held in the job's owned            *)
(* authentication Secret and is removed after the job finishes": as long   *)
(* as the Secret exists, a Runner refers to the job and its next           *)
(* assignedWorkflowJob will call cleanupAuthSecret, even if the reconcile  *)
(* that stored the result failed before it did.                            *)
SecretHasCleaner ==
    \A j \in secret : \E r \in Runners : runner[r].life # "gone" /\ runner[r].ref = j

(* Every job that was assigned gets a result or is deleted, although       *)
(* native Jobs disappear, credentials fail and Runners are deleted.        *)
AssignedFinish == \A j \in Jobs : j \in Assigned ~> j \notin Assigned
=============================================================================
