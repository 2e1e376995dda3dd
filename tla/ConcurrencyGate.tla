-------------------------- MODULE ConcurrencyGate ---------------------------
(***************************************************************************)
(* The concurrency gate of internal/controller/concurrency.go and its      *)
(* callers in workflowrun_controller.go, for one concurrency group.        *)
(*                                                                         *)
(* Workflow runs and workflow jobs compete for a group through one Lease   *)
(* object: its holder identity is the executing member, an annotation      *)
(* names the single pending one.  Every call on the API server is one      *)
(* step, so reconciles of several controller processes (an old leader that *)
(* has not exited yet and its successor), the runner controller, users and *)
(* Kubernetes interleave between any two calls.                            *)
(*                                                                         *)
(*  - A Lease is written with the resourceVersion that was read; fresh[w]  *)
(*    is TRUE exactly while nobody has written it since w read it.         *)
(*  - A WorkflowRun is read through the informer cache, which lags; a      *)
(*    write computed from an outdated copy conflicts.  WorkflowJobs are    *)
(*    read from the API server.                                            *)
(*  - Any reconcile may end between two calls, by an error or a crash.     *)
(***************************************************************************)
EXTENDS Naturals, FiniteSets

CONSTANTS
    Runs,               \* WorkflowRuns that evaluate to the group
    Jobs,               \* WorkflowJobs that evaluate to the group
    Workers,            \* controller processes that reconcile
    CancelInProgress,   \* the members that ask for cancel-in-progress
    Age,                \* place of each run by creation time, then name
    MaxIncidents,       \* bound on failures, cancellations and deletions
    None                \* "no member"

Members == Runs \cup Jobs

ASSUME MembersAssumption ==
    /\ Runs \cap Jobs = {}
    /\ None \notin Members
    /\ CancelInProgress \subseteq Members
ASSUME AgeAssumption ==
    /\ IsFiniteSet(Runs)
    /\ Age \in [Runs -> 1..Cardinality(Runs)]
    /\ \A a, b \in Runs : Age[a] = Age[b] => a = b
ASSUME IncidentsAssumption == MaxIncidents \in Nat

VARIABLES
    obj,     \* the member objects in the API server
    cache,   \* the informer cache's copy of the runs
    work,    \* what executes for a member
    lease,   \* the group's Lease object
    pc,      \* the next API call of each worker's reconcile
    who,     \* the member being reconciled
    snap,    \* the copy of that member the reconcile works on
    seen,    \* the Lease as the reconcile read it, until the decision
    fresh,   \* nobody has written the Lease since that read
    plan,    \* the gate's outcome and the Lease to write
    incidents \* failures, cancellations and deletions so far

vars == <<obj, cache, work, lease, pc, who, snap, seen, fresh, plan, incidents>>
workerVars == <<pc, who, snap, seen, fresh, plan>>

-----------------------------------------------------------------------------
(* Objects.                                                                *)

(* "new": the group is not evaluated yet; "decided": status.concurrency is *)
(* stored; "waiting": Planned (run) or ConcurrencyAcquired (job) is        *)
(* Unknown; "admitted": Planned or Ready is True; "terminal": the member   *)
(* has its result; "gone": the object was deleted.                         *)
Phase == {"new", "decided", "waiting", "admitted", "terminal", "gone"}

Object == [phase : Phase, cancel : BOOLEAN]

(* "assigned": a Runner took a job of the member and is about to create    *)
(* the native Job; "active": the native Job or a Pod runs; "orphan": it    *)
(* runs for a deleted member that no Lease protects, because its native    *)
(* Job was created after the deletion or the run was planned and deleted   *)
(* before the group had a Lease; "ended": a job's one execution is over.   *)
Work == {"none", "assigned", "active", "orphan", "ended"}

Lease == [exists : BOOLEAN, holder : Members \cup {None}, pending : Members \cup {None}]

NoLease == [exists |-> FALSE, holder |-> None, pending |-> None]

GateState == {"acquired", "waiting", "superseded"}

(* concurrencyGateResult, with the Lease that has to be written.           *)
Plan == [lease : Lease, state : GateState, displaced : Members \cup {None},
         cancelOwner : Members \cup {None}]

NoPlan == [lease |-> NoLease, state |-> "waiting", displaced |-> None, cancelOwner |-> None]

NoObject == [phase |-> "gone", cancel |-> FALSE]

PC == {"idle", "persist", "get", "list", "create", "check", "update", "displace",
       "preempt", "record", "finish", "rget", "rcheck", "rwrite"}

SuccessorOf(p) ==
    CASE p.displaced # None -> "displace"
      [] p.displaced = None /\ p.cancelOwner # None -> "preempt"
      [] OTHER -> "record"

(* terminalRun and workflowJobTerminal.                                    *)
Terminal(o) == o.phase \in {"terminal", "gone"}

(* activeRuntimeWorkloads and workflowJobExecutionActive: a native Job     *)
(* without result or a Pod that has not ended.                             *)
ExecutionActive(m) == work[m] \in {"active", "orphan"}

(* Mutant: the Pods of a job that has its result are forgotten.            *)
ActiveIgnoringPods(m) ==
    IF obj[m].phase = "gone" THEN ExecutionActive(m) ELSE obj[m].phase # "terminal"

(* concurrencyMemberActive.  A run that exists is judged by its status     *)
(* alone, a job and a deleted run by what still executes.                  *)
Active(m) ==
    CASE obj[m].phase = "gone" -> ExecutionActive(m)
      [] m \in Runs            -> obj[m].phase # "terminal"
      [] OTHER                 -> obj[m].phase # "terminal" \/ ExecutionActive(m)

TypeOK ==
    /\ obj \in [Members -> Object]
    /\ cache \in [Runs -> Object]
    /\ work \in [Members -> Work]
    /\ lease \in Lease
    /\ pc \in [Workers -> PC]
    /\ who \in [Workers -> Members \cup {None}]
    /\ snap \in [Workers -> Object]
    /\ seen \in [Workers -> Lease]
    /\ fresh \in [Workers -> BOOLEAN]
    /\ plan \in [Workers -> Plan]
    /\ incidents \in Nat

-----------------------------------------------------------------------------
(* The decisions of the gate, as functions of what has been read.          *)

(* workflowRunConcurrencyMember, workflowJobConcurrencyMember: a run whose *)
(* cancellation is requested preempts nobody.                              *)
Preempts(m, o) == m \in CancelInProgress /\ (m \in Runs => ~o.cancel)

(* Mutant: the pending member does not move up when the holder leaves.     *)
SettleWithoutPromotion(l) ==
    [exists  |-> TRUE,
     holder  |-> IF l.holder # None /\ ~Active(l.holder) THEN None ELSE l.holder,
     pending |-> IF l.pending # None /\ ~Active(l.pending) THEN None ELSE l.pending]

(* Members that no longer execute leave the Lease, and a pending member    *)
(* moves up when the group is free.                                        *)
Settle(l) ==
    LET holder  == IF l.holder # None /\ ~Active(l.holder) THEN None ELSE l.holder
        pending == IF l.pending # None /\ ~Active(l.pending) THEN None ELSE l.pending
    IN  IF holder = None THEN [exists |-> TRUE, holder |-> pending, pending |-> None]
                         ELSE [exists |-> TRUE, holder |-> holder, pending |-> pending]

Outcome(l, state, displaced, owner) ==
    [lease |-> l, state |-> state, displaced |-> displaced, cancelOwner |-> owner]

(* Mutant: only the call that registers a member preempts the holder.      *)
GateForgettingPreemption(l, m, o) ==
    LET s == Settle(l)
    IN  CASE s.holder = m -> Outcome(s, "acquired", None, None)
          [] s.holder # m /\ s.pending = m -> Outcome(s, "waiting", None, None)
          [] s.holder = None -> Outcome([s EXCEPT !.holder = m], "acquired", None, None)
          [] s.holder \notin {m, None} /\ s.pending # m ->
               IF o.phase = "waiting" /\ s.pending # None
               THEN Outcome(s, "superseded", None, None)
               ELSE Outcome([s EXCEPT !.pending = m], "waiting", s.pending,
                            IF Preempts(m, o) THEN s.holder ELSE None)

(* The switch of acquireConcurrency on a Lease that exists.                *)
Gate(l, m, o) ==
    LET s     == Settle(l)
        owner == IF Preempts(m, o) THEN s.holder ELSE None
    IN  CASE s.holder = m  -> Outcome(s, "acquired", None, None)
          [] s.holder # m /\ s.pending = m -> Outcome(s, "waiting", None, owner)
          [] s.holder = None -> Outcome([s EXCEPT !.holder = m], "acquired", None, None)
          [] s.holder \notin {m, None} /\ s.pending # m ->
               IF o.phase = "waiting" /\ s.pending # None
               THEN Outcome(s, "superseded", None, None)
               ELSE Outcome([s EXCEPT !.pending = m], "waiting", s.pending, owner)

(* Whether acquireConcurrency has something to write.                      *)
Changed(l, p) == p.lease # l \/ (l.holder # None /\ ~Active(l.holder))

(* bootstrapWorkflowRunConcurrency: without a Lease the oldest planned run *)
(* holds the group and the newest waiting one is pending.                  *)
Planned == {r \in Runs : obj[r].phase = "admitted"}
Waiting == {r \in Runs : obj[r].phase = "waiting"}
Oldest(S) == CHOOSE r \in S : \A q \in S : Age[r] <= Age[q]
Newest(S) == CHOOSE r \in S : \A q \in S : Age[q] <= Age[r]

Bootstrap(m) ==
    LET waiting == IF Waiting = {} THEN None ELSE Newest(Waiting)
    IN  CASE Planned # {} -> [exists |-> TRUE, holder |-> Oldest(Planned), pending |-> waiting]
          [] Planned = {} /\ waiting # None -> [exists |-> TRUE, holder |-> waiting, pending |-> None]
          [] OTHER -> [exists |-> TRUE, holder |-> m, pending |-> None]

(* What releaseConcurrency leaves of the Lease when m, its holder or its   *)
(* pending member, gives it up.                                            *)
Released(l, m) ==
    LET pending == IF l.pending = m THEN None ELSE l.pending
    IN  CASE l.holder # m -> [l EXCEPT !.pending = pending]
          [] l.holder = m /\ pending # None /\ Active(pending) ->
               [exists |-> TRUE, holder |-> pending, pending |-> None]
          [] OTHER -> NoLease

-----------------------------------------------------------------------------
(* Initial states: nothing has asked for the group yet, or runs were       *)
(* planned by a controller version that kept no Lease.                     *)

Init ==
    /\ obj \in [Members -> [phase : {"new", "waiting", "admitted"}, cancel : {FALSE}]]
    /\ \A j \in Jobs : obj[j].phase = "new"
    /\ \A r, q \in Planned : r = q
    /\ cache = [r \in Runs |-> obj[r]]
    /\ work = [m \in Members |-> "none"]
    /\ lease = NoLease
    /\ pc = [w \in Workers |-> "idle"]
    /\ who = [w \in Workers |-> None]
    /\ snap = [w \in Workers |-> NoObject]
    /\ seen = [w \in Workers |-> NoLease]
    /\ fresh = [w \in Workers |-> FALSE]
    /\ plan = [w \in Workers |-> NoPlan]
    /\ incidents = 0

-----------------------------------------------------------------------------
(* Reconciles.                                                             *)

Goto(w, label) == pc' = [pc EXCEPT ![w] = label]

EndReconcile(w) ==
    /\ Goto(w, "idle")
    /\ who' = [who EXCEPT ![w] = None]
    /\ snap' = [snap EXCEPT ![w] = NoObject]
    /\ seen' = [seen EXCEPT ![w] = NoLease]
    /\ fresh' = [fresh EXCEPT ![w] = FALSE]
    /\ plan' = [plan EXCEPT ![w] = NoPlan]

(* A write of the reconciled member: it conflicts unless the copy the      *)
(* reconcile works on is still the stored object.                          *)
WriteMember(w, new) ==
    obj' = IF obj[who[w]] = snap[w] THEN [obj EXCEPT ![who[w]] = new] ELSE obj

WriteLease(new) ==
    /\ lease' = new
    /\ fresh' = [v \in Workers |-> FALSE]

(* Mutant: a run cancelled while it waits asks for the group once more.    *)
FirstCallIgnoringCancel(m, o) ==
    CASE o.phase = "new" -> "persist"
      [] o.phase \in {"decided", "waiting"} -> "get"
      [] o.phase = "terminal" -> "rget"

(* reconcileWorkflowRun and the loop of the job graph up to the gate.      *)
FirstCall(m, o) ==
    CASE o.phase = "new"      -> "persist"
      [] o.phase = "decided"  -> "get"
      [] o.phase = "waiting"  -> IF m \in Runs /\ o.cancel THEN "finish" ELSE "get"
      [] o.phase = "terminal" -> "rget"

Reconcile(w, m) ==
    LET o == IF m \in Runs THEN cache[m] ELSE obj[m]
    IN  /\ pc[w] = "idle"
        /\ o.phase \in {"new", "decided", "waiting", "terminal"}
        /\ m \in Jobs /\ o.phase = "terminal" => ~ExecutionActive(m)
        /\ Goto(w, FirstCall(m, o))
        /\ who' = [who EXCEPT ![w] = m]
        /\ snap' = [snap EXCEPT ![w] = o]
        /\ UNCHANGED <<obj, cache, work, lease, seen, fresh, plan, incidents>>

(* persistWorkflowRunConcurrencyDecision and its counterpart for jobs.     *)
PersistDecision(w) ==
    LET decided == [snap[w] EXCEPT !.phase = "decided"]
    IN  /\ pc[w] = "persist"
        /\ WriteMember(w, decided)
        /\ IF obj[who[w]] = snap[w]
           THEN /\ snap' = [snap EXCEPT ![w] = decided]
                /\ Goto(w, "get")
                /\ UNCHANGED <<who, seen, fresh, plan>>
           ELSE EndReconcile(w)
        /\ UNCHANGED <<cache, work, lease, incidents>>

GetLease(w) ==
    /\ pc[w] = "get"
    /\ seen' = [seen EXCEPT ![w] = lease]
    /\ fresh' = [fresh EXCEPT ![w] = TRUE]
    /\ Goto(w, IF lease.exists THEN "check" ELSE "list")
    /\ UNCHANGED <<obj, cache, work, lease, who, snap, plan, incidents>>

ListRuns(w) ==
    /\ pc[w] = "list"
    /\ plan' = [plan EXCEPT ![w] = [NoPlan EXCEPT !.lease = Bootstrap(who[w])]]
    /\ Goto(w, "create")
    /\ UNCHANGED <<obj, cache, work, lease, who, snap, seen, fresh, incidents>>

CreateLease(w) ==
    /\ pc[w] = "create"
    /\ IF lease.exists THEN UNCHANGED <<lease, fresh>> ELSE WriteLease(plan[w].lease)
    /\ plan' = [plan EXCEPT ![w] = NoPlan]
    /\ Goto(w, "get")
    /\ UNCHANGED <<obj, cache, work, who, snap, seen, incidents>>

(* The activity checks and the decision of acquireConcurrency.             *)
CheckGate(w) ==
    LET p == Gate(seen[w], who[w], snap[w])
    IN  /\ pc[w] = "check"
        /\ plan' = [plan EXCEPT ![w] = p]
        /\ seen' = [seen EXCEPT ![w] = NoLease]
        /\ Goto(w, IF Changed(seen[w], p) THEN "update" ELSE SuccessorOf(p))
        /\ UNCHANGED <<obj, cache, work, lease, who, snap, fresh, incidents>>

UpdateLease(w) ==
    /\ pc[w] = "update"
    /\ IF fresh[w]
       THEN /\ WriteLease(plan[w].lease)
            /\ Goto(w, SuccessorOf(plan[w]))
            /\ UNCHANGED plan
       ELSE /\ plan' = [plan EXCEPT ![w] = NoPlan]
            /\ Goto(w, "get")
            /\ UNCHANGED <<lease, fresh>>
    /\ UNCHANGED <<obj, cache, work, who, snap, seen, incidents>>

(* requestConcurrencyCancellation: a run is asked to stop, a job without a *)
(* Runner ends at once, a job with a Runner is asked to stop.              *)
Cancelled(m) ==
    CASE Terminal(obj[m]) -> obj[m]
      [] ~Terminal(obj[m]) /\ m \in Jobs /\ work[m] = "none" -> [obj[m] EXCEPT !.phase = "terminal"]
      [] OTHER -> [obj[m] EXCEPT !.cancel = TRUE]

CancelDisplaced(w) ==
    LET d == plan[w].displaced
    IN  /\ pc[w] = "displace"
        /\ obj' = [obj EXCEPT ![d] = Cancelled(d)]
        /\ Goto(w, IF plan[w].cancelOwner # None THEN "preempt" ELSE "record")
        /\ UNCHANGED <<cache, work, lease, who, snap, seen, fresh, plan, incidents>>

CancelOwner(w) ==
    LET h == plan[w].cancelOwner
    IN  /\ pc[w] = "preempt"
        /\ obj' = [obj EXCEPT ![h] = Cancelled(h)]
        /\ Goto(w, "record")
        /\ UNCHANGED <<cache, work, lease, who, snap, seen, fresh, plan, incidents>>

(* Mutant: a superseded job gets a state of its own instead of a result.   *)
RecordedAsSuperseded(m, o, state) ==
    CASE state = "acquired"   -> [o EXCEPT !.phase = "admitted"]
      [] state = "waiting"    -> [o EXCEPT !.phase = "waiting"]
      [] state = "superseded" -> [o EXCEPT !.phase = "superseded"]

(* What the reconcile stores of the outcome: waitingForConcurrency,        *)
(* observeWorkflowJobs and cancelWorkflowRun for a run,                    *)
(* setWorkflowJobConcurrencyState and completeUnscheduledWorkflowJob for a *)
(* job.                                                                    *)
Recorded(m, o, state) ==
    CASE state = "acquired"   -> [o EXCEPT !.phase = "admitted"]
      [] state = "waiting"    -> [o EXCEPT !.phase = "waiting"]
      [] state = "superseded" -> IF m \in Runs THEN [o EXCEPT !.cancel = TRUE]
                                               ELSE [o EXCEPT !.phase = "terminal"]

RecordOutcome(w) ==
    /\ pc[w] = "record"
    /\ WriteMember(w, Recorded(who[w], snap[w], plan[w].state))
    /\ EndReconcile(w)
    /\ UNCHANGED <<cache, work, lease, incidents>>

(* observeWorkflowJobs for a run cancelled while it waited: all its jobs   *)
(* are completed as cancelled, and so is the run.                          *)
FinishCancelledRun(w) ==
    /\ pc[w] = "finish"
    /\ WriteMember(w, [snap[w] EXCEPT !.phase = "terminal"])
    /\ EndReconcile(w)
    /\ UNCHANGED <<cache, work, lease, incidents>>

(* releaseConcurrency.                                                     *)
GetHeldLease(w) ==
    /\ pc[w] = "rget"
    /\ IF lease.exists
       THEN /\ seen' = [seen EXCEPT ![w] = lease]
            /\ fresh' = [fresh EXCEPT ![w] = TRUE]
            /\ Goto(w, "rcheck")
            /\ UNCHANGED <<who, snap, plan>>
       ELSE EndReconcile(w)
    /\ UNCHANGED <<obj, cache, work, lease, incidents>>

CheckRelease(w) ==
    LET l == Released(seen[w], who[w])
    IN  /\ pc[w] = "rcheck"
        /\ IF l = seen[w]
           THEN EndReconcile(w)
           ELSE /\ plan' = [plan EXCEPT ![w] = [NoPlan EXCEPT !.lease = l]]
                /\ seen' = [seen EXCEPT ![w] = NoLease]
                /\ Goto(w, "rwrite")
                /\ UNCHANGED <<who, snap, fresh>>
        /\ UNCHANGED <<obj, cache, work, lease, incidents>>

(* Mutant: the Lease is deleted without its preconditions.                 *)
WriteReleaseBlindly(w) ==
    /\ pc[w] = "rwrite"
    /\ WriteLease(plan[w].lease)
    /\ Goto(w, "idle")
    /\ who' = [who EXCEPT ![w] = None]
    /\ snap' = [snap EXCEPT ![w] = NoObject]
    /\ plan' = [plan EXCEPT ![w] = NoPlan]
    /\ UNCHANGED <<obj, cache, work, seen, incidents>>

WriteRelease(w) ==
    /\ pc[w] = "rwrite"
    /\ IF fresh[w]
       THEN /\ WriteLease(plan[w].lease)
            /\ Goto(w, "idle")
            /\ who' = [who EXCEPT ![w] = None]
            /\ snap' = [snap EXCEPT ![w] = NoObject]
       ELSE /\ Goto(w, "rget")
            /\ UNCHANGED <<lease, fresh, who, snap>>
    /\ plan' = [plan EXCEPT ![w] = NoPlan]
    /\ UNCHANGED <<obj, cache, work, seen, incidents>>

Incident ==
    /\ incidents < MaxIncidents
    /\ incidents' = incidents + 1

(* A failed API call, a lost leadership or a crash ends the reconcile.     *)
Fault(w) ==
    /\ pc[w] # "idle"
    /\ Incident
    /\ EndReconcile(w)
    /\ UNCHANGED <<obj, cache, work, lease>>

-----------------------------------------------------------------------------
(* The rest of the cluster.                                                *)

SetPhase(m, phase) == obj' = [obj EXCEPT ![m].phase = phase]

(* The informer delivers the stored version of a run.                      *)
SyncCache(r) ==
    /\ cache[r] # obj[r]
    /\ cache' = [cache EXCEPT ![r] = obj[r]]
    /\ UNCHANGED <<obj, work, lease, workerVars, incidents>>

(* The console or a user sets spec.cancelRequested of a run; cancellation  *)
(* of its run or matrix fail-fast reaches a job.                           *)
RequestCancel(m) ==
    /\ ~Terminal(obj[m])
    /\ ~obj[m].cancel
    /\ Incident
    /\ obj' = [obj EXCEPT ![m] = Cancelled(m)]
    /\ UNCHANGED <<cache, work, lease, workerVars>>

(* planningFailed with a terminal disposition, completeUnplannedWorkflowRun *)
(* and the failures of the job graph before the gate.                      *)
FailPlanning(m) ==
    /\ obj[m].phase \in {"new", "decided"}
    /\ SetPhase(m, "terminal")
    /\ UNCHANGED <<cache, work, lease, workerVars, incidents>>

(* claimWorkflowJob: Runners take jobs of a planned run that are Ready.    *)
AssignRunner(m) ==
    /\ obj[m].phase = "admitted"
    /\ work[m] = "none"
    /\ work' = [work EXCEPT ![m] = "assigned"]
    /\ UNCHANGED <<obj, cache, lease, workerVars, incidents>>

(* createNativeJob: the checks before it may be outdated, so that a member *)
(* deleted in between still gets its native Job.                           *)
Launch(m) ==
    /\ work[m] = "assigned"
    /\ work' = [work EXCEPT ![m] = IF obj[m].phase = "gone" THEN "orphan" ELSE "active"]
    /\ UNCHANGED <<obj, cache, lease, workerVars, incidents>>

(* The execution ends, or is given up before it starts.                    *)
StopWork(m) ==
    /\ work[m] \in {"assigned", "active", "orphan"}
    /\ work' = [work EXCEPT ![m] = IF m \in Runs THEN "none" ELSE "ended"]
    /\ UNCHANGED <<obj, cache, lease, workerVars, incidents>>

(* A run completes when nothing executes for it any more, a job also when  *)
(* cancelWorkflowJob has deleted its native Job and the Pod is stopping.   *)
Complete(m) ==
    /\ obj[m].phase = "admitted"
    /\ \/ work[m] \in {"none", "ended"}
       \/ m \in Jobs /\ obj[m].cancel /\ work[m] = "active"
    /\ SetPhase(m, "terminal")
    /\ UNCHANGED <<cache, work, lease, workerVars, incidents>>

(* Deleting a WorkflowRun is the force-cancellation path.                  *)
Delete(m) ==
    /\ obj[m].phase # "gone"
    /\ Incident
    /\ obj' = [obj EXCEPT ![m] = NoObject]
    /\ work' = IF work[m] = "active" /\ ~lease.exists
               THEN [work EXCEPT ![m] = "orphan"] ELSE work
    /\ UNCHANGED <<cache, lease, workerVars>>

-----------------------------------------------------------------------------
Step(w) ==
    \/ PersistDecision(w) \/ GetLease(w) \/ ListRuns(w) \/ CreateLease(w)
    \/ CheckGate(w) \/ UpdateLease(w) \/ CancelDisplaced(w) \/ CancelOwner(w)
    \/ RecordOutcome(w) \/ FinishCancelledRun(w)
    \/ GetHeldLease(w) \/ CheckRelease(w) \/ WriteRelease(w)

Cluster(m) ==
    \/ RequestCancel(m) \/ FailPlanning(m) \/ AssignRunner(m) \/ Launch(m)
    \/ StopWork(m) \/ Complete(m) \/ Delete(m)

Next ==
    \/ \E w \in Workers, m \in Members : Reconcile(w, m)
    \/ \E w \in Workers : Step(w) \/ Fault(w)
    \/ \E r \in Runs : SyncCache(r)
    \/ \E m \in Members : Cluster(m)

Spec == Init /\ [][Next]_vars

(* The manager keeps its worker going, every waiting or terminal member is *)
(* requeued (RequeueAfter, watch events) and the work queue is first in    *)
(* first out, and watches deliver.                                         *)
ControllerFairness ==
    /\ \A w \in Workers : WF_vars(Step(w))
    /\ \A w \in Workers, m \in Members : SF_vars(Reconcile(w, m))
    /\ \A r \in Runs : WF_vars(SyncCache(r))

(* Deadlines end every execution, and a run has finitely many jobs.        *)
ExecutionFairness ==
    \A m \in Members : WF_vars(StopWork(m)) /\ SF_vars(Complete(m))

(* Only what has been cancelled, or whose object has its result or is      *)
(* gone, stops by itself; other executions may go on forever.              *)
Stopping(m) == obj[m].cancel \/ Terminal(obj[m])

CancellationFairness ==
    \A m \in Members : /\ WF_vars(Stopping(m) /\ StopWork(m))
                       /\ SF_vars(Stopping(m) /\ Complete(m))

ControllerSpec == Spec /\ ControllerFairness

-----------------------------------------------------------------------------
(* Properties.                                                             *)

Stage(m) ==
    CASE obj[m].phase = "admitted" -> "executing"
      [] Terminal(obj[m]) -> IF work[m] = "active" THEN "executing" ELSE "finished"
      [] obj[m].phase = "waiting" /\ m \in Runs /\ obj[m].cancel -> "condemned"
      [] OTHER -> "queued"

Executing(m) == Stage(m) = "executing"

(* docs/reference.md "At most one member executes": two members are never  *)
(* both admitted or running Pods, whatever the interleaving of Lease       *)
(* updates, outdated caches, deletions and crashes.                        *)
MutualExclusion == \A m, n \in Members : Executing(m) /\ Executing(n) => m = n

stages == [m \in Members |-> Stage(m)]

Group == INSTANCE ConcurrencyGroup WITH stage <- stages

(* The gate implements the abstract group: a member starts only when the   *)
(* group is free, a run cancelled while it waits never starts, and nobody  *)
(* comes back after it has finished.                                       *)
ImplementsGroup == Group!Spec

(* "A replacement acquires the group only after the executing member's     *)
(* active workload and cancellation-aware cleanup have stopped": the Lease *)
(* leaves a holder only when that holder has its result or is deleted and  *)
(* what executed for it has stopped.                                       *)
HandoverAfterStop ==
    [][lease.holder # None /\ lease'.holder # lease.holder
         => Stage(lease.holder) = "finished"]_lease

(* No member waits for ever: although reconciles fail between the Lease    *)
(* update and the status update, the Lease is deleted and bootstrapped,    *)
(* and pending members are replaced, every waiting member is admitted,     *)
(* cancelled or deleted in the end, provided that executions end.          *)
WaitersProceed ==
    ExecutionFairness => \A m \in Members : obj[m].phase = "waiting" ~> obj[m].phase # "waiting"

(* A waiting member with cancel-in-progress does not depend on the holder  *)
(* finishing by itself: its request reaches the holder even if reconciles  *)
(* fail, and it stops waiting, provided that what is cancelled ends.       *)
PreemptorsProceed ==
    CancellationFairness =>
        \A m \in CancelInProgress :
            obj[m].phase = "waiting" /\ ~obj[m].cancel ~> obj[m].phase # "waiting" \/ obj[m].cancel

-----------------------------------------------------------------------------
(* Why the gate is safe: the inductive invariant.                          *)

(* Has its result or is deleted, and nothing runs for it.  Unlike          *)
(* "~Active", this cannot become false again.                              *)
Finished(m) == Terminal(obj[m]) /\ work[m] # "active"

(* What a reconcile holds agrees with the call it is about to make.        *)
Registers(w) ==
    /\ pc[w] # "idle" => who[w] \in Members
    /\ pc[w] = "persist" => snap[w].phase = "new"
    /\ pc[w] = "finish" => who[w] \in Runs /\ snap[w].phase = "waiting" /\ snap[w].cancel
    /\ pc[w] \in {"get", "list", "create", "check", "update", "displace", "preempt", "record"} =>
         \/ snap[w].phase = "decided"
         \/ snap[w].phase = "waiting" /\ (who[w] \in Runs => ~snap[w].cancel)
    /\ pc[w] \in {"check", "rcheck"} => seen[w].exists
    /\ pc[w] \in {"create", "update"} => plan[w].lease.exists
    /\ pc[w] \in {"displace", "preempt"} => plan[w].state # "acquired"
    /\ pc[w] = "displace" => plan[w].displaced \in Members
    /\ pc[w] = "preempt" => plan[w].cancelOwner \in Members
    /\ pc[w] = "update" /\ plan[w].state = "acquired" => plan[w].lease.holder = who[w]
    /\ pc[w] = "update" /\ plan[w].state = "acquired" => SuccessorOf(plan[w]) = "record"

(* Runners start only what has been admitted, a run has its result only    *)
(* when nothing executes for it, and the cache never invents a result.     *)
ExecutionOrder ==
    /\ \A m \in Members :
         /\ obj[m].phase \in {"new", "decided", "waiting"} => work[m] = "none"
         /\ work[m] = "assigned" => obj[m].phase \in {"admitted", "gone"}
    /\ \A r \in Runs :
         /\ work[r] # "ended"
         /\ obj[r].phase = "terminal" => work[r] = "none"
         /\ cache[r].phase = "terminal" => Finished(r)

(* The Lease names whoever executes.  Without a Lease only a run planned   *)
(* before the Lease existed may execute.                                   *)
LeaseNamesExecuting ==
    /\ lease.exists \/ lease = NoLease
    /\ \A m \in Members : Executing(m) =>
         IF lease.exists THEN lease.holder = m
         ELSE m \in Planned /\ \A n \in Members : Executing(n) => n = m

(* What a reconcile has read or is about to write never takes the group    *)
(* from a member that may still execute, however old the read is.          *)
Holds(m) == lease.exists /\ lease.holder = m

Handover(l) == lease.exists /\ (lease.holder \in {None, l.holder} \/ Finished(lease.holder))

ReadsAreSafe(w) ==
    /\ pc[w] \in {"check", "rcheck"} => seen[w].holder = None \/ Holds(seen[w].holder) \/ Finished(seen[w].holder)
    /\ pc[w] \in {"check", "rcheck"} /\ fresh[w] => seen[w] = lease
    /\ pc[w] = "create" /\ ~lease.exists =>
         \A m \in Members : Executing(m) => plan[w].lease.holder = m
    /\ pc[w] \in {"update", "rwrite"} /\ fresh[w] => Handover(plan[w].lease)
    /\ pc[w] = "rwrite" => plan[w].lease.exists \/ plan[w].lease = NoLease
    /\ pc[w] \in {"rget", "rcheck", "rwrite"} => Finished(who[w])
    /\ pc[w] = "record" /\ plan[w].state = "acquired" => Holds(who[w]) \/ Terminal(obj[who[w]])

(* The Lease protects every execution: the invariant from which mutual     *)
(* exclusion, the handover and the refinement of ConcurrencyGroup follow.  *)
LeaseProtects ==
    /\ TypeOK
    /\ \A w \in Workers : Registers(w) /\ ReadsAreSafe(w)
    /\ ExecutionOrder
    /\ LeaseNamesExecuting
=============================================================================
