----------------------- MODULE RunnerAssignmentProofs -----------------------
(***************************************************************************)
(* Proofs about RunnerAssignment for any sets of Runners and jobs.         *)
(***************************************************************************)
EXTENDS RunnerAssignment, FiniteSetTheorems, TLAPS

-----------------------------------------------------------------------------
(* Objects and their updates.                                              *)

LEMMA Defaults ==
    /\ NoRunner \in Runner /\ NewRunner \in Runner
    /\ NoJob \in Job /\ NewJob \in Job
    /\ NoJob.runner = None /\ ~NoJob.exists /\ NewJob.runner = None
    /\ NoRunner.ref = None
BY DEF NoRunner, NewRunner, Runner, NoJob, NewJob, Job, Result

LEMMA RunnerUpdates ==
    ASSUME NEW o \in Runner
    PROVE  /\ o.ref \in Jobs \cup {None}
           /\ \A x \in Jobs \cup {None} : /\ [o EXCEPT !.ref = x] \in Runner
                                          /\ [o EXCEPT !.ref = x].ref = x
                                          /\ [o EXCEPT !.ref = x].life = o.life
           /\ [o EXCEPT !.life = "deleting"] \in Runner
           /\ [o EXCEPT !.life = "deleting"].ref = o.ref
           /\ [o EXCEPT !.life = "deleting"].life = "deleting"
BY DEF Runner

(* What an update of a WorkflowJob leaves alone.                           *)
SameButResult(o, n) == /\ n.exists = o.exists /\ n.runner = o.runner
                       /\ n.launched = o.launched /\ n.cancel = o.cancel
SameButLaunched(o, n) == /\ n.exists = o.exists /\ n.runner = o.runner
                         /\ n.result = o.result /\ n.cancel = o.cancel
SameButCancel(o, n) == /\ n.exists = o.exists /\ n.runner = o.runner
                       /\ n.launched = o.launched /\ n.result = o.result
SameButRunner(o, n) == /\ n.exists = o.exists /\ n.result = o.result
                       /\ n.launched = o.launched /\ n.cancel = o.cancel

LEMMA ResultUpdate ==
    ASSUME NEW o \in Job, NEW x \in Result
    PROVE  LET n == [o EXCEPT !.result = x]
           IN  n \in Job /\ n.result = x /\ SameButResult(o, n)
BY DEF Job, SameButResult

LEMMA RunnerUpdate ==
    ASSUME NEW o \in Job, NEW x \in Runners
    PROVE  LET n == [o EXCEPT !.runner = x]
           IN  n \in Job /\ n.runner = x /\ SameButRunner(o, n)
BY DEF Job, SameButRunner

LEMMA LaunchedUpdate ==
    ASSUME NEW o \in Job
    PROVE  LET n == [o EXCEPT !.launched = TRUE]
           IN  n \in Job /\ n.launched /\ SameButLaunched(o, n)
<1>1. \A b \in BOOLEAN : LET n == [o EXCEPT !.launched = b]
                         IN  n \in Job /\ n.launched = b /\ SameButLaunched(o, n)
  BY DEF Job, SameButLaunched
<1> QED BY <1>1, Zenon

LEMMA CancelUpdate ==
    ASSUME NEW o \in Job
    PROVE  LET n == [o EXCEPT !.cancel = TRUE]
           IN  n \in Job /\ n.cancel /\ SameButCancel(o, n)
<1>1. \A b \in BOOLEAN : LET n == [o EXCEPT !.cancel = b]
                         IN  n \in Job /\ n.cancel = b /\ SameButCancel(o, n)
  BY DEF Job, SameButCancel
<1> QED BY <1>1, Zenon

-----------------------------------------------------------------------------
(* Type correctness.                                                       *)

LEMMA InitTyped == Init => TypeOK
<1> SUFFICES ASSUME Init PROVE TypeOK
  OBVIOUS
<1>1. runner \in [Runners -> Runner] /\ rcache \in [Runners -> Runner]
  BY Defaults DEF Init
<1>2. job \in [Jobs -> Job] /\ jcache \in [Jobs -> Job]
  BY Defaults DEF Init
<1>3. native \in [Jobs -> Native] /\ ncache \in [Jobs -> Native]
  BY DEF Init, Native
<1>4. rcopy \in Runner /\ jcopy \in Job
  BY Defaults DEF Init
<1>5. rfresh \in BOOLEAN
  BY DEF Init
<1> QED BY <1>1, <1>2, <1>3, <1>4, <1>5 DEF Init, TypeOK, PC, Result

(* The end of a reconcile resets what it keeps.                            *)
LEMMA EndTyped ==
    ASSUME EndReconcile
    PROVE  /\ pc' = "idle" /\ rn' = None /\ rcopy' \in Runner /\ rfresh' \in BOOLEAN
           /\ jb' = None /\ jcopy' \in Job /\ verdict' \in Result
<1>1. rfresh' \in BOOLEAN
  BY DEF EndReconcile
<1> QED BY <1>1, Defaults DEF EndReconcile, Result

(* A write to the Runner of the reconcile.                                 *)
LEMMA WriteRunnerTyped ==
    ASSUME TypeOK, NEW n \in Runner, WriteRunner(n), pc # "idle"
    PROVE  runner' \in [Runners -> Runner] /\ rcurrent' \subseteq Runners
BY DEF TypeOK, WriteRunner

LEMMA WriteJobTyped ==
    ASSUME TypeOK, NEW n \in Job, WriteJob(n)
    PROVE  job' \in [Jobs -> Job]
BY DEF TypeOK, WriteJob

LEMMA NextTyped == TypeOK /\ [Next]_vars => TypeOK'
<1> SUFFICES ASSUME TypeOK, [Next]_vars PROVE TypeOK'
  OBVIOUS
<1> USE NoneAssumption DEF TypeOK, PC, cluster, caches, locals, history
<1>1. ASSUME NEW r \in Runners, Reconcile(r) PROVE TypeOK'
  <2>1. rfresh' \in BOOLEAN /\ rcopy' \in Runner
    BY <1>1 DEF Reconcile
  <2>2. rcache[r].ref \in Jobs \cup {None}
    BY RunnerUpdates
  <2> QED BY <1>1, <2>1, <2>2 DEF Reconcile, Listed
<1>2. CASE GetAssignedJob
  BY <1>2 DEF GetAssignedJob, AfterGet
<1>3. CASE AdoptJob
  <2>1. [rcopy EXCEPT !.ref = jb] \in Runner
    BY <1>3, RunnerUpdates DEF AdoptJob
  <2>2. CASE rfresh
    <3>1. runner' \in [Runners -> Runner] /\ rcurrent' \subseteq Runners /\ rcopy' \in Runner
      BY <1>3, <2>1, <2>2, WriteRunnerTyped DEF AdoptJob
    <3> QED BY <1>3, <2>2, <3>1 DEF AdoptJob
  <2>3. CASE ~rfresh
    BY <1>3, <2>3, EndTyped DEF AdoptJob
  <2> QED BY <2>2, <2>3
<1>4. CASE CleanupSecret
  BY <1>4 DEF CleanupSecret
<1>5. CASE ClearReference
  <2>1. [rcopy EXCEPT !.ref = None] \in Runner
    BY RunnerUpdates
  <2>2. runner' \in [Runners -> Runner] /\ rcurrent' \subseteq Runners
    BY <1>5, <2>1, WriteRunnerTyped DEF ClearReference
  <2>3. CASE rfresh /\ verdict = "none"
    <3>1. rcopy' \in Runner /\ rfresh' \in BOOLEAN
      BY <1>5, <2>1, <2>3 DEF ClearReference
    <3> QED BY <1>5, <2>2, <2>3, <3>1 DEF ClearReference
  <2>4. CASE ~(rfresh /\ verdict = "none")
    BY <1>5, <2>2, <2>4, EndTyped DEF ClearReference
  <2> QED BY <2>3, <2>4
<1>6. CASE RemoveFinalizer
  <2>1. runner' \in [Runners -> Runner] /\ rcurrent' \subseteq Runners
    BY <1>6, Defaults, WriteRunnerTyped DEF RemoveFinalizer
  <2> QED BY <1>6, <2>1, EndTyped DEF RemoveFinalizer
<1>7. CASE ObserveNativeJob
  BY <1>7 DEF ObserveNativeJob, Verdicts, Result
<1>8. CASE ReportStatus
  <2> DEFINE new == IF verdict = "none" THEN [jcopy EXCEPT !.launched = TRUE]
                                       ELSE [jcopy EXCEPT !.result = verdict]
  <2>1. new \in Job
    BY LaunchedUpdate, ResultUpdate
  <2>2. job' \in [Jobs -> Job]
    BY <1>8, <2>1, WriteJobTyped DEF ReportStatus
  <2>3. CASE EndReconcile
    BY <1>8, <2>2, <2>3, EndTyped DEF ReportStatus
  <2>4. CASE /\ pc' \in {"clean", "remove"} /\ jcopy' = new
             /\ UNCHANGED <<rn, rcopy, rfresh, jb, verdict>>
    <3> HIDE DEF new
    <3> QED BY <1>8, <2>1, <2>2, <2>4 DEF ReportStatus
  <2> QED BY <1>8, <2>3, <2>4 DEF ReportStatus
<1>9. CASE RemoveNativeJob
  BY <1>9 DEF RemoveNativeJob, Native, Result
<1>10. CASE CompleteJob
  <2>1. [jcopy EXCEPT !.result = verdict] \in Job
    BY ResultUpdate
  <2>2. job' \in [Jobs -> Job]
    BY <1>10, <2>1, WriteJobTyped DEF CompleteJob
  <2>3. CASE EndReconcile
    BY <1>10, <2>2, <2>3, EndTyped DEF CompleteJob
  <2>4. CASE /\ pc' = "clean" /\ jcopy' = [jcopy EXCEPT !.result = verdict]
             /\ UNCHANGED <<rn, rcopy, rfresh, jb, verdict>>
    BY <1>10, <2>1, <2>2, <2>4 DEF CompleteJob
  <2> QED BY <1>10, <2>3, <2>4 DEF CompleteJob
<1>11. CASE FailBeforeStart
  BY <1>11 DEF FailBeforeStart, Fail, Result
<1>12. CASE RetryBeforeStart
  BY <1>12, EndTyped DEF RetryBeforeStart
<1>13. CASE CheckBeforeStart
  BY <1>13, EndTyped DEF CheckBeforeStart, Fail, Result
<1>14. CASE EnsureSecret
  BY <1>14 DEF EnsureSecret
<1>15. CASE RecheckCancellation
  BY <1>15 DEF RecheckCancellation
<1>16. CASE AbandonStart
  BY <1>16, EndTyped DEF AbandonStart, Fail, Result
<1>17. CASE CreateNativeJob
  BY <1>17 DEF CreateNativeJob, Native
<1>18. CASE ChooseJob
  <2>1. CASE EndReconcile
    BY <1>18, <2>1, EndTyped DEF ChooseJob
  <2>2. ASSUME NEW j \in Jobs, jb' = j, jcopy' = job[j], rcopy' = runner[rn], rfresh' = TRUE,
               pc' = "reserve", UNCHANGED <<rn, verdict>>
        PROVE  TypeOK'
    <3>1. rfresh' \in BOOLEAN
      BY <2>2
    <3> QED BY <1>18, <2>2, <3>1 DEF ChooseJob
  <2> QED BY <1>18, <2>1, <2>2 DEF ChooseJob, Candidates
<1>19. CASE ReserveRunner
  <2>1. [rcopy EXCEPT !.ref = jb] \in Runner
    BY <1>19, RunnerUpdates DEF ReserveRunner
  <2>2. CASE rfresh
    <3>1. runner' \in [Runners -> Runner] /\ rcurrent' \subseteq Runners /\ rcopy' \in Runner
      BY <1>19, <2>1, <2>2, WriteRunnerTyped DEF ReserveRunner
    <3> QED BY <1>19, <2>2, <3>1 DEF ReserveRunner
  <2>3. CASE ~rfresh
    BY <1>19, <2>3, EndTyped DEF ReserveRunner
  <2> QED BY <2>2, <2>3
<1>20. CASE AssignJob
  <2>1. [jcopy EXCEPT !.runner = rn] \in Job
    BY <1>20, RunnerUpdate DEF AssignJob
  <2>2. job' \in [Jobs -> Job]
    BY <1>20, <2>1, WriteJobTyped DEF AssignJob
  <2> QED BY <1>20, <2>2, EndTyped DEF AssignJob
<1>21. CASE AssignJobReplyLost
  <2>1. [jcopy EXCEPT !.runner = rn] \in Job
    BY <1>21, RunnerUpdate DEF AssignJobReplyLost
  <2>2. job' \in [Jobs -> Job]
    BY <1>21, <2>1, WriteJobTyped DEF AssignJobReplyLost
  <2> QED BY <1>21, <2>2 DEF AssignJobReplyLost
<1>22. CASE ReleaseClaim
  <2>1. [runner[rn] EXCEPT !.ref = None] \in Runner
    BY <1>22, RunnerUpdates DEF ReleaseClaim
  <2>2. runner' \in [Runners -> Runner] /\ rcurrent' \subseteq Runners
    BY <1>22, <2>1, WriteRunnerTyped DEF ReleaseClaim
  <2> QED BY <1>22, <2>2, EndTyped DEF ReleaseClaim
<1>23. CASE Fault
  BY <1>23, EndTyped DEF Fault, Incident
<1>24. ASSUME NEW r \in Runners, SyncRunner(r) PROVE TypeOK'
  BY <1>24 DEF SyncRunner
<1>25. ASSUME NEW r \in Runners, DeleteRunner(r) PROVE TypeOK'
  <2>1. rfresh' \in BOOLEAN
    BY <1>25 DEF DeleteRunner
  <2>2. [runner[r] EXCEPT !.life = "deleting"] \in Runner
    BY RunnerUpdates
  <2>3. runner' \in [Runners -> Runner]
    BY <1>25, <2>2 DEF DeleteRunner
  <2> QED BY <1>25, <2>1, <2>3 DEF DeleteRunner, Incident
<1>26. ASSUME NEW j \in Jobs, SyncJob(j) PROVE TypeOK'
  BY <1>26 DEF SyncJob
<1>27. ASSUME NEW j \in Jobs, SyncNative(j) PROVE TypeOK'
  BY <1>27 DEF SyncNative
<1>28. ASSUME NEW j \in Jobs, FinishNativeJob(j) PROVE TypeOK'
  BY <1>28 DEF FinishNativeJob, Native
<1>29. ASSUME NEW j \in Jobs, StopPod(j) PROVE TypeOK'
  BY <1>29 DEF StopPod
<1>30. ASSUME NEW j \in Jobs, LoseNativeJob(j) PROVE TypeOK'
  BY <1>30 DEF LoseNativeJob, Native, Incident
<1>31. ASSUME NEW j \in Jobs, CancelJob(j) PROVE TypeOK'
  <2>1. /\ [job[j] EXCEPT !.result = "over"] \in Job
        /\ [job[j] EXCEPT !.cancel = TRUE] \in Job
    BY ResultUpdate, CancelUpdate DEF Result
  <2>2. job' \in [Jobs -> Job]
    BY <1>31, <2>1 DEF CancelJob
  <2> QED BY <1>31, <2>2 DEF CancelJob, Incident
<1>32. ASSUME NEW j \in Jobs, DeleteJob(j) PROVE TypeOK'
  BY <1>32, Defaults DEF DeleteJob, Incident
<1>33. ASSUME NEW j \in Jobs, CollectNativeJob(j) PROVE TypeOK'
  BY <1>33 DEF CollectNativeJob, Native
<1>34. CASE UNCHANGED vars
  BY <1>34 DEF vars
<1> QED BY <1>1, <1>2, <1>3, <1>4, <1>5, <1>6, <1>7, <1>8, <1>9, <1>10, <1>11,
   <1>12, <1>13, <1>14, <1>15, <1>16, <1>17, <1>18, <1>19, <1>20, <1>21, <1>22,
   <1>23, <1>24, <1>25, <1>26, <1>27, <1>28, <1>29, <1>30, <1>31, <1>32, <1>33,
   <1>34 DEF Next, Step, Environment

-----------------------------------------------------------------------------
(* The assignment is consistent.                                           *)

LEMMA InitConsistent == Init => AssignmentConsistent
<1> SUFFICES ASSUME Init PROVE AssignmentConsistent
  OBVIOUS
<1>1. JobsHeld
  BY Defaults DEF Init, JobsHeld, Assigned
<1>2. CopiesLag
  BY Defaults DEF Init, CopiesLag
<1>3. Knowledge
  BY DEF Init, Knowledge, Executing
<1> QED BY <1>1, <1>2, <1>3 DEF AssignmentConsistent

LEMMA EndKnows ==
    ASSUME EndReconcile
    PROVE  Knowledge' /\ ~rfresh' /\ pc' = "idle"
BY DEF EndReconcile, Knowledge, Executing

LEMMA SameHeld ==
    ASSUME JobsHeld, UNCHANGED <<job, runner, secret>>
    PROVE  JobsHeld'
BY DEF JobsHeld, Assigned, Holds

(* A step that writes no object and fills no cache.                        *)
LEMMA SameCopies ==
    ASSUME CopiesLag, UNCHANGED <<job, runner, caches>>,
           \/ EndReconcile
           \/ UNCHANGED <<rn, rcopy, rfresh>> /\ pc # "idle"
           \/ UNCHANGED <<rn, rcopy, rfresh, pc>>
    PROVE  CopiesLag'
BY EndKnows DEF CopiesLag, caches

(* A Runner without reference holds no job.                                *)
LEMMA FreeRunner ==
    ASSUME TypeOK, JobsHeld, NEW r \in Runners, runner[r].ref = None
    PROVE  \A j \in Assigned \cup secret : job[j].runner # r
BY NoneAssumption DEF TypeOK, JobsHeld, Holds, Assigned

(* The Runner of the reconcile is written while it holds no job.           *)
LEMMA RunnerWritten ==
    ASSUME TypeOK, JobsHeld, pc # "idle", NEW n \in Runner, WriteRunner(n),
           UNCHANGED <<job, secret>>, \A j \in Assigned \cup secret : job[j].runner # rn
    PROVE  JobsHeld'
BY DEF TypeOK, WriteRunner, JobsHeld, Assigned, Holds

LEMMA RunnerWrittenCopies ==
    ASSUME TypeOK, CopiesLag, pc # "idle", NEW n \in Runner, WriteRunner(n),
           UNCHANGED <<job, rcache, jcache>>,
           \/ EndReconcile
           \/ rn' = rn /\ rcopy' = n /\ n.life # "gone"
    PROVE  CopiesLag'
BY EndKnows DEF TypeOK, WriteRunner, CopiesLag

(* A write to the WorkflowJob of the reconcile that keeps its Runner.      *)
LEMMA JobWritten ==
    ASSUME TypeOK, JobsHeld, NEW n \in Job, WriteJob(n), UNCHANGED <<runner, secret>>,
           n.exists = job[jb].exists, n.runner = job[jb].runner,
           n.result = "none" => job[jb].result = "none"
    PROVE  JobsHeld'
<1>1. SUFFICES ASSUME NEW j \in Jobs, (j \in Assigned \cup secret)'
               PROVE  (job[j].exists /\ job[j].runner # None /\ Holds(job[j].runner, j))'
  BY DEF JobsHeld
<1>2. CASE j # jb
  BY <1>1, <1>2 DEF TypeOK, WriteJob, JobsHeld, Assigned, Holds, Unfinished
<1>3. CASE j = jb
  <2>1. job'[jb] = n
    BY <1>3 DEF TypeOK, WriteJob
  <2>2. jb \in Assigned \cup secret
    BY <1>1, <1>3, <2>1 DEF Assigned, Unfinished
  <2> QED BY <1>3, <2>1, <2>2 DEF JobsHeld, Holds
<1> QED BY <1>2, <1>3

LEMMA JobWrittenCopies ==
    ASSUME TypeOK, CopiesLag, jb \in Jobs, NEW n \in Job, WriteJob(n),
           UNCHANGED <<runner, caches>>,
           n.exists = job[jb].exists, job[jb].runner # None => n.runner = job[jb].runner,
           \/ EndReconcile
           \/ UNCHANGED <<rn, rcopy, rfresh>> /\ pc # "idle"
    PROVE  CopiesLag'
<1>1. \A j \in Jobs : jcache'[j].runner # None => job'[j].runner = jcache'[j].runner \/ ~job'[j].exists
  <2> SUFFICES ASSUME NEW j \in Jobs, jcache'[j].runner # None
               PROVE  job'[j].runner = jcache'[j].runner \/ ~job'[j].exists
    OBVIOUS
  <2>1. CASE j # jb
    BY <2>1 DEF TypeOK, WriteJob, CopiesLag, caches
  <2>2. CASE j = jb
    <3>1. job'[jb] = n
      BY DEF TypeOK, WriteJob
    <3>2. job[jb].runner = jcache[jb].runner \/ ~job[jb].exists
      BY <2>2 DEF CopiesLag, caches
    <3> QED BY <2>2, <3>1, <3>2 DEF caches
  <2> QED BY <2>1, <2>2
<1> QED BY <1>1, EndKnows DEF CopiesLag, caches

LEMMA NextConsistent ==
    ASSUME MaxLostReplies = 0, TypeOK, TypeOK', AssignmentConsistent, [Next]_vars
    PROVE  AssignmentConsistent'
<1> USE NoneAssumption DEF AssignmentConsistent, cluster, caches, locals
<1>1. ASSUME NEW r \in Runners, Reconcile(r) PROVE AssignmentConsistent'
  <2>1. JobsHeld'
    BY <1>1, SameHeld DEF Reconcile
  <2>2. CopiesLag'
    BY <1>1 DEF Reconcile, CopiesLag
  <2>3. Knowledge'
    BY <1>1 DEF Reconcile, Knowledge, Executing, Holds, Unfinished, CopiesLag,
       TypeOK, Listed
  <2> QED BY <2>1, <2>2, <2>3
<1>2. CASE GetAssignedJob
  <2>1. JobsHeld'
    BY <1>2, SameHeld DEF GetAssignedJob
  <2>2. CopiesLag'
    BY <1>2, SameCopies DEF GetAssignedJob
  <2>3. Knowledge'
    BY <1>2 DEF GetAssignedJob, AfterGet, Knowledge, Executing, Holds, Unfinished,
       JobsHeld, Assigned, TypeOK
  <2> QED BY <2>1, <2>2, <2>3
<1>3. CASE AdoptJob
  <2> DEFINE new == [rcopy EXCEPT !.ref = jb]
  <2>0. new \in Runner /\ new.ref = jb /\ new.life = rcopy.life
    BY <1>3, RunnerUpdates, ZenonT(40) DEF AdoptJob, TypeOK
  <2>1. CASE rfresh
    <3>1. runner[rn].ref = None /\ rcopy.life # "gone" /\ rn \in Runners
      BY <1>3, <2>1 DEF AdoptJob, TypeOK, CopiesLag, Knowledge
    <3>2. /\ pc = "adopt" /\ pc' = "observe" /\ WriteRunner(new) /\ rcopy' = new
          /\ UNCHANGED <<rn, rfresh, jb, jcopy, verdict, job, secret, rcache, jcache>>
      BY <1>3, <2>1 DEF AdoptJob
    <3> HIDE DEF new
    <3>3. JobsHeld'
      BY <2>0, <3>1, <3>2, FreeRunner, RunnerWritten
    <3>4. CopiesLag'
      BY <2>0, <3>1, <3>2, RunnerWrittenCopies
    <3>5. Holds(rn, jb)'
      BY <2>0, <3>1, <3>2 DEF TypeOK, WriteRunner, Holds
    <3>6. Knowledge'
      BY <2>0, <3>1, <3>2, <3>5, FreeRunner DEF Knowledge, Executing, TypeOK, Assigned, Unfinished
    <3> QED BY <3>3, <3>4, <3>6
  <2>2. CASE ~rfresh
    <3>1. EndReconcile /\ UNCHANGED <<job, runner, secret, caches>>
      BY <1>3, <2>2 DEF AdoptJob, caches
    <3> QED BY <3>1, EndKnows, SameHeld, SameCopies
  <2> QED BY <2>1, <2>2
<1>4. CASE CleanupSecret
  <2>1. JobsHeld'
    BY <1>4 DEF CleanupSecret, JobsHeld, Assigned, Holds
  <2>2. CopiesLag'
    BY <1>4, SameCopies DEF CleanupSecret
  <2>3. Knowledge'
    BY <1>4 DEF CleanupSecret, Knowledge, Executing
  <2> QED BY <2>1, <2>2, <2>3
<1>5. CASE ClearReference
  <2> DEFINE new == [rcopy EXCEPT !.ref = None]
  <2>0. new \in Runner /\ new.ref = None /\ new.life = rcopy.life
    BY RunnerUpdates DEF TypeOK
  <2>1. CASE rfresh
    <3>1. /\ pc = "clear" /\ rn \in Runners /\ jb \in Jobs /\ WriteRunner(new)
          /\ UNCHANGED <<job, secret, rcache, jcache>>
      BY <1>5, <2>1 DEF ClearReference, TypeOK
    <3>2. \A j \in Assigned \cup secret : job[j].runner # rn
      BY <2>1, <3>1 DEF TypeOK, JobsHeld, CopiesLag, Knowledge, Holds, Assigned
    <3>3. rcopy.life # "gone"
      BY <3>1 DEF CopiesLag
    <3>4. JobsHeld'
      BY <2>0, <3>1, <3>2, RunnerWritten
    <3>5. CASE EndReconcile
      BY <2>0, <3>1, <3>4, <3>5, EndKnows, RunnerWrittenCopies
    <3>6. CASE /\ rn' = rn /\ rcopy' = new /\ pc' \in {"unfinalize", "claim"}
      <4>1. CopiesLag'
        BY <2>0, <3>1, <3>3, <3>6, RunnerWrittenCopies
      <4>2. Knowledge'
        BY <2>0, <3>6 DEF Knowledge, Executing
      <4> QED BY <3>4, <4>1, <4>2
    <3> QED BY <1>5, <2>1, <3>5, <3>6 DEF ClearReference
  <2>2. CASE ~rfresh
    <3>1. EndReconcile /\ UNCHANGED <<job, runner, secret, caches>>
      BY <1>5, <2>2 DEF ClearReference, caches
    <3> QED BY <3>1, EndKnows, SameHeld, SameCopies
  <2> QED BY <2>1, <2>2
<1>6. CASE RemoveFinalizer
  <2>1. JobsHeld'
    <3>1. CASE rfresh
      <4>1. runner[rn].ref = None /\ rn \in Runners
        BY <1>6, <3>1 DEF RemoveFinalizer, TypeOK, CopiesLag, Knowledge
      <4>2. /\ pc # "idle" /\ WriteRunner(NoRunner) /\ UNCHANGED <<job, secret>>
        BY <1>6, <3>1 DEF RemoveFinalizer
      <4> QED BY <4>1, <4>2, Defaults, FreeRunner, RunnerWritten
    <3>2. CASE ~rfresh
      BY <1>6, <3>2, SameHeld DEF RemoveFinalizer
    <3> QED BY <3>1, <3>2
  <2>2. CopiesLag'
    BY <1>6, EndKnows DEF RemoveFinalizer, WriteRunner, CopiesLag, TypeOK
  <2>3. Knowledge'
    BY <1>6, EndKnows DEF RemoveFinalizer
  <2> QED BY <2>1, <2>2, <2>3
<1>7. CASE ObserveNativeJob
  <2>1. JobsHeld'
    BY <1>7, SameHeld DEF ObserveNativeJob
  <2>2. CopiesLag'
    BY <1>7, SameCopies DEF ObserveNativeJob
  <2>3. Knowledge'
    BY <1>7 DEF ObserveNativeJob, ReadNative, Verdicts, Knowledge, Executing, Holds
  <2> QED BY <2>1, <2>2, <2>3
<1>8. CASE ReportStatus
  <2> DEFINE new == IF verdict = "none" THEN [jcopy EXCEPT !.launched = TRUE]
                                       ELSE [jcopy EXCEPT !.result = verdict]
  <2>1. /\ pc = "report" /\ jb \in Jobs /\ Unfinished(jcopy) /\ Holds(rn, jb)
        /\ UNCHANGED <<runner, secret, caches>>
    BY <1>8 DEF ReportStatus, TypeOK, Knowledge, Executing
  <2>2. new \in Job /\ new.exists = jcopy.exists /\ new.runner = jcopy.runner
    BY LaunchedUpdate, ResultUpdate DEF TypeOK, SameButLaunched, SameButResult
  <2>3. /\ verdict = "none" => new.launched /\ new.result = "none"
        /\ verdict # "none" => new.result # "none" /\ new # jcopy
    <3>1. CASE verdict = "none"
      <4>1. new = [jcopy EXCEPT !.launched = TRUE]
        BY <3>1
      <4> QED BY <2>1, <3>1, <4>1, LaunchedUpdate, Zenon DEF TypeOK, SameButLaunched, Unfinished
    <3>2. CASE verdict # "none"
      <4>1. new = [jcopy EXCEPT !.result = verdict]
        BY <3>2
      <4>2. new.result = verdict
        BY <4>1, ResultUpdate DEF TypeOK
      <4> QED BY <2>1, <3>2, <4>2 DEF Unfinished
    <3> QED BY <3>1, <3>2
  <2>4. CASE new # jcopy /\ JobUnchanged
    <3>1. WriteJob(new) /\ jcopy = job[jb]
      BY <1>8, <2>4 DEF ReportStatus, JobUnchanged
    <3>2. \/ EndReconcile
          \/ /\ UNCHANGED <<rn, rcopy, rfresh, jb, verdict>> /\ jcopy' = new
             /\ pc' = IF verdict = "none" THEN "remove" ELSE "clean"
      BY <1>8, <2>4 DEF ReportStatus
    <3> HIDE DEF new
    <3>3. JobsHeld'
      BY <2>1, <2>2, <2>3, <3>1, JobWritten DEF Unfinished
    <3>4. CopiesLag'
      BY <2>1, <2>2, <3>1, <3>2, JobWrittenCopies
    <3>5. job'[jb] = new
      BY <2>1, <3>1 DEF TypeOK, WriteJob
    <3>6. CASE EndReconcile
      BY <3>3, <3>4, <3>6, EndKnows
    <3>7. CASE /\ UNCHANGED <<rn, rcopy, rfresh, jb, verdict>> /\ jcopy' = new
               /\ pc' = "remove" /\ verdict = "none"
      <4>1. Unfinished(new)
        BY <2>1, <2>2, <2>3, <3>7 DEF Unfinished
      <4>2. new.exists => new.runner = rn
        BY <2>1, <2>2, <3>1 DEF Knowledge, Executing
      <4>3. Knowledge'
        BY <2>1, <3>5, <3>7, <4>1, <4>2 DEF Knowledge, Executing, Holds
      <4> QED BY <3>3, <3>4, <4>3
    <3>8. CASE /\ UNCHANGED <<rn, rcopy, rfresh, jb, verdict>>
               /\ pc' = "clean" /\ verdict # "none"
      <4>1. Knowledge'
        BY <2>1, <2>3, <3>5, <3>8 DEF Knowledge, Executing, Unfinished
      <4> QED BY <3>3, <3>4, <4>1
    <3> QED BY <3>2, <3>6, <3>7, <3>8
  <2>5. CASE ~(new # jcopy /\ JobUnchanged)
    <3>1. UNCHANGED job
      BY <1>8, <2>5 DEF ReportStatus
    <3>2. \/ EndReconcile
          \/ /\ UNCHANGED <<rn, rcopy, rfresh, jb, verdict>> /\ jcopy' = jcopy
             /\ pc' = "remove"
      BY <1>8, <2>3, <2>5 DEF ReportStatus
    <3>3. Knowledge'
      BY <2>1, <3>1, <3>2, EndKnows DEF Knowledge, Executing, Holds
    <3> QED BY <2>1, <3>1, <3>2, <3>3, SameHeld, SameCopies
  <2> QED BY <2>4, <2>5
<1>9. CASE RemoveNativeJob
  <2>1. JobsHeld'
    BY <1>9, SameHeld DEF RemoveNativeJob
  <2>2. CopiesLag'
    BY <1>9, SameCopies DEF RemoveNativeJob
  <2>3. Knowledge'
    BY <1>9 DEF RemoveNativeJob, Knowledge, Executing, Holds
  <2> QED BY <2>1, <2>2, <2>3
<1>10. CASE CompleteJob
  <2> DEFINE new == [jcopy EXCEPT !.result = verdict]
  <2>1. /\ pc = "complete" /\ jb \in Jobs /\ verdict # "none" /\ Holds(rn, jb)
        /\ UNCHANGED <<runner, secret, caches>>
    BY <1>10 DEF CompleteJob, TypeOK, Knowledge, Executing
  <2>2. new \in Job /\ new.exists = jcopy.exists /\ new.runner = jcopy.runner /\ new.result = verdict
    BY ResultUpdate DEF TypeOK, SameButResult
  <2>3. CASE JobUnchanged
    <3>1. /\ WriteJob(new) /\ jcopy = job[jb]
          /\ UNCHANGED <<rn, rcopy, rfresh, jb, verdict>> /\ pc' = "clean"
      BY <1>10, <2>3 DEF CompleteJob, JobUnchanged
    <3> HIDE DEF new
    <3>2. JobsHeld'
      BY <2>1, <2>2, <3>1, JobWritten
    <3>3. CopiesLag'
      BY <2>1, <2>2, <3>1, JobWrittenCopies
    <3>4. job'[jb] = new
      BY <2>1, <3>1 DEF TypeOK, WriteJob
    <3>5. Knowledge'
      BY <2>1, <2>2, <3>1, <3>4 DEF Knowledge, Executing, Unfinished
    <3> QED BY <3>2, <3>3, <3>5
  <2>4. CASE ~JobUnchanged
    <3>1. UNCHANGED job
      BY <1>10, <2>4 DEF CompleteJob
    <3>2. \/ EndReconcile
          \/ /\ UNCHANGED <<rn, rcopy, rfresh, jb, verdict>> /\ pc' = "clean"
             /\ ~job[jb].exists
      BY <1>10, <2>4 DEF CompleteJob
    <3>3. Knowledge'
      BY <2>1, <3>1, <3>2, EndKnows DEF Knowledge, Executing, Unfinished
    <3> QED BY <2>1, <3>1, <3>2, <3>3, SameHeld, SameCopies
  <2> QED BY <2>3, <2>4
<1>11. CASE FailBeforeStart
  <2>1. JobsHeld'
    BY <1>11, SameHeld DEF FailBeforeStart
  <2>2. CopiesLag'
    BY <1>11, SameCopies DEF FailBeforeStart
  <2>3. Knowledge'
    BY <1>11 DEF FailBeforeStart, Fail, Knowledge, Executing, Holds
  <2> QED BY <2>1, <2>2, <2>3
<1>12. CASE RetryBeforeStart
  <2>1. JobsHeld'
    BY <1>12, SameHeld DEF RetryBeforeStart
  <2>2. CopiesLag'
    BY <1>12, SameCopies DEF RetryBeforeStart
  <2>3. Knowledge'
    BY <1>12, EndKnows DEF RetryBeforeStart
  <2> QED BY <2>1, <2>2, <2>3
<1>13. CASE CheckBeforeStart
  <2>1. JobsHeld'
    BY <1>13, SameHeld DEF CheckBeforeStart
  <2>2. CopiesLag'
    BY <1>13, SameCopies DEF CheckBeforeStart
  <2>3. Knowledge'
    BY <1>13, EndKnows DEF CheckBeforeStart, CancellationRequested, Launched,
       ActivePods, Fail, Knowledge, Executing, Holds
  <2> QED BY <2>1, <2>2, <2>3
<1>14. CASE EnsureSecret
  <2>1. JobsHeld'
    <3>1. jb \in Jobs /\ Holds(rn, jb) /\ (job[jb].exists => job[jb].runner = rn) /\ rn \in Runners
      BY <1>14 DEF EnsureSecret, TypeOK, Knowledge, Executing
    <3>2. UNCHANGED <<runner, job>>
      BY <1>14 DEF EnsureSecret
    <3>3. CASE job[jb].exists
      <4>1. secret' = secret \cup {jb}
        BY <1>14, <3>3 DEF EnsureSecret
      <4> QED BY <3>1, <3>2, <3>3, <4>1 DEF JobsHeld, Assigned, Holds
    <3>4. CASE ~job[jb].exists
      BY <1>14, <3>2, <3>4, SameHeld DEF EnsureSecret
    <3> QED BY <3>3, <3>4
  <2>2. CopiesLag'
    BY <1>14, SameCopies DEF EnsureSecret
  <2>3. Knowledge'
    BY <1>14 DEF EnsureSecret, Knowledge, Executing, Holds
  <2> QED BY <2>1, <2>2, <2>3
<1>15. CASE RecheckCancellation
  <2>1. JobsHeld'
    BY <1>15, SameHeld DEF RecheckCancellation
  <2>2. CopiesLag'
    BY <1>15, SameCopies DEF RecheckCancellation
  <2>3. Knowledge'
    BY <1>15 DEF RecheckCancellation, CancellationRequested, Knowledge, Executing,
       Holds
  <2> QED BY <2>1, <2>2, <2>3
<1>16. CASE AbandonStart
  <2>1. JobsHeld'
    BY <1>16 DEF AbandonStart, Fail, JobsHeld, Assigned, Holds
  <2>2. CopiesLag'
    BY <1>16, SameCopies DEF AbandonStart
  <2>3. Knowledge'
    BY <1>16, EndKnows DEF AbandonStart, Fail, Knowledge, Executing, Holds
  <2> QED BY <2>1, <2>2, <2>3
<1>17. CASE CreateNativeJob
  <2>1. JobsHeld'
    BY <1>17, SameHeld DEF CreateNativeJob
  <2>2. CopiesLag'
    BY <1>17, SameCopies DEF CreateNativeJob
  <2>3. Knowledge'
    BY <1>17 DEF CreateNativeJob, Knowledge, Executing, Holds
  <2> QED BY <2>1, <2>2, <2>3
<1>18. CASE ChooseJob
  <2>0. JobsHeld' /\ UNCHANGED <<job, runner, caches>>
    BY <1>18, SameHeld DEF ChooseJob, cluster
  <2>1. CASE EndReconcile
    BY <2>0, <2>1, EndKnows, SameCopies
  <2>2. ASSUME NEW j \in Jobs, Queued(job[j]), Claimable(rn), jb' = j, rcopy' = runner[rn],
               rfresh' = TRUE, pc' = "reserve", rn' = rn
        PROVE  AssignmentConsistent'
    <3>1. CopiesLag'
      <4>1. rn \in Runners
        BY <1>18 DEF ChooseJob, TypeOK
      <4> QED BY <2>0, <2>2, <4>1 DEF CopiesLag, caches, Claimable
    <3>2. Knowledge'
      BY <2>0, <2>2 DEF Knowledge, Executing, Claimable, Queued
    <3> QED BY <2>0, <3>1, <3>2
  <2> QED BY <1>18, <2>1, <2>2 DEF ChooseJob, Candidates
<1>19. CASE ReserveRunner
  <2> DEFINE new == [rcopy EXCEPT !.ref = jb]
  <2>0. new \in Runner /\ new.ref = jb /\ new.life = rcopy.life
    BY <1>19, RunnerUpdates DEF ReserveRunner, TypeOK
  <2>1. CASE rfresh
    <3>1. runner[rn].ref = None /\ rcopy.life # "gone" /\ rn \in Runners
      BY <1>19, <2>1 DEF ReserveRunner, TypeOK, CopiesLag, Knowledge
    <3>2. /\ pc = "reserve" /\ pc' = "assign" /\ WriteRunner(new) /\ rcopy' = new
          /\ UNCHANGED <<rn, rfresh, jb, jcopy, verdict, job, secret, rcache, jcache>>
      BY <1>19, <2>1 DEF ReserveRunner
    <3> HIDE DEF new
    <3>3. JobsHeld'
      BY <2>0, <3>1, <3>2, FreeRunner, RunnerWritten
    <3>4. CopiesLag'
      BY <2>0, <3>1, <3>2, RunnerWrittenCopies
    <3>5. Holds(rn, jb)'
      BY <2>0, <3>1, <3>2 DEF TypeOK, WriteRunner, Holds
    <3>6. Knowledge'
      BY <2>0, <3>1, <3>2, <3>5, FreeRunner DEF Knowledge, Executing, TypeOK, Assigned, Unfinished
    <3> QED BY <3>3, <3>4, <3>6
  <2>2. CASE ~rfresh
    <3>1. EndReconcile /\ UNCHANGED <<job, runner, secret, caches>>
      BY <1>19, <2>2 DEF ReserveRunner, caches
    <3> QED BY <3>1, EndKnows, SameHeld, SameCopies
  <2> QED BY <2>1, <2>2
<1>20. CASE AssignJob
  <2> DEFINE new == [jcopy EXCEPT !.runner = rn]
  <2>1. /\ pc = "assign" /\ jb \in Jobs /\ rn \in Runners /\ Holds(rn, jb)
        /\ job[jb].runner = None /\ UNCHANGED <<runner, secret, caches>>
    BY <1>20 DEF AssignJob, TypeOK, Knowledge
  <2>2. new \in Job /\ new.exists = jcopy.exists /\ new.runner = rn
    BY <2>1, RunnerUpdate DEF TypeOK, SameButRunner
  <2>3. CASE JobUnchanged
    <3>1. WriteJob(new) /\ jcopy = job[jb] /\ EndReconcile
      BY <1>20, <2>3 DEF AssignJob, JobUnchanged
    <3> HIDE DEF new
    <3>2. CopiesLag'
      BY <2>1, <2>2, <3>1, JobWrittenCopies
    <3>3. job'[jb] = new /\ \A j \in Jobs \ {jb} : job'[j] = job[j]
      BY <2>1, <3>1 DEF TypeOK, WriteJob
    <3>4. jb \notin secret
      BY <2>1 DEF JobsHeld
    <3>5. JobsHeld'
      <4> SUFFICES ASSUME NEW j \in Jobs, (j \in Assigned \cup secret)'
                   PROVE  (job[j].exists /\ job[j].runner # None /\ Holds(job[j].runner, j))'
        BY DEF JobsHeld
      <4>1. CASE j = jb
        BY <2>1, <2>2, <3>3, <3>4, <4>1 DEF Assigned, Unfinished, Holds
      <4>2. CASE j # jb
        BY <2>1, <3>3, <4>2 DEF JobsHeld, Assigned, Unfinished, Holds
      <4> QED BY <4>1, <4>2
    <3> QED BY <3>1, <3>2, <3>5, EndKnows
  <2>4. CASE ~JobUnchanged
    <3>1. /\ UNCHANGED <<job, rn, rcopy, rfresh, jb, jcopy, verdict>> /\ pc' = "release"
      BY <1>20, <2>4 DEF AssignJob, locals
    <3>2. Knowledge'
      BY <2>1, <3>1 DEF Knowledge, Executing
    <3> QED BY <2>1, <3>1, <3>2, SameHeld, SameCopies
  <2> QED BY <2>3, <2>4
<1>21. CASE AssignJobReplyLost
  BY <1>21 DEF AssignJobReplyLost, TypeOK
<1>22. CASE ReleaseClaim
  <2>1. JobsHeld'
    <3>1. CASE runner[rn].ref = jb
      <4>1. [runner[rn] EXCEPT !.ref = None] \in Runner
        BY <1>22, RunnerUpdates, ZenonT(40) DEF ReleaseClaim, TypeOK
      <4>2. \A j \in Assigned \cup secret : job[j].runner # rn
        BY <1>22, <3>1 DEF ReleaseClaim, TypeOK, JobsHeld, Knowledge, Holds, Assigned
      <4> QED BY <1>22, <3>1, <4>1, <4>2, RunnerWritten DEF ReleaseClaim
    <3>2. CASE runner[rn].ref # jb
      BY <1>22, <3>2, SameHeld DEF ReleaseClaim
    <3> QED BY <3>1, <3>2
  <2>2. CopiesLag'
    BY <1>22, EndKnows DEF ReleaseClaim, WriteRunner, CopiesLag, TypeOK
  <2>3. Knowledge'
    BY <1>22, EndKnows DEF ReleaseClaim
  <2> QED BY <2>1, <2>2, <2>3
<1>23. CASE Fault
  <2>1. JobsHeld'
    BY <1>23, SameHeld DEF Fault
  <2>2. CopiesLag'
    BY <1>23, SameCopies DEF Fault
  <2>3. Knowledge'
    BY <1>23, EndKnows DEF Fault
  <2> QED BY <2>1, <2>2, <2>3
<1>24. ASSUME NEW r \in Runners, SyncRunner(r) PROVE AssignmentConsistent'
  <2>1. JobsHeld'
    BY <1>24, SameHeld DEF SyncRunner
  <2>2. CopiesLag'
    BY <1>24 DEF SyncRunner, CopiesLag, TypeOK
  <2>3. Knowledge'
    BY <1>24 DEF SyncRunner, Knowledge, Executing, Holds
  <2> QED BY <2>1, <2>2, <2>3
<1>25. ASSUME NEW r \in Runners, DeleteRunner(r) PROVE AssignmentConsistent'
  <2>1. JobsHeld'
    BY <1>25 DEF DeleteRunner, JobsHeld, Assigned, Holds
  <2>2. CopiesLag'
    <3>1. /\ \A q \in Runners \ {r} : runner'[q] = runner[q]
          /\ rcurrent' = rcurrent \ {r}
          /\ UNCHANGED <<job, rcache, jcache, pc, rn, rcopy>>
      BY <1>25 DEF DeleteRunner, TypeOK
    <3>2. rfresh' => rfresh /\ rn # r
      BY <1>25 DEF DeleteRunner
    <3>3. rfresh' => rn' \in Runners /\ rcopy' = runner'[rn']
      BY <3>1, <3>2 DEF CopiesLag
    <3> QED BY <3>1, <3>3 DEF CopiesLag
  <2>3. Knowledge'
    BY <1>25 DEF DeleteRunner, Knowledge, Executing, Holds
  <2> QED BY <2>1, <2>2, <2>3
<1>26. ASSUME NEW j \in Jobs, SyncJob(j) PROVE AssignmentConsistent'
  <2>1. JobsHeld'
    BY <1>26, SameHeld DEF SyncJob
  <2>2. CopiesLag'
    BY <1>26 DEF SyncJob, CopiesLag
  <2>3. Knowledge'
    BY <1>26 DEF SyncJob, Knowledge, Executing, Holds
  <2> QED BY <2>1, <2>2, <2>3
<1>27. ASSUME NEW j \in Jobs, SyncNative(j) PROVE AssignmentConsistent'
  <2>1. JobsHeld'
    BY <1>27, SameHeld DEF SyncNative
  <2>2. CopiesLag'
    BY <1>27 DEF SyncNative, CopiesLag
  <2>3. Knowledge'
    BY <1>27 DEF SyncNative, Knowledge, Executing, Holds
  <2> QED BY <2>1, <2>2, <2>3
<1>28. ASSUME NEW j \in Jobs, FinishNativeJob(j) PROVE AssignmentConsistent'
  <2>1. JobsHeld'
    BY <1>28, SameHeld DEF FinishNativeJob
  <2>2. CopiesLag'
    BY <1>28, SameCopies DEF FinishNativeJob
  <2>3. Knowledge'
    BY <1>28 DEF FinishNativeJob, Knowledge, Executing, Holds
  <2> QED BY <2>1, <2>2, <2>3
<1>29. ASSUME NEW j \in Jobs, StopPod(j) PROVE AssignmentConsistent'
  <2>1. JobsHeld'
    BY <1>29, SameHeld DEF StopPod
  <2>2. CopiesLag'
    BY <1>29, SameCopies DEF StopPod
  <2>3. Knowledge'
    BY <1>29 DEF StopPod, Knowledge, Executing, Holds
  <2> QED BY <2>1, <2>2, <2>3
<1>30. ASSUME NEW j \in Jobs, LoseNativeJob(j) PROVE AssignmentConsistent'
  <2>1. JobsHeld'
    BY <1>30, SameHeld DEF LoseNativeJob
  <2>2. CopiesLag'
    BY <1>30, SameCopies DEF LoseNativeJob
  <2>3. Knowledge'
    BY <1>30 DEF LoseNativeJob, Knowledge, Executing, Holds
  <2> QED BY <2>1, <2>2, <2>3
<1>31. ASSUME NEW j \in Jobs, CancelJob(j) PROVE AssignmentConsistent'
  <2>1. JobsHeld'
    BY <1>31 DEF CancelJob, JobsHeld, Assigned, Holds
  <2>2. CopiesLag'
    BY <1>31 DEF CancelJob, CopiesLag
  <2>3. Knowledge'
    BY <1>31 DEF CancelJob, Knowledge, Executing, Holds
  <2> QED BY <2>1, <2>2, <2>3
<1>32. ASSUME NEW j \in Jobs, DeleteJob(j) PROVE AssignmentConsistent'
  <2>1. /\ job'[j] = NoJob /\ \A k \in Jobs \ {j} : job'[k] = job[k]
        /\ secret' = secret \ {j}
        /\ UNCHANGED <<runner, caches, pc, locals>>
    BY <1>32 DEF DeleteJob, TypeOK
  <2>2. ~NoJob.exists /\ NoJob.runner = None
    BY Defaults
  <2>3. JobsHeld'
    BY <2>1, <2>2 DEF JobsHeld, Assigned, Unfinished, Holds
  <2>4. CopiesLag'
    BY <2>1, <2>2 DEF CopiesLag, caches, locals
  <2>5. Knowledge'
    BY <2>1, <2>2 DEF TypeOK, Knowledge, Executing, Unfinished, Holds, locals
  <2> QED BY <2>3, <2>4, <2>5
<1>33. ASSUME NEW j \in Jobs, CollectNativeJob(j) PROVE AssignmentConsistent'
  <2>1. JobsHeld'
    BY <1>33, SameHeld DEF CollectNativeJob
  <2>2. CopiesLag'
    BY <1>33, SameCopies DEF CollectNativeJob
  <2>3. Knowledge'
    BY <1>33 DEF CollectNativeJob, Knowledge, Executing, Holds
  <2> QED BY <2>1, <2>2, <2>3
<1>34. CASE UNCHANGED vars
  <2>1. JobsHeld'
    BY <1>34, SameHeld DEF vars, cluster
  <2>2. CopiesLag'
    BY <1>34, SameCopies DEF vars, cluster, locals
  <2>3. Knowledge'
    BY <1>34 DEF vars, cluster, locals, Knowledge, Holds
  <2> QED BY <2>1, <2>2, <2>3
<1> QED BY <1>1, <1>2, <1>3, <1>4, <1>5, <1>6, <1>7, <1>8, <1>9, <1>10, <1>11,
   <1>12, <1>13, <1>14, <1>15, <1>16, <1>17, <1>18, <1>19, <1>20, <1>21, <1>22,
   <1>23, <1>24, <1>25, <1>26, <1>27, <1>28, <1>29, <1>30, <1>31, <1>32, <1>33,
   <1>34 DEF Next, Step, Environment

-----------------------------------------------------------------------------
(* What the states with a consistent assignment have in common.            *)

LEMMA ConsistentExclusive ==
    ASSUME TypeOK, AssignmentConsistent
    PROVE  SlotExclusive /\ BusyRunnerStays /\ SecretHasCleaner
<1>1. SlotExclusive
  BY DEF AssignmentConsistent, JobsHeld, Holds, SlotExclusive, Assigned
<1>2. BusyRunnerStays
  BY DEF AssignmentConsistent, JobsHeld, Holds, BusyRunnerStays, Assigned
<1>3. SecretHasCleaner
  <2> SUFFICES ASSUME NEW j \in secret
               PROVE  \E r \in Runners : runner[r].life # "gone" /\ runner[r].ref = j
    BY DEF SecretHasCleaner
  <2>1. j \in Jobs
    BY DEF TypeOK
  <2>2. job[j].runner # None /\ Holds(job[j].runner, j)
    BY <2>1 DEF AssignmentConsistent, JobsHeld
  <2>3. job[j].runner \in Runners
    BY <2>1, <2>2 DEF TypeOK, Job
  <2> QED BY <2>2, <2>3 DEF Holds
<1> QED BY <1>1, <1>2, <1>3

(* Only createNativeJob creates a native Job, and only for its own job.    *)
LEMMA OnlyCreateLaunches ==
    ASSUME TypeOK, [Next]_vars, NEW j \in Jobs, Launch(j)
    PROVE  CreateNativeJob /\ j = jb
<1> USE DEF Launch, TypeOK, cluster
<1>1. ASSUME NEW r \in Runners, Reconcile(r) PROVE FALSE
  BY <1>1 DEF Reconcile
<1>2. CASE \/ GetAssignedJob \/ AdoptJob \/ CleanupSecret \/ ClearReference \/ RemoveFinalizer
           \/ ObserveNativeJob \/ ReportStatus \/ CompleteJob
  BY <1>2 DEF GetAssignedJob, AdoptJob, CleanupSecret, ClearReference, RemoveFinalizer,
              ObserveNativeJob, ReportStatus, CompleteJob
<1>3. CASE \/ FailBeforeStart \/ RetryBeforeStart \/ CheckBeforeStart \/ EnsureSecret
           \/ RecheckCancellation \/ AbandonStart
  BY <1>3 DEF FailBeforeStart, RetryBeforeStart, CheckBeforeStart, EnsureSecret,
              RecheckCancellation, AbandonStart
<1>4. CASE \/ ChooseJob \/ ReserveRunner \/ AssignJob \/ AssignJobReplyLost \/ ReleaseClaim \/ Fault
  BY <1>4 DEF ChooseJob, ReserveRunner, AssignJob, AssignJobReplyLost, ReleaseClaim, Fault
<1>5. CASE RemoveNativeJob
  BY <1>5 DEF RemoveNativeJob
<1>6. CASE CreateNativeJob
  BY <1>6 DEF CreateNativeJob
<1>7. ASSUME NEW r \in Runners, SyncRunner(r) \/ DeleteRunner(r) PROVE FALSE
  BY <1>7 DEF SyncRunner, DeleteRunner
<1>8. ASSUME NEW k \in Jobs,
             \/ SyncJob(k) \/ SyncNative(k) \/ FinishNativeJob(k) \/ StopPod(k)
             \/ LoseNativeJob(k) \/ CancelJob(k) \/ DeleteJob(k) \/ CollectNativeJob(k)
      PROVE  FALSE
  BY <1>8 DEF SyncJob, SyncNative, FinishNativeJob, StopPod, LoseNativeJob, CancelJob,
              DeleteJob, CollectNativeJob
<1>9. CASE UNCHANGED vars
  BY <1>9 DEF vars
<1> QED BY <1>1, <1>2, <1>3, <1>4, <1>5, <1>6, <1>7, <1>8, <1>9 DEF Next, Step, Environment

LEMMA ConsistentNoRestart ==
    ASSUME TypeOK, AssignmentConsistent, [Next]_vars,
           NEW j \in Jobs, Unfinished(job[j]), job[j].launched
    PROVE  ~Launch(j)
<1> SUFFICES ASSUME Launch(j) PROVE FALSE
  OBVIOUS
<1>1. pc = "create" /\ j = jb
  BY OnlyCreateLaunches DEF CreateNativeJob
<1>2. ~jcopy.launched /\ job[jb].launched = jcopy.launched
  BY <1>1 DEF AssignmentConsistent, Knowledge, Executing
<1> QED BY <1>1, <1>2

-----------------------------------------------------------------------------
(* The limits of a matrix.                                                 *)

(* claimWorkflowJob looks at the matrix before it writes the Runner and    *)
(* the job.  What it saw still holds when the assignment is stored, since  *)
(* only the reconcile itself assigns jobs and records failures; this does  *)
(* not depend on the answers it gets.                                      *)
MatrixInv ==
    /\ IsFiniteSet(Assigned)
    /\ MaxParallelRespected
    /\ pc \in {"reserve", "assign"} => ~MatrixFull /\ ~MatrixFailed
    /\ pc = "complete" => verdict # "none"

(* What a step does to a job: nothing, the assignment, or a change that    *)
(* neither assigns it nor takes its result back.                           *)
Sober(o, n) ==
    /\ Unfinished(n) => Unfinished(o)
    /\ n.runner = o.runner \/ n.runner = None

Claiming == pc \in {"reserve", "assign"}

LEMMA JobSteps ==
    ASSUME TypeOK, pc = "complete" => verdict # "none", [Next]_vars
    PROVE  \/ UNCHANGED job /\ (Claiming' => Claiming \/ (~MatrixFull /\ ~MatrixFailed))
           \/ /\ pc = "assign" /\ ~Claiming' /\ job[jb] = jcopy
              /\ job' = [job EXCEPT ![jb] = [jcopy EXCEPT !.runner = rn]]
           \/ ~Claiming' /\ \E n : job' = [job EXCEPT ![jb] = n] /\ Sober(job[jb], n)
           \/ pc' = pc /\ \E j \in Jobs : \E n :
                 job' = [job EXCEPT ![j] = n] /\ Sober(job[j], n) /\ n.result # "failure"
<1> USE DEF Claiming, cluster, caches, locals, TypeOK
<1>1. ASSUME NEW r \in Runners, Reconcile(r) PROVE UNCHANGED job /\ ~Claiming'
  BY <1>1 DEF Reconcile
<1>2. CASE \/ GetAssignedJob \/ AdoptJob \/ CleanupSecret \/ ClearReference \/ RemoveFinalizer
           \/ ObserveNativeJob \/ RemoveNativeJob
  BY <1>2 DEF GetAssignedJob, AfterGet, AdoptJob, CleanupSecret, ClearReference, RemoveFinalizer,
              ObserveNativeJob, RemoveNativeJob, EndReconcile
<1>3. CASE \/ FailBeforeStart \/ RetryBeforeStart \/ CheckBeforeStart \/ EnsureSecret
           \/ RecheckCancellation \/ AbandonStart \/ CreateNativeJob
  BY <1>3 DEF FailBeforeStart, RetryBeforeStart, CheckBeforeStart, EnsureSecret, Fail,
              RecheckCancellation, AbandonStart, CreateNativeJob, EndReconcile
<1>4. CASE ReportStatus
  <2> DEFINE new == IF verdict = "none" THEN [jcopy EXCEPT !.launched = TRUE]
                                        ELSE [jcopy EXCEPT !.result = verdict]
  <2>1. ~Claiming'
    BY <1>4 DEF ReportStatus, EndReconcile
  <2>2. CASE job[jb] = jcopy
    <3>1. new.exists = jcopy.exists /\ new.runner = jcopy.runner
      BY LaunchedUpdate, ResultUpdate DEF SameButLaunched, SameButResult
    <3>2. new.result = "none" => jcopy.result = "none"
      BY LaunchedUpdate, ResultUpdate DEF SameButLaunched
    <3>3. Sober(job[jb], new)
      BY <2>2, <3>1, <3>2 DEF Sober, Unfinished
    <3> QED BY <1>4, <2>1, <3>3 DEF ReportStatus, WriteJob
  <2>3. CASE job[jb] # jcopy
    BY <1>4, <2>1, <2>3 DEF ReportStatus, JobUnchanged
  <2> QED BY <2>2, <2>3
<1>5. CASE CompleteJob
  <2> DEFINE new == [jcopy EXCEPT !.result = verdict]
  <2>1. ~Claiming' /\ verdict # "none"
    BY <1>5 DEF CompleteJob, EndReconcile
  <2>2. CASE job[jb] = jcopy
    <3>1. new.runner = jcopy.runner /\ new.result # "none"
      BY <2>1, ResultUpdate DEF SameButResult
    <3>2. Sober(job[jb], new)
      BY <2>2, <3>1 DEF Sober, Unfinished
    <3> QED BY <1>5, <2>1, <3>2 DEF CompleteJob, WriteJob
  <2>3. CASE job[jb] # jcopy
    BY <1>5, <2>1, <2>3 DEF CompleteJob, JobUnchanged
  <2> QED BY <2>2, <2>3
<1>6. CASE ChooseJob
  <2>1. UNCHANGED job
    BY <1>6 DEF ChooseJob
  <2>2. ASSUME Claiming' PROVE ~MatrixFull /\ ~MatrixFailed
    BY <1>6, <2>2 DEF ChooseJob, EndReconcile, Candidates
  <2> QED BY <2>1, <2>2
<1>7. CASE ReserveRunner
  BY <1>7 DEF ReserveRunner, EndReconcile
<1>8. CASE AssignJob \/ AssignJobReplyLost
  BY <1>8 DEF AssignJob, AssignJobReplyLost, WriteJob, JobUnchanged, EndReconcile
<1>9. CASE ReleaseClaim \/ Fault
  BY <1>9 DEF ReleaseClaim, Fault, EndReconcile
<1>10. ASSUME NEW r \in Runners, SyncRunner(r) \/ DeleteRunner(r) PROVE UNCHANGED <<job, pc>>
  BY <1>10 DEF SyncRunner, DeleteRunner
<1>11. ASSUME NEW j \in Jobs,
              \/ SyncJob(j) \/ SyncNative(j) \/ FinishNativeJob(j) \/ StopPod(j)
              \/ LoseNativeJob(j) \/ CollectNativeJob(j)
       PROVE  UNCHANGED <<job, pc>>
  BY <1>11 DEF SyncJob, SyncNative, FinishNativeJob, StopPod, LoseNativeJob, CollectNativeJob
<1>12. ASSUME NEW j \in Jobs, CancelJob(j)
       PROVE  pc' = pc /\ \E n : job' = [job EXCEPT ![j] = n] /\ Sober(job[j], n) /\ n.result # "failure"
  <2>1. CASE job[j].runner = None
    <3> DEFINE n == [job[j] EXCEPT !.result = "over"]
    <3>1. n.result = "over" /\ n.runner = job[j].runner
      BY ResultUpdate DEF Result, SameButResult
    <3>2. job' = [job EXCEPT ![j] = n] /\ pc' = pc
      BY <1>12, <2>1 DEF CancelJob
    <3> QED BY <3>1, <3>2 DEF Sober, Unfinished
  <2>2. CASE job[j].runner # None
    <3> DEFINE n == [job[j] EXCEPT !.cancel = TRUE]
    <3>1. n.result = job[j].result /\ n.runner = job[j].runner /\ n.exists = job[j].exists
      BY CancelUpdate DEF SameButCancel
    <3>2. job' = [job EXCEPT ![j] = n] /\ pc' = pc /\ job[j].result = "none"
      BY <1>12, <2>2 DEF CancelJob, Unfinished
    <3> QED BY <3>1, <3>2 DEF Sober, Unfinished
  <2> QED BY <2>1, <2>2
<1>13. ASSUME NEW j \in Jobs, DeleteJob(j)
       PROVE  pc' = pc /\ \E n : job' = [job EXCEPT ![j] = n] /\ Sober(job[j], n) /\ n.result # "failure"
  <2>1. NoJob.result = "none" /\ ~NoJob.exists /\ NoJob.runner = None
    BY DEF NoJob, NewJob
  <2> QED BY <1>13, <2>1 DEF DeleteJob, Sober, Unfinished
<1>14. CASE UNCHANGED vars
  BY <1>14 DEF vars
<1> QED
  BY <1>1, <1>2, <1>3, <1>4, <1>5, <1>6, <1>7, <1>8, <1>9, <1>10, <1>11, <1>12, <1>13, <1>14
     DEF Next, Step, Environment

(* A change of one job that does not assign it assigns no other.           *)
LEMMA SoberAssigned ==
    ASSUME TypeOK, NEW j, NEW n, job' = [job EXCEPT ![j] = n], j \in Jobs => Sober(job[j], n)
    PROVE  /\ Assigned' \subseteq Assigned
           /\ \A k \in Jobs : job[k].runner = None => job'[k].runner = None
BY DEF TypeOK, Assigned, Sober, Unfinished

(* A job is completed with the result that was decided before.             *)
LEMMA CompleteEntered ==
    ASSUME TypeOK, [Next]_vars, pc = "complete" => verdict # "none", pc' = "complete"
    PROVE  verdict' # "none"
<1> USE DEF cluster, caches, locals
<1>1. ASSUME NEW r \in Runners, Reconcile(r) PROVE FALSE
  BY <1>1 DEF Reconcile
<1>2. CASE \/ GetAssignedJob \/ AdoptJob \/ CleanupSecret \/ ClearReference \/ RemoveFinalizer
           \/ ObserveNativeJob \/ ReportStatus
  BY <1>2 DEF GetAssignedJob, AfterGet, AdoptJob, CleanupSecret, ClearReference, RemoveFinalizer,
              ObserveNativeJob, ReportStatus, EndReconcile
<1>3. CASE RemoveNativeJob \/ FailBeforeStart \/ CheckBeforeStart \/ AbandonStart
  BY <1>3 DEF RemoveNativeJob, FailBeforeStart, CheckBeforeStart, AbandonStart, Fail, EndReconcile
<1>4. CASE RetryBeforeStart \/ EnsureSecret \/ RecheckCancellation \/ CreateNativeJob \/ CompleteJob
  BY <1>4 DEF RetryBeforeStart, EnsureSecret, RecheckCancellation, CreateNativeJob, CompleteJob, EndReconcile
<1>5. CASE \/ ChooseJob \/ ReserveRunner \/ AssignJob \/ AssignJobReplyLost \/ ReleaseClaim \/ Fault
  BY <1>5 DEF ChooseJob, ReserveRunner, AssignJob, AssignJobReplyLost, ReleaseClaim, Fault, EndReconcile
<1>6. ASSUME NEW r \in Runners, SyncRunner(r) \/ DeleteRunner(r) PROVE verdict' # "none"
  BY <1>6 DEF SyncRunner, DeleteRunner
<1>7. ASSUME NEW k \in Jobs,
             \/ SyncJob(k) \/ SyncNative(k) \/ FinishNativeJob(k) \/ StopPod(k)
             \/ LoseNativeJob(k) \/ CancelJob(k) \/ DeleteJob(k) \/ CollectNativeJob(k)
      PROVE  verdict' # "none"
  BY <1>7 DEF SyncJob, SyncNative, FinishNativeJob, StopPod, LoseNativeJob, CancelJob,
              DeleteJob, CollectNativeJob
<1>8. CASE UNCHANGED vars
  BY <1>8 DEF vars
<1> QED BY <1>1, <1>2, <1>3, <1>4, <1>5, <1>6, <1>7, <1>8 DEF Next, Step, Environment

LEMMA MatrixInit == Init => MatrixInv
<1> SUFFICES ASSUME Init PROVE MatrixInv
  OBVIOUS
<1>1. Assigned = {}
  BY Defaults DEF Init, Assigned
<1>2. IsFiniteSet(Assigned) /\ Cardinality(Assigned) = 0
  BY <1>1, FS_EmptySet
<1> QED BY <1>1, <1>2, BoundsAssumption DEF Init, MatrixInv, MaxParallelRespected

LEMMA MatrixNext == TypeOK /\ MatrixInv /\ [Next]_vars => MatrixInv'
<1> SUFFICES ASSUME TypeOK, MatrixInv, [Next]_vars PROVE MatrixInv'
  OBVIOUS
<1>1. IsFiniteSet(Assigned) /\ Cardinality(Assigned) \in Nat /\ MaxParallel \in Nat
  BY FS_CardinalityType, BoundsAssumption DEF MatrixInv
<1>2. (pc = "complete" => verdict # "none")'
  <2>1. CASE pc' # "complete"
    BY <2>1
  <2>2. CASE pc' = "complete"
    BY <2>2, CompleteEntered DEF MatrixInv
  <2> QED BY <2>1, <2>2
<1>3. ASSUME Assigned' \subseteq Assigned
      PROVE  /\ IsFiniteSet(Assigned') /\ MaxParallelRespected'
             /\ ~MatrixFull => ~MatrixFull'
  <2>1. IsFiniteSet(Assigned') /\ Cardinality(Assigned') <= Cardinality(Assigned) /\ Cardinality(Assigned') \in Nat
    BY <1>1, <1>3, FS_Subset, FS_CardinalityType
  <2> QED BY <1>1, <2>1 DEF MatrixInv, MaxParallelRespected, MatrixFull
<1>4. CASE UNCHANGED job /\ (Claiming' => Claiming \/ (~MatrixFull /\ ~MatrixFailed))
  <2>1. Assigned' = Assigned /\ MatrixFailed' = MatrixFailed
    BY <1>4 DEF Assigned, MatrixFailed
  <2> QED BY <1>2, <1>3, <1>4, <2>1 DEF MatrixInv, Claiming
<1>5. CASE /\ pc = "assign" /\ ~Claiming' /\ job[jb] = jcopy
           /\ job' = [job EXCEPT ![jb] = [jcopy EXCEPT !.runner = rn]]
  <2>1. Assigned' \subseteq Assigned \cup {jb}
    BY <1>5 DEF TypeOK, Assigned, Unfinished
  <2>2. IsFiniteSet(Assigned \cup {jb}) /\ Cardinality(Assigned \cup {jb}) <= Cardinality(Assigned) + 1
    <3>1. \/ Cardinality(Assigned \cup {jb}) = Cardinality(Assigned)
          \/ Cardinality(Assigned \cup {jb}) = Cardinality(Assigned) + 1
      BY <1>1, FS_AddElement, Zenon
    <3>2. IsFiniteSet(Assigned \cup {jb})
      BY <1>1, FS_AddElement, Zenon
    <3> QED BY <1>1, <3>1, <3>2
  <2>3. IsFiniteSet(Assigned') /\ Cardinality(Assigned') <= Cardinality(Assigned) + 1 /\ Cardinality(Assigned') \in Nat
    <3>1. IsFiniteSet(Assigned') /\ Cardinality(Assigned') <= Cardinality(Assigned \cup {jb})
      BY <2>1, <2>2, FS_Subset
    <3> QED BY <1>1, <2>2, <3>1, FS_CardinalityType
  <2>4. MaxParallel > 0 => Cardinality(Assigned) < MaxParallel
    BY <1>1, <1>5 DEF MatrixInv, MatrixFull
  <2>5. MaxParallelRespected'
    BY <1>1, <2>3, <2>4 DEF MaxParallelRespected
  <2> QED BY <1>2, <1>5, <2>3, <2>5 DEF MatrixInv, Claiming
<1>6. CASE ~Claiming' /\ \E n : job' = [job EXCEPT ![jb] = n] /\ Sober(job[jb], n)
  <2>1. Assigned' \subseteq Assigned
    BY <1>6, SoberAssigned
  <2> QED BY <1>2, <1>3, <1>6, <2>1 DEF MatrixInv, Claiming
<1>7. CASE pc' = pc /\ \E j \in Jobs : \E n : job' = [job EXCEPT ![j] = n] /\ Sober(job[j], n) /\ n.result # "failure"
  <2>1. Assigned' \subseteq Assigned
    BY <1>7, SoberAssigned
  <2>2. ~MatrixFailed => ~MatrixFailed'
    BY <1>7 DEF TypeOK, MatrixFailed, Sober
  <2> QED BY <1>2, <1>3, <1>7, <2>1, <2>2 DEF MatrixInv
<1> QED BY <1>4, <1>5, <1>6, <1>7, JobSteps DEF MatrixInv

(* No step assigns a job once a combination has failed.                    *)
LEMMA AssignsUnfailed ==
    ASSUME TypeOK, MatrixInv, [Next]_vars, NEW j \in Jobs, job[j].runner = None, job'[j].runner # None
    PROVE  ~MatrixFailed
<1>1. CASE pc = "assign"
  BY <1>1 DEF MatrixInv
<1>2. CASE pc # "assign"
  <2>1. UNCHANGED job \/ \E k, n : job' = [job EXCEPT ![k] = n] /\ Sober(job[k], n)
    BY <1>2, JobSteps DEF MatrixInv
  <2> QED BY <2>1, SoberAssigned
<1> QED BY <1>1, <1>2

-----------------------------------------------------------------------------
(* Theorems.                                                               *)

(* Every reachable state of the Runner controller is well typed, whatever  *)
(* answers are lost.                                                       *)
THEOREM AssignmentTypeCorrect == Spec => []TypeOK
<1>1. Init => TypeOK
  BY InitTyped
<1>2. TypeOK /\ [Next]_vars => TypeOK'
  BY NextTyped
<1> QED BY <1>1, <1>2, PTL DEF Spec

(* As long as no answer of an assignment is lost, Runner and WorkflowJob   *)
(* agree on who works for whom, and what the reconcile and the caches      *)
(* remember can do no harm.                                                *)
THEOREM AssignmentStaysConsistent ==
    ASSUME MaxLostReplies = 0
    PROVE  Spec => []AssignmentConsistent
<1>1. Init => TypeOK /\ AssignmentConsistent
  BY InitTyped, InitConsistent
<1>2. TypeOK /\ AssignmentConsistent /\ [Next]_vars => (TypeOK /\ AssignmentConsistent)'
  BY NextTyped, NextConsistent
<1> QED BY <1>1, <1>2, PTL DEF Spec

(* claimWorkflowJob: a Runner is one execution slot.                       *)
THEOREM RunnerHasOneJob ==
    ASSUME MaxLostReplies = 0
    PROVE  Spec => []SlotExclusive
<1>1. TypeOK /\ AssignmentConsistent => SlotExclusive
  BY ConsistentExclusive
<1> QED BY <1>1, AssignmentTypeCorrect, AssignmentStaysConsistent, PTL

(* A Runner's finalizer is not removed while a job is assigned to it.      *)
THEOREM RunnerOutlivesItsJob ==
    ASSUME MaxLostReplies = 0
    PROVE  Spec => []BusyRunnerStays
<1>1. TypeOK /\ AssignmentConsistent => BusyRunnerStays
  BY ConsistentExclusive
<1> QED BY <1>1, AssignmentTypeCorrect, AssignmentStaysConsistent, PTL

(* cleanupAuthSecret: whatever Secret exists, a Runner refers to its job.  *)
THEOREM SecretsAreCleaned ==
    ASSUME MaxLostReplies = 0
    PROVE  Spec => []SecretHasCleaner
<1>1. TypeOK /\ AssignmentConsistent => SecretHasCleaner
  BY ConsistentExclusive
<1> QED BY <1>1, AssignmentTypeCorrect, AssignmentStaysConsistent, PTL

(* executeWorkflowJob: a job whose launch is recorded is not launched      *)
(* again.                                                                  *)
THEOREM LaunchedOnce ==
    ASSUME MaxLostReplies = 0
    PROVE  Spec => NoRestart
<1> DEFINE Step0 == \A j \in Jobs : Unfinished(job[j]) /\ job[j].launched => ~Launch(j)
<1>1. TypeOK /\ AssignmentConsistent /\ [Next]_vars => [Step0]_native
  BY ConsistentNoRestart
<1> QED BY <1>1, AssignmentTypeCorrect, AssignmentStaysConsistent, PTL DEF Spec, NoRestart

(* claimWorkflowJob: no more combinations of a matrix are assigned at a    *)
(* time than strategy.max-parallel allows, also when the answers of        *)
(* assignments are lost.                                                   *)
THEOREM MatrixIsBounded == Spec => []MaxParallelRespected
<1>1. Init => TypeOK /\ MatrixInv
  BY InitTyped, MatrixInit
<1>2. TypeOK /\ MatrixInv /\ [Next]_vars => (TypeOK /\ MatrixInv)'
  BY NextTyped, MatrixNext
<1>3. MatrixInv => MaxParallelRespected
  BY DEF MatrixInv
<1> QED BY <1>1, <1>2, <1>3, PTL DEF Spec

(* claimWorkflowJob: with fail-fast nothing is assigned after a failure.   *)
THEOREM FailureStopsMatrix == Spec => FailFastStops
<1> DEFINE Step0 == \A j \in Jobs : job[j].runner = None /\ job'[j].runner # None => ~MatrixFailed
<1>1. Init => TypeOK /\ MatrixInv
  BY InitTyped, MatrixInit
<1>2. TypeOK /\ MatrixInv /\ [Next]_vars => (TypeOK /\ MatrixInv)'
  BY NextTyped, MatrixNext
<1>3. TypeOK /\ MatrixInv /\ [Next]_vars => [Step0]_job
  BY AssignsUnfailed
<1> QED BY <1>1, <1>2, <1>3, PTL DEF Spec, FailFastStops
=============================================================================
