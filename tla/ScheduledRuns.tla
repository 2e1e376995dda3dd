---------------------------- MODULE ScheduledRuns ----------------------------
(* Runs started by a schedule (internal/controller/schedule_controller.go) *)
(* and the finalizer that keeps them for the minute they were made in      *)
(* (finalizeCanceledWorkflowRun).  A pass works for the minute it began    *)
(* in, repository after repository; meanwhile branches move, time goes on, *)
(* requests fail and runs are deleted.                                     *)
EXTENDS Naturals, Sequences

CONSTANTS Repositories,  \* the repositories of the installation, in order
          Cron,          \* repository -> the minutes its workflow is due
          Unsupported,   \* the <<repository, revision>> whose schedules cannot be discovered
          MaxMinute, MaxPushes, MaxScheduleFaults

VARIABLES minute,     \* the time
          branch,     \* repository -> revision of its default branch
          cached,     \* repository -> [pushed, rev, bad], the controller's cache
          tick,       \* the pass
          scheduled,  \* the runs: <<repository, minute>> -> [rev, made, deleting]
          log,        \* every run that was created
          processed,  \* the minutes a pass was completed for without failure
          sfaults

svars == <<minute, branch, cached, tick, scheduled, log, processed, sfaults>>

Repos == {Repositories[i] : i \in DOMAIN Repositories}

NoTick == [at |-> "idle", for |-> 0, listed |-> <<>>, rest |-> <<>>, rev |-> 0, failed |-> FALSE]

ScheduleInit ==
    /\ minute = 1 /\ branch = [r \in Repos |-> 1] /\ cached = <<>> /\ tick = NoTick
    /\ scheduled = <<>> /\ log = {} /\ processed = {} /\ sfaults = 0

-----------------------------------------------------------------------------
(* Reconcile: the repositories with the time of their last push, which     *)
(* stands for the revision.  Deleted or renamed ones leave the cache.      *)
StartTick ==
    /\ tick.at = "idle"
    /\ tick' = [NoTick EXCEPT !.at = "discover", !.for = minute, !.listed = branch, !.rest = Repositories]
    /\ UNCHANGED <<minute, branch, cached, scheduled, log, processed, sfaults>>

With(f, k, value) == [x \in DOMAIN f \cup {k} |-> IF x = k THEN value ELSE f[x]]

Skip(t) == [t EXCEPT !.at = "discover", !.rest = Tail(@)]

CachedFor(r) == r \in DOMAIN cached /\ cached[r].pushed = tick.listed[r]

(* scheduledWorkflows: from the cache, or the current revision; a          *)
(* repository whose schedules cannot be read is remembered as such.        *)
Discover ==
    /\ tick.at = "discover" /\ tick.rest # <<>>
    /\ LET r == Head(tick.rest)
           entry == IF CachedFor(r) THEN cached[r]
                    ELSE [pushed |-> tick.listed[r], rev |-> branch[r], bad |-> <<r, branch[r]>> \in Unsupported]
       IN  /\ cached' = With(cached, r, entry)
           /\ tick' = IF entry.bad THEN Skip(tick) ELSE [tick EXCEPT !.at = "create", !.rev = entry.rev]
    /\ UNCHANGED <<minute, branch, scheduled, log, processed, sfaults>>

Due(r) == tick.for \in Cron[r]

(* createWorkflowRun: the name comes from repository, workflow, schedule   *)
(* and minute; a run of that name must be for the same revision.           *)
CreateScheduled ==
    /\ tick.at = "create"
    /\ LET r == Head(tick.rest)
           k == <<r, tick.for>>
       IN  IF ~Due(r) THEN tick' = Skip(tick) /\ UNCHANGED <<scheduled, log>>
           ELSE IF k \in DOMAIN scheduled
           THEN /\ tick' = [Skip(tick) EXCEPT !.failed = @ \/ scheduled[k].rev # tick.rev]
                /\ UNCHANGED <<scheduled, log>>
           ELSE /\ scheduled' = With(scheduled, k, [rev |-> tick.rev, made |-> minute, deleting |-> FALSE])
                /\ log' = log \cup {[key |-> k, rev |-> tick.rev, listed |-> tick.listed[r], made |-> minute,
                                     again |-> \E x \in log : x.key = k]}
                /\ tick' = Skip(tick)
    /\ UNCHANGED <<minute, branch, cached, processed, sfaults>>

(* A request fails: this repository is skipped and the pass repeated soon. *)
RepositoryFails ==
    /\ tick.at \in {"discover", "create"} /\ tick.rest # <<>> /\ sfaults < MaxScheduleFaults
    /\ sfaults' = sfaults + 1
    /\ tick' = [Skip(tick) EXCEPT !.failed = TRUE]
    /\ UNCHANGED <<minute, branch, cached, scheduled, log, processed>>

(* scheduleRequeue after a complete pass, scheduleFailureRequeue after one *)
(* in which a repository failed.                                           *)
Counts(failed) == ~failed

FinishTick ==
    /\ tick.at = "discover" /\ tick.rest = <<>>
    /\ processed' = IF Counts(tick.failed) THEN processed \cup {tick.for} ELSE processed
    /\ tick' = NoTick
    /\ UNCHANGED <<minute, branch, cached, scheduled, log, sfaults>>

(* The controller starts anew: the cache is empty.                         *)
RestartSchedule ==
    /\ tick.at # "idle" /\ sfaults < MaxScheduleFaults
    /\ sfaults' = sfaults + 1 /\ tick' = NoTick /\ cached' = <<>>
    /\ UNCHANGED <<minute, branch, scheduled, log, processed>>

-----------------------------------------------------------------------------
PushTo(r) ==
    /\ branch[r] <= MaxPushes
    /\ branch' = [branch EXCEPT ![r] = @ + 1]
    /\ UNCHANGED <<minute, cached, tick, scheduled, log, processed, sfaults>>

MinutePasses ==
    /\ minute < MaxMinute
    /\ minute' = minute + 1
    /\ UNCHANGED <<branch, cached, tick, scheduled, log, processed, sfaults>>

(* The run is finished and deleted at once; the finalizer keeps it.        *)
DeleteScheduled(k) ==
    /\ k \in DOMAIN scheduled /\ ~scheduled[k].deleting
    /\ scheduled' = [scheduled EXCEPT ![k].deleting = TRUE]
    /\ UNCHANGED <<minute, branch, cached, tick, log, processed, sfaults>>

FinalizerOverAtOnce(k) == TRUE

FinalizerOver(k) == minute > scheduled[k].made

(* scheduleFinalizerRemaining: until the minute of the creation is over.   *)
FinalizeScheduled(k) ==
    /\ k \in DOMAIN scheduled /\ scheduled[k].deleting /\ FinalizerOver(k)
    /\ scheduled' = [j \in DOMAIN scheduled \ {k} |-> scheduled[j]]
    /\ UNCHANGED <<minute, branch, cached, tick, log, processed, sfaults>>

ScheduleNext ==
    \/ StartTick \/ Discover \/ CreateScheduled \/ RepositoryFails \/ FinishTick \/ RestartSchedule \/ MinutePasses
    \/ \E r \in Repos : PushTo(r)
    \/ \E k \in DOMAIN scheduled : DeleteScheduled(k) \/ FinalizeScheduled(k)

-----------------------------------------------------------------------------
(* The cache is never older than the list of repositories it is used with: *)
(* a scheduled run is for a revision at least as new as the branch was     *)
(* when its pass began.                                                    *)
ScheduledFresh == \A x \in log : x.rev >= x.listed

(* The finalizer: a pass that creates a run within its own minute never    *)
(* creates it a second time, however often the pass is repeated and        *)
(* however soon the first one was deleted.                                 *)
OncePerMinute == \A x \in log : x.again => x.made > x.key[2]

(* A minute that counts as processed has a run for every due workflow,     *)
(* also when single repositories failed and the pass was repeated.         *)
ProcessedMinuteHasRuns ==
    \A m \in processed, r \in Repos :
        m \in Cron[r] =>
            \/ \E x \in log : x.key = <<r, m>>
            \/ \E v \in 1..branch[r] : <<r, v>> \in Unsupported
=============================================================================
