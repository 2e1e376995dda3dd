---------------------------- MODULE MCComponents ----------------------------
(* The components around the gate, the Runners and the job graph, checked  *)
(* side by side.  They share no state with each other that the properties  *)
(* tell apart, so that a behaviour follows one of them, its focus, while   *)
(* the variables of the others are switched off.                           *)
EXTENDS MCInputs, FiniteSets

CONSTANTS Focuses,
          p1, p2,    \* two requests, controllers or processes at work at the same time
          Payloads, Tree, MaxFiles, MaxFanOut, MaxRequests, MaxExpired, MaxDeliveryFaults,
          ScheduledRepositories, Cron, Unsupported, MaxMinute, MaxPushes, MaxScheduleFaults,
          Consoles, MaxAttempt, MaxRunUid, MaxRerunFaults,
          Runs, Controllers, MaxNumber, MaxIdentityFaults,
          Reporters, Newest, MaxReportFaults,
          Requests, ArtifactNames, MaxArtifactId, BlockIds, BlockSizes, BlockLists,
          MaxArtifactBytes, MaxRunBytes, MaxArtifactsPerJob, MaxUploads, MaxArtifactFaults,
          CacheRequests, Repositories, CacheKeys, MaxEntries, Ranges, RangeSizes,
          MaxEntryBytes, MaxRepositoryBytes, MaxTotalBytes, MaxCacheUploads, MaxCacheFaults,
          MaxOutput, WriteSizes, SpoolBytes, ChunkBytes, MaxLogBytes, MaxLogChunks, MaxLogFaults,
          MaxLines, BatchEntryLimit, BatchByteLimit, MaxBreaks,
          Plans,
          LogicalJobs, Needs, Totals, Deferred, MaxAttempts, MaxLost,
          Files, SortedNames, MaxJobs, MaxMatrixJobs, MaxMapEntries, MaxRunnerLabels, DefaultMinutes, MaxMinutes,
          Cases, BadGlobs, MaxPatterns, MaxChangedFiles, MaxCommits, MaxInputs, MaxPayload,
          Writers, Chunks, FirstMasks, MaxCommandBytes, MaxMaskBytes, BufferBytes, MaxText

VARIABLES focus,
          event, head, delivery, snapshot, triggered, request, requests, pass, uid, history, early, expired, dfaults,
          minute, branch, cached, tick, scheduled, log, processed, sfaults,
          attempts, secret, console, worker, made, excused, rfaults,
          sequences, identity, cachedId, allocator, given, ifaults,
          statusRun, owner, shown, sent, reporter, alone, tokens, pfaults,
          created, artifact, files, upload, uploads, mixed, up, afaults,
          entries, entry, dir, lru, transfer, received, cfaults,
          output, spool, writer, uploader, net, chunks, synced, latest, retention, outcome, follower, lfaults,
          lines, logOver, stream, wire, page, breaks,
          plan, step, phase, job, cleanup, command, inner, failed, errs, recorded, posts, seen, result,
          lineage, lost,
          file, parsed, cycle, planned,
          subject, accepted, at, diff, starts, resolved,
          written, line, passed, clear, masks, known, stopped, broken, flushed, dropped

(* maxGitHubCompatibleNumber is a number, and there is a run to report on. *)
ASSUME NumberAssumption == MaxNumber \in Nat \ {0}

ASSUME NewestAssumption == Newest \in Nat \ {0}

(* Revisions are counted from the first, and each has finitely many files. *)
ASSUME TreeAssumption == 1 \in DOMAIN Tree /\ \A r \in DOMAIN Tree : IsFiniteSet(Tree[r])

(* The spool of a job's log holds at least one byte.                       *)
ASSUME SpoolAssumption == SpoolBytes \in Nat \ {0} /\ ChunkBytes \in Nat /\ WriteSizes \subseteq Nat

(* The repositories of the installation are a list.                        *)
ASSUME RepositoriesAssumption ==
    ScheduledRepositories \in Seq({ScheduledRepositories[i] : i \in DOMAIN ScheduledRepositories})

-----------------------------------------------------------------------------
Delivery == INSTANCE WebhookDelivery
Schedule == INSTANCE ScheduledRuns WITH Repositories <- ScheduledRepositories
Rerun == INSTANCE RerunLineage
Identity == INSTANCE RunIdentity
Status == INSTANCE StatusReports
Artifact == INSTANCE ArtifactStore
Cache == INSTANCE CacheStore
Logs == INSTANCE JobLogs
Events == INSTANCE LogEvents WITH EntryBytes <- LineBytes
Execution == INSTANCE StepExecution
Selection == INSTANCE RerunSelection
Planning == INSTANCE WorkflowPlanning
Matching == INSTANCE TriggerMatching WITH Covers <- CoversText
Masking == INSTANCE OutputMasking

deliveryVars == <<event, head, delivery, snapshot, triggered, request, requests, pass, uid, history, early, expired, dfaults>>
scheduleVars == <<minute, branch, cached, tick, scheduled, log, processed, sfaults>>
rerunVars == <<attempts, secret, console, worker, made, excused, rfaults>>
identityVars == <<sequences, identity, cachedId, allocator, given, ifaults>>
statusVars == <<statusRun, owner, shown, sent, reporter, alone, tokens, pfaults>>
artifactVars == <<created, artifact, files, upload, uploads, mixed, up, afaults>>
cacheVars == <<entries, entry, dir, lru, transfer, received, cfaults>>
logsVars == <<output, spool, writer, uploader, net, chunks, synced, latest, retention, outcome, follower, lfaults>>
eventsVars == <<lines, logOver, stream, wire, page, breaks>>
executionVars == <<plan, step, phase, job, cleanup, command, inner, failed, errs, recorded, posts, seen, result>>
selectionVars == <<lineage, lost>>
planningVars == <<file, parsed, cycle, planned>>
matchingVars == <<subject, accepted, at, diff, starts, resolved>>
maskingVars == <<written, line, passed, clear, masks, known, stopped, broken, flushed, dropped>>

vars == <<focus, deliveryVars, scheduleVars, rerunVars, identityVars, statusVars, artifactVars, cacheVars, logsVars, eventsVars, executionVars, selectionVars, planningVars, matchingVars, maskingVars>>

-----------------------------------------------------------------------------
Off == "off"

On(component) == focus = component

Init ==
    /\ focus \in Focuses
    /\ IF On("delivery") THEN Delivery!DeliveryInit
       ELSE event = Off /\ head = Off /\ delivery = Off /\ snapshot = Off /\ triggered = Off /\ request = Off /\ requests = Off /\ pass = Off /\ uid = Off /\ history = Off /\ early = Off /\ expired = Off /\ dfaults = Off
    /\ IF On("schedule") THEN Schedule!ScheduleInit
       ELSE minute = Off /\ branch = Off /\ cached = Off /\ tick = Off /\ scheduled = Off /\ log = Off /\ processed = Off /\ sfaults = Off
    /\ IF On("rerun") THEN Rerun!RerunInit
       ELSE attempts = Off /\ secret = Off /\ console = Off /\ worker = Off /\ made = Off /\ excused = Off /\ rfaults = Off
    /\ IF On("identity") THEN Identity!IdentityInit
       ELSE sequences = Off /\ identity = Off /\ cachedId = Off /\ allocator = Off /\ given = Off /\ ifaults = Off
    /\ IF On("status") THEN Status!StatusInit
       ELSE statusRun = Off /\ owner = Off /\ shown = Off /\ sent = Off /\ reporter = Off /\ alone = Off /\ tokens = Off /\ pfaults = Off
    /\ IF On("artifact") THEN Artifact!ArtifactInit
       ELSE created = Off /\ artifact = Off /\ files = Off /\ upload = Off /\ uploads = Off /\ mixed = Off /\ up = Off /\ afaults = Off
    /\ IF On("cache") THEN Cache!CacheInit
       ELSE entries = Off /\ entry = Off /\ dir = Off /\ lru = Off /\ transfer = Off /\ received = Off /\ cfaults = Off
    /\ IF On("logs") THEN Logs!LogsInit
       ELSE output = Off /\ spool = Off /\ writer = Off /\ uploader = Off /\ net = Off /\ chunks = Off /\ synced = Off /\ latest = Off /\ retention = Off /\ outcome = Off /\ follower = Off /\ lfaults = Off
    /\ IF On("events") THEN Events!EventsInit
       ELSE lines = Off /\ logOver = Off /\ stream = Off /\ wire = Off /\ page = Off /\ breaks = Off
    /\ IF On("execution") THEN Execution!ExecutionInit
       ELSE plan = Off /\ step = Off /\ phase = Off /\ job = Off /\ cleanup = Off /\ command = Off /\ inner = Off /\ failed = Off /\ errs = Off /\ recorded = Off /\ posts = Off /\ seen = Off /\ result = Off
    /\ IF On("selection") THEN Selection!SelectionInit
       ELSE lineage = Off /\ lost = Off
    /\ IF On("planning") THEN Planning!PlanningInit
       ELSE file = Off /\ parsed = Off /\ cycle = Off /\ planned = Off
    /\ IF On("matching") THEN Matching!MatchingInit
       ELSE subject = Off /\ accepted = Off /\ at = Off /\ diff = Off /\ starts = Off /\ resolved = Off
    /\ IF On("masking") THEN Masking!MaskingInit
       ELSE written = Off /\ line = Off /\ passed = Off /\ clear = Off /\ masks = Off /\ known = Off /\ stopped = Off /\ broken = Off /\ flushed = Off /\ dropped = Off

(* The component in focus moves, the others stand still.                   *)
Alone ==
    /\ UNCHANGED focus
    /\ IF On("delivery") THEN TRUE ELSE UNCHANGED deliveryVars
    /\ IF On("schedule") THEN TRUE ELSE UNCHANGED scheduleVars
    /\ IF On("rerun") THEN TRUE ELSE UNCHANGED rerunVars
    /\ IF On("identity") THEN TRUE ELSE UNCHANGED identityVars
    /\ IF On("status") THEN TRUE ELSE UNCHANGED statusVars
    /\ IF On("artifact") THEN TRUE ELSE UNCHANGED artifactVars
    /\ IF On("cache") THEN TRUE ELSE UNCHANGED cacheVars
    /\ IF On("logs") THEN TRUE ELSE UNCHANGED logsVars
    /\ IF On("events") THEN TRUE ELSE UNCHANGED eventsVars
    /\ IF On("execution") THEN TRUE ELSE UNCHANGED executionVars
    /\ IF On("selection") THEN TRUE ELSE UNCHANGED selectionVars
    /\ IF On("planning") THEN TRUE ELSE UNCHANGED planningVars
    /\ IF On("matching") THEN TRUE ELSE UNCHANGED matchingVars
    /\ IF On("masking") THEN TRUE ELSE UNCHANGED maskingVars

Next ==
    \/ On("delivery") /\ Delivery!DeliveryNext /\ Alone
    \/ On("schedule") /\ Schedule!ScheduleNext /\ Alone
    \/ On("rerun") /\ Rerun!RerunNext /\ Alone
    \/ On("identity") /\ Identity!IdentityNext /\ Alone
    \/ On("status") /\ Status!StatusNext /\ Alone
    \/ On("artifact") /\ Artifact!ArtifactNext /\ Alone
    \/ On("cache") /\ Cache!CacheNext /\ Alone
    \/ On("logs") /\ Logs!LogsNext /\ Alone
    \/ On("events") /\ Events!EventsNext /\ Alone
    \/ On("execution") /\ Execution!ExecutionNext /\ Alone
    \/ On("selection") /\ Selection!SelectionNext /\ Alone
    \/ On("planning") /\ Planning!PlanningNext /\ Alone
    \/ On("matching") /\ Matching!MatchingNext /\ Alone
    \/ On("masking") /\ Masking!MaskingNext /\ Alone

Spec == Init /\ [][Next]_vars
-----------------------------------------------------------------------------
(* Nothing tells the two actors of a component apart.                      *)
ActorSymmetry == Permutations({p1, p2})

(* Fairness: whatever the service itself does next happens in the end;     *)
(* browsers, GitHub, workflows and faults owe nothing.                     *)
Fairness ==
    /\ WF_deliveryVars(On("delivery") /\ Delivery!PassStep)
    /\ WF_deliveryVars(On("delivery") /\ Delivery!HandlerStep)
    /\ WF_rerunVars(On("rerun") /\ Rerun!WorkerStep)
    /\ WF_rerunVars(On("rerun") /\ Rerun!DeadlinePasses)
    /\ SF_rerunVars(On("rerun") /\ Rerun!FinalizeProtection)
    /\ \A c \in Controllers : WF_identityVars(On("identity") /\ Identity!AllocatorStep(c))
    /\ \A r \in Runs : WF_identityVars(On("identity") /\ \E c \in Controllers : Identity!BeginIdentity(c, r))
    /\ \A r \in Runs : WF_identityVars(On("identity") /\ Identity!IdentityCached(r))
    /\ \A c \in Reporters : WF_statusVars(On("status") /\ Status!ReporterStep(c))
    /\ \A r \in 1..Newest : WF_statusVars(On("status") /\ \E c \in Reporters : Status!LoadStatus(c, r))
    /\ WF_statusVars(On("status") /\ Status!LeaseExpires)
    /\ \A q \in Requests : WF_artifactVars(On("artifact") /\ Artifact!RequestStep(q))
    /\ WF_artifactVars(On("artifact") /\ Artifact!StartService)
    /\ WF_artifactVars(On("artifact") /\ Artifact!CleanupTick)
    /\ WF_logsVars(On("logs") /\ Logs!WriterStep)
    /\ WF_logsVars(On("logs") /\ Logs!UploaderStep)
    /\ WF_logsVars(On("logs") /\ Logs!FollowerStep)
    /\ WF_logsVars(On("logs") /\ Logs!PublishResult)
    /\ WF_eventsVars(On("events") /\ Events!ConsoleStep)
    /\ WF_executionVars(On("execution") /\ Execution!ExecutorStep)
    /\ WF_executionVars(On("execution") /\ Execution!CleanupEnds)

FairSpec == Spec /\ Fairness

-----------------------------------------------------------------------------
(* Safety.                                                                 *)

(* webhook.Server and its delivery controller: although GitHub repeats a   *)
(* webhook, branches move and passes fail between two runs they create,    *)
(* all runs of a delivery have one revision, none exists twice, a delivery *)
(* that is done has created all it had to, and the event snapshot stays as *)
(* long as somebody reads it.                                              *)
DeliveryFaithful ==
    On("delivery") =>
        Delivery!OneRevision /\ Delivery!NoDuplicateRun /\ Delivery!CompletedMeansAll /\ Delivery!SnapshotKept

(* ScheduleController: a scheduled run is for a revision at least as new   *)
(* as the branch was when its pass began, a pass within its minute never   *)
(* creates a run again, and a minute that counts as processed has a run    *)
(* for every due workflow, although single repositories fail, the pass is  *)
(* repeated, the list of runs is cached and runs are deleted meanwhile.    *)
ScheduleKept ==
    On("schedule") =>
        Schedule!ScheduledFresh /\ Schedule!OncePerMinute /\ Schedule!ProcessedMinuteHasRuns

(* The console and the WorkflowRun controller: an attempt that was created *)
(* under the protection of the event snapshot can still take it over,      *)
(* although the original run is deleted at any moment and requests for the *)
(* same attempt race; RerunLineage names the excused cases.                *)
GuardedKeepsSnapshot ==
    On("rerun") =>
        Rerun!GuardedKeepsSnapshot

(* GitHubStatusController: a report is sent once while one controller      *)
(* works at a time, although answers are lost and controllers end after    *)
(* sending; and the commit never shows an older run again, although two    *)
(* controllers report at once, unless a newer run that had claimed the     *)
(* status is being deleted.                                                *)
StatusesInOrder ==
    /\ [](On("status") => Status!SentOnce)
    /\ [][On("status") => Status!NeverOlder]_statusVars

(* JobHistory and the planning of a rerun: the results an attempt takes    *)
(* over are the newest ones there are, it executes what was selected and   *)
(* nothing else but combinations of a matrix selected as a whole, and what *)
(* the console offers can be planned unless retention deleted an earlier   *)
(* attempt.                                                                *)
RerunFaithful ==
    On("selection") =>
        Selection!NewestResultsUsed /\ Selection!SelectionRespected /\ Selection!OfferedIsPlannable

(* workflow.Parse and Plan: the expansion of a matrix is its definition by *)
(* exclude and include, a cycle of needs is reported exactly when there is *)
(* one, what Parse accepts without expressions is planned as it was        *)
(* counted, and what is planned has valid labels and timeouts.             *)
PlanningSound ==
    On("planning") =>
        Planning!ExpansionIsDefined /\ Planning!CyclesFound /\ Planning!AcceptedIsPlanned /\ Planning!PlannedIsClean

(* Trigger.Match, the delivery reconciler and resolveInputs: a workflow    *)
(* starts for an event exactly when its filters ask for it (the last       *)
(* pattern that matches decides, a diff that is not known starts it), and  *)
(* inputs are refused only for what the caller provided.                   *)
TriggersHonoured ==
    On("matching") =>
        Matching!SelectedAsAsked /\ Matching!RefusedForCause

(* artifact.Store: an uploaded artifact has the blob its record describes, *)
(* nobody disturbs a commit that reads its blocks without the mutex, the   *)
(* limits of artifact and run hold, and a name stands for one artifact,    *)
(* also across crashes of the service.                                     *)
ArtifactsSound ==
    On("artifact") =>
        Artifact!UploadedHasBlob /\ Artifact!CommitUndisturbed /\ Artifact!WithinLimits /\ Artifact!NameUnique

(* cache.Store: staged and stored bytes keep the limits, an uploaded entry *)
(* has its whole blob and a finalized one keeps it, and a key stands for   *)
(* one entry, although ranges are received outside the lock and the        *)
(* service crashes between two changes of its files.                       *)
CachesSound ==
    /\ [](On("cache") => Cache!RoomKept /\ Cache!BlobWhole /\ Cache!KeyOnce)
    /\ [][On("cache") => Cache!FinalizedFrozen]_cacheVars

(* joblog: the archive is a beginning of the output without gaps, a chunk  *)
(* marked complete ends the whole of it, acknowledged chunks survive       *)
(* crashes, and a reader that is told the log is incomplete is told so for *)
(* a cause, although uploads are repeated, arrive late or lose their       *)
(* answers.                                                                *)
LogsFaithful ==
    On("logs") =>
        Logs!ArchiveIsOutput /\ Logs!CompleteIsWhole /\ Logs!AcknowledgedKept /\ Logs!IncompleteIsTrue

(* runner.executePlan: wherever the cancellation or the timeout falls      *)
(* between a condition and its command, a step it killed counts as         *)
(* cancelled, a step that begins after it has a context to run in, the     *)
(* conclusion fits what happened, and every post hook gets its turn in     *)
(* reverse order.                                                          *)
ExecutionSound ==
    On("execution") =>
        Execution!CancelledIsNotTolerated /\ Execution!CleanupHasContext /\ Execution!ConclusionFits /\ Execution!HooksInReverse

(* outputMasker and workflowCommandWriter: no secret is shown whole,       *)
(* however the writes of two processes cut it and whichever of them added  *)
(* it; nothing but secrets is hidden; and every line but the commands is   *)
(* in the output once and in order.                                        *)
MaskingSound ==
    On("masking") =>
        Masking!SecretNeverWhole /\ Masking!OnlySecretsHidden /\ Masking!LinesKept

-----------------------------------------------------------------------------
(* Progress.                                                               *)

(* A webhook that was answered with 202 is processed in the end, although  *)
(* the service restarts and passes fail halfway.                           *)
AcceptedIsProcessed ==
    <>[](On("delivery") => (request = "accepted" => delivery.state # "new"))

(* In the end every attempt that was created under protection is planned   *)
(* or found invalid, and an original run that was deleted is gone: no      *)
(* protection is left behind by a request that failed or a console that    *)
(* ended halfway.                                                          *)
RerunsEnd ==
    <>[](On("rerun") =>
           /\ \A n \in 2..MaxAttempt :
                Rerun!Exists(n) /\ attempts[n].guarded => attempts[n].planned \/ attempts[n].done
           /\ Rerun!Exists(1) => ~attempts[1].deleting)

(* Every run gets its ID and its number, unless a sequence is used up; no  *)
(* two runs ever carry the same, and none is beyond what GitHub's clients  *)
(* can hold; although the controller ends between reserving a number and   *)
(* storing it, and two controllers allocate at once.                       *)
NumbersGiven ==
    /\ [](On("identity") => Identity!NumbersUnique /\ Identity!NumbersInRange)
    /\ <>[](On("identity") =>
               \/ \A r \in Runs : identity[r] # <<>>
               \/ \E i \in DOMAIN Identity!Scopes : sequences[i].next = MaxNumber)

(* When nothing changes any more, the commit shows the latest report of    *)
(* the newest run, although leases are left behind by controllers that     *)
(* ended; StatusReports names the one case the code misses.                *)
LatestShown ==
    <>[](On("status") => Status!LatestIsShown)

(* In the end no commit waits for uploads any more, and no files are left  *)
(* of artifacts without a record, also after a crash.                      *)
ArtifactsSettle ==
    <>[](On("artifact") =>
           /\ \A q \in Requests : upload[q].at \notin {"waiting", "woken"}
           /\ DOMAIN files \subseteq DOMAIN artifact)

(* A Write blocked by a full spool goes on, Close returns, and a reader    *)
(* that follows the log is told its end, whatever becomes of the service.  *)
LogsEnd ==
    <>[](On("logs") =>
           /\ writer.at \notin {"blocked", "close"}
           /\ writer.at = "exited" => follower.at \in {"whole", "partial", "incomplete"})

(* The page shows every entry of the log once and in order, and all of it  *)
(* once the log is over, although its connection breaks and is resumed     *)
(* from the last event it received.                                        *)
LogShown ==
    /\ [](On("events") => Events!ShownOnce)
    /\ <>[](On("events") /\ logOver => page.closed /\ Len(page.shown) = lines)

(* A job that is cancelled or timed out comes to its end, although the     *)
(* commands of its cleanup may hang.                                       *)
ExecutionEnds ==
    <>[](On("execution") /\ job # "ok" => phase = "end")
=============================================================================
