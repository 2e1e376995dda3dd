------------------------------ MODULE JobLogs -------------------------------
(* The log of a job: the runner spools its output in a ring and uploads it *)
(* in numbered chunks (joblog/uploader.go), the service keeps the chunks   *)
(* (joblog/store.go, artifact/logs.go) and the console follows them        *)
(* (console/logs.go, console/handler.go).  Byte b of the output is the     *)
(* number b.  Requests can be lost, can time out at the runner and still   *)
(* reach the service, and the service can crash.                           *)
EXTENDS Naturals, Sequences, FiniteSets, FiniteSetsExt, SequencesExt

CONSTANTS MaxOutput,               \* bytes of output in a behaviour
          WriteSizes,              \* lengths of one Write
          SpoolBytes, ChunkBytes,  \* maxPendingBytes, MaxChunkBytes
          MaxLogBytes, MaxLogChunks, MaxLogFaults

VARIABLES output,     \* bytes handed to Write so far
          spool,      \* the ring and its counters
          writer,     \* the runner's thread: what it does, bytes of its Write that are left
          uploader,   \* the upload goroutine
          net,        \* uploads on their way to the service
          chunks,     \* sequence -> the chunk on disk
          synced,     \* the chunks a crash leaves
          latest,     \* jobState.latest
          retention,  \* whether the chunks are past their retention, and whether they ever were
          outcome,    \* the WorkflowJob's result
          follower,   \* a reader in the console
          lfaults

lvars == <<output, spool, writer, uploader, net, chunks, synced, latest, retention, outcome, follower, lfaults>>

-----------------------------------------------------------------------------
NoRecord == [next |-> 0, bytes |-> 0, complete |-> FALSE]

NoChunk == [sequence |-> 0, data |-> <<>>, complete |-> FALSE]

LogsInit ==
    /\ output = 0
    /\ spool = [ring |-> [p \in 0..SpoolBytes - 1 |-> 0], written |-> 0, acknowledged |-> 0]
    /\ writer = [at |-> "run", left |-> 0, stopped |-> FALSE]
    /\ uploader = [at |-> "select", chunk |-> NoChunk, last |-> FALSE, sequence |-> 0, attempt |-> 0,
                   answer |-> "none", err |-> FALSE, discard |-> FALSE, cancelled |-> FALSE]
    /\ net = {} /\ chunks = <<>> /\ synced = {} /\ latest = NoRecord
    /\ retention = [over |-> FALSE, ever |-> FALSE]
    /\ outcome = "none"
    /\ \E f \in BOOLEAN : follower = [at |-> "read", follow |-> f, sequence |-> 0, text |-> <<>>]
    /\ lfaults = 0

Pending == spool.written - spool.acknowledged

Closing == writer.at \in {"close", "exited"}

GivesUp == uploader.err \/ uploader.discard

store == <<chunks, synced, latest, retention>>

-----------------------------------------------------------------------------
(* Write: everything that fits goes to the ring at once; what is left      *)
(* waits for the uploader.                                                 *)

Free == SpoolBytes - Pending

Spooled(first, k) ==
    [spool EXCEPT !.written = @ + k,
                  !.ring = [p \in DOMAIN @ |-> IF \E j \in 0..k - 1 : (spool.written + j) % SpoolBytes = p
                      THEN first + (CHOOSE j \in 0..k - 1 : (spool.written + j) % SpoolBytes = p)
                      ELSE @[p]]]

Put(first, n) ==
    LET k == Min({n, Free})
    IN  /\ spool' = Spooled(first, k)
        /\ writer' = [writer EXCEPT !.left = n - k, !.at = IF n = k THEN "run" ELSE "blocked"]

(* Once the archive failed, or output was discarded, Write accepts the     *)
(* output and drops it.                                                    *)
Write(n) ==
    /\ writer.at = "run" /\ output + n <= MaxOutput
    /\ output' = output + n
    /\ IF GivesUp THEN UNCHANGED <<spool, writer>> ELSE Put(output + 1, n)
    /\ UNCHANGED <<uploader, net, store, outcome, follower, lfaults>>

WriteResumes ==
    /\ writer.at = "blocked"
    /\ \/ GivesUp /\ writer' = [writer EXCEPT !.at = "run", !.left = 0] /\ UNCHANGED spool
       \/ ~GivesUp /\ Free > 0 /\ Put(output - writer.left + 1, writer.left)
    /\ UNCHANGED <<output, uploader, net, store, outcome, follower, lfaults>>

(* The wait of Write ends: execution was stopped, or the spool stayed full *)
(* for maxBlocked.                                                         *)
Discard ==
    /\ writer.at = "blocked" /\ Free = 0 /\ ~GivesUp /\ writer.stopped
    /\ uploader' = [uploader EXCEPT !.discard = TRUE]
    /\ UNCHANGED <<output, spool, writer, net, store, outcome, follower, lfaults>>

SpoolStaysFull ==
    /\ writer.at = "blocked" /\ Free = 0 /\ ~GivesUp
    /\ uploader' = [uploader EXCEPT !.err = TRUE, !.cancelled = TRUE]
    /\ UNCHANGED <<output, spool, writer, net, store, outcome, follower, lfaults>>

(* SIGTERM, the job's timeout or the end of execution: outputContext.      *)
StopOutput ==
    /\ ~writer.stopped /\ writer' = [writer EXCEPT !.stopped = TRUE]
    /\ UNCHANGED <<output, spool, uploader, net, store, outcome, follower, lfaults>>

(* Close: the runner waits for the uploader, FlushTimeout ends the wait.   *)
Close ==
    /\ writer.at = "run" /\ writer.stopped /\ writer' = [writer EXCEPT !.at = "close"]
    /\ UNCHANGED <<output, spool, uploader, net, store, outcome, follower, lfaults>>

FlushTimeout ==
    /\ writer.at = "close" /\ ~uploader.cancelled
    /\ uploader' = [uploader EXCEPT !.cancelled = TRUE]
    /\ UNCHANGED <<output, spool, writer, net, store, outcome, follower, lfaults>>

CloseReturns ==
    /\ writer.at = "close" /\ uploader.at = "done"
    /\ writer' = [writer EXCEPT !.at = "exited"]
    /\ UNCHANGED <<output, spool, uploader, net, store, outcome, follower, lfaults>>

-----------------------------------------------------------------------------
(* upload: the body of the loop, each time the uploader is woken; a        *)
(* partial chunk waits for a tick of the ticker.  A chunk is sent without  *)
(* the mutex.                                                              *)
Length == Min({Pending, ChunkBytes})

Finished == Closing /\ Length = Pending

Complete == Finished /\ ~uploader.discard

NextChunk ==
    [sequence |-> uploader.sequence,
     data     |-> [i \in 1..Length |-> spool.ring[(spool.acknowledged + i - 1) % SpoolBytes]],
     complete |-> Complete]

TakeChunk(flush) ==
    /\ uploader.at = "select" /\ ~uploader.err
    /\ Length > 0 \/ Complete
    /\ Length = ChunkBytes \/ Closing \/ flush
    /\ uploader' = [uploader EXCEPT !.at = "send", !.chunk = NextChunk, !.last = Finished]
    /\ UNCHANGED <<output, spool, writer, net, store, outcome, follower, lfaults>>

(* The loop ends: nothing left of a log that lost output, the archive      *)
(* failed, or the context was cancelled.                                   *)
UploaderEnds ==
    /\ uploader.at = "select"
    /\ uploader.err \/ uploader.cancelled \/ (Length = 0 /\ Closing /\ uploader.discard)
    /\ uploader' = [uploader EXCEPT !.at = "done", !.err = @ \/ uploader.cancelled]
    /\ UNCHANGED <<output, spool, writer, net, store, outcome, follower, lfaults>>

(* send: a request, its loss, the 5 s after which the runner tries again,  *)
(* and the end of the attempts.                                            *)
Transmit ==
    /\ uploader.at = "send" /\ ~uploader.cancelled
    /\ net' = net \cup {[chunk |-> uploader.chunk, attempt |-> uploader.attempt]}
    /\ uploader' = [uploader EXCEPT !.at = "answer", !.answer = "none"]
    /\ UNCHANGED <<output, spool, writer, store, outcome, follower, lfaults>>

Current(m) == uploader.at = "answer" /\ m.attempt = uploader.attempt

UploadLost(m) ==
    /\ m \in net /\ net' = net \ {m}
    /\ uploader' = IF Current(m) THEN [uploader EXCEPT !.at = "send"] ELSE uploader
    /\ UNCHANGED <<output, spool, writer, store, outcome, follower, lfaults>>

AnswerLate ==
    /\ uploader.at = "answer" /\ lfaults < MaxLogFaults
    /\ lfaults' = lfaults + 1
    /\ uploader' = [uploader EXCEPT !.at = "send", !.attempt = @ + 1]
    /\ UNCHANGED <<output, spool, writer, net, store, outcome, follower>>

SendEndsWhenRefused ==
    /\ uploader.at = "answer" /\ uploader.answer = "refused"
    /\ uploader' = [uploader EXCEPT !.at = "done", !.err = TRUE]
    /\ UNCHANGED <<output, spool, writer, net, store, outcome, follower, lfaults>>

SendEnds ==
    /\ uploader.at \in {"send", "answer"}
    /\ uploader.cancelled \/ uploader.answer = "refused"
    /\ uploader' = [uploader EXCEPT !.at = "done", !.err = TRUE]
    /\ UNCHANGED <<output, spool, writer, net, store, outcome, follower, lfaults>>

SendAgain ==
    /\ uploader.at = "answer" /\ uploader.answer = "failed"
    /\ uploader' = [uploader EXCEPT !.at = "send"]
    /\ UNCHANGED <<output, spool, writer, net, store, outcome, follower, lfaults>>

Acknowledge ==
    /\ uploader.at = "answer" /\ uploader.answer = "ok"
    /\ LET acknowledged == spool.acknowledged + Len(uploader.chunk.data)
       IN  spool' = IF acknowledged = spool.written THEN [spool EXCEPT !.written = 0, !.acknowledged = 0]
                    ELSE [spool EXCEPT !.acknowledged = acknowledged]
    /\ uploader' = [uploader EXCEPT !.at = IF uploader.last THEN "done" ELSE "select", !.sequence = @ + 1,
                                    !.attempt = @ + 1, !.answer = "none"]
    /\ UNCHANGED <<output, writer, net, store, outcome, follower, lfaults>>

-----------------------------------------------------------------------------
(* Append.  last() reads the newest chunk from disk when none is cached.   *)
TotalBytes == MapThenSumSet(LAMBDA s : Len(chunks[s].data), DOMAIN chunks)

LastRecord == IF latest # NoRecord \/ DOMAIN chunks = {} THEN latest
        ELSE [next |-> Max(DOMAIN chunks) + 1, bytes |-> TotalBytes, complete |-> chunks[Max(DOMAIN chunks)].complete]

Answer(m, a) ==
    /\ net' = net \ {m}
    /\ uploader' = IF Current(m) THEN [uploader EXCEPT !.answer = a] ELSE uploader

(* A chunk that is stored already must be the same; it is made durable     *)
(* before it is acknowledged again.                                        *)
AppendStored(m) ==
    /\ latest' = LastRecord
    /\ \/ synced' = DOMAIN chunks /\ Answer(m, "ok") /\ UNCHANGED lfaults
       \/ lfaults < MaxLogFaults /\ lfaults' = lfaults + 1 /\ Answer(m, "failed") /\ UNCHANGED synced

AppendNew(m) ==
    LET c == m.chunk
        record == [next |-> c.sequence + 1, bytes |-> LastRecord.bytes + Len(c.data), complete |-> c.complete]
        stored == [s \in DOMAIN chunks \cup {c.sequence} |-> IF s = c.sequence THEN c ELSE chunks[s]]
    IN  \/ /\ chunks' = stored /\ synced' = DOMAIN stored
           /\ latest' = record /\ retention' = [retention EXCEPT !.over = FALSE]
           /\ Answer(m, "ok") /\ UNCHANGED lfaults
        \/ /\ lfaults < MaxLogFaults /\ lfaults' = lfaults + 1 /\ Answer(m, "failed")
           /\ \/ latest' = LastRecord /\ UNCHANGED <<chunks, synced, retention>>
              \/ /\ chunks' = stored /\ UNCHANGED synced
                 /\ latest' = NoRecord /\ retention' = [retention EXCEPT !.over = FALSE]

Same(m) == chunks[m.chunk.sequence] = m.chunk

WithinLimits(m) == m.chunk.sequence < MaxLogChunks /\ LastRecord.bytes + Len(m.chunk.data) <= MaxLogBytes

AppendChunk(m) ==
    /\ m \in net
    /\ IF retention.over /\ LastRecord # NoRecord
       THEN Answer(m, "failed") /\ latest' = LastRecord /\ UNCHANGED <<chunks, synced, retention, lfaults>>
       ELSE IF m.chunk.sequence < LastRecord.next /\ m.chunk.sequence \in DOMAIN chunks /\ Same(m)
       THEN AppendStored(m) /\ UNCHANGED <<chunks, retention>>
       ELSE IF m.chunk.sequence = LastRecord.next /\ ~LastRecord.complete /\ WithinLimits(m)
       THEN AppendNew(m)
       ELSE Answer(m, "refused") /\ latest' = LastRecord /\ UNCHANGED <<chunks, synced, retention, lfaults>>
    /\ UNCHANGED <<output, spool, writer, outcome, follower>>

RetentionPasses ==
    /\ DOMAIN chunks # {} /\ ~retention.over /\ lfaults < MaxLogFaults
    /\ lfaults' = lfaults + 1
    /\ retention' = [over |-> TRUE, ever |-> TRUE]
    /\ UNCHANGED <<output, spool, writer, uploader, net, chunks, synced, latest, outcome, follower>>

(* cleanupJob *)

Forgotten == NoRecord

CleanupLogs ==
    /\ retention.over
    /\ chunks' = <<>> /\ synced' = {} /\ latest' = Forgotten
    /\ retention' = [retention EXCEPT !.over = FALSE]
    /\ UNCHANGED <<output, spool, writer, uploader, net, outcome, follower, lfaults>>

(* A crash of the service forgets what it cached and what was not synced.  *)
ServiceCrash ==
    /\ lfaults < MaxLogFaults /\ lfaults' = lfaults + 1
    /\ latest' = NoRecord
    /\ \E keep \in {DOMAIN chunks, synced} : chunks' = [s \in keep |-> chunks[s]] /\ synced' = synced \cap keep
    /\ UNCHANGED <<output, spool, writer, uploader, net, retention, outcome, follower>>

-----------------------------------------------------------------------------
(* The result: cancellation publishes it while the runner still works.     *)
PublishResult ==
    /\ outcome = "none"
    /\ \/ writer.at = "exited" /\ outcome' = "ended"
       \/ writer.stopped /\ outcome' = "cancelled"
    /\ UNCHANGED <<output, spool, writer, uploader, net, store, follower, lfaults>>

(* readArchive, with the check of openJobLogs for the end of the uploads.  *)
Readable(s) == s \in DOMAIN chunks /\ ~retention.over

Receive ==
    LET c == chunks[follower.sequence]
    IN  follower' = [follower EXCEPT !.at = IF c.complete THEN "whole" ELSE "read", !.sequence = @ + 1, !.text = @ \o c.data]

ReadChunk ==
    /\ follower.at = "read"
    /\ IF Readable(follower.sequence) THEN Receive ELSE follower' = [follower EXCEPT !.at = "check"]
    /\ UNCHANGED <<output, spool, writer, uploader, net, store, outcome, lfaults>>

(* A cancelled job has a result while its Pod still runs.                  *)
UploadsStopped == outcome = "ended" \/ (outcome = "cancelled" /\ writer.at = "exited")

CheckUploads ==
    /\ follower.at = "check"
    /\ follower' = [follower EXCEPT !.at = IF UploadsStopped THEN "again" ELSE IF follower.follow THEN "read" ELSE "partial"]
    /\ UNCHANGED <<output, spool, writer, uploader, net, store, outcome, lfaults>>

ReadAgainNever ==
    /\ follower.at = "again" /\ follower' = [follower EXCEPT !.at = "incomplete"]
    /\ UNCHANGED <<output, spool, writer, uploader, net, store, outcome, lfaults>>

ReadAgain ==
    /\ follower.at = "again"
    /\ IF Readable(follower.sequence) THEN Receive ELSE follower' = [follower EXCEPT !.at = "incomplete"]
    /\ UNCHANGED <<output, spool, writer, uploader, net, store, outcome, lfaults>>

-----------------------------------------------------------------------------
WriterStep == WriteResumes \/ SpoolStaysFull \/ CloseReturns \/ FlushTimeout

UploaderStep == (\E flush \in BOOLEAN : TakeChunk(flush)) \/ UploaderEnds \/ Transmit \/ SendEnds \/ SendAgain \/ Acknowledge

FollowerStep == ReadChunk \/ CheckUploads \/ ReadAgain

LogsNext ==
    \/ \E n \in WriteSizes : Write(n)
    \/ Discard \/ StopOutput \/ Close
    \/ WriterStep \/ UploaderStep \/ FollowerStep
    \/ \E m \in net : UploadLost(m) \/ AppendChunk(m)
    \/ AnswerLate
    \/ RetentionPasses \/ CleanupLogs \/ ServiceCrash \/ PublishResult

-----------------------------------------------------------------------------
Numbers(n) == [b \in 1..n |-> b]

Archived == FlattenSeq([i \in 1..Cardinality(DOMAIN chunks) |-> chunks[i - 1].data])

(* The archive is a beginning of the output, in order and without a gap,   *)
(* although uploads are repeated, arrive late, and the service crashes.    *)
ArchiveIsOutput ==
    /\ DOMAIN chunks = 0..Cardinality(DOMAIN chunks) - 1
    /\ Archived = Numbers(Len(Archived)) /\ Len(Archived) <= output

(* A chunk marked complete ends the whole output: nothing the job wrote    *)
(* is missing before it.                                                   *)
CompleteIsWhole == \A s \in DOMAIN chunks : chunks[s].complete => Len(Archived) = output

(* What the service acknowledged survives its crashes: the uploader, which *)
(* forgets an acknowledged chunk, never meets a service that misses it     *)
(* before the retention is over.                                           *)
AcknowledgedKept == ~retention.ever => 0..uploader.sequence - 1 \subseteq DOMAIN chunks

(* A reader that is told the log is incomplete is not told so by a race:   *)
(* the upload did not succeed, or the retention is over.                   *)
IncompleteIsTrue == follower.at = "incomplete" => GivesUp \/ retention.ever
=============================================================================
