---------------------------- MODULE ArtifactStore ----------------------------
(* The artifacts of one workflow run (internal/artifact/store.go and the   *)
(* handlers of server.go).  A record, the staged blocks and the blob of an *)
(* artifact are files; one mutex guards them, but bodies are received and  *)
(* blobs assembled without it.  Uploads and commits that are under way are *)
(* counted in memory: an entry of the maps activeUploads, activeCommits    *)
(* and the reservations is here the request it was made for.               *)
EXTENDS Naturals, Sequences, FiniteSets, FiniteSetsExt, SequencesExt, TLC

CONSTANTS Requests,            \* requests served at the same time
          ArtifactNames,
          MaxArtifactId,       \* artifacts created in a behaviour
          BlockIds, BlockSizes,
          BlockLists,          \* block lists the clients commit
          MaxArtifactBytes, MaxRunBytes, MaxArtifactsPerJob,
          MaxUploads,          \* uploads and commits in a behaviour
          MaxArtifactFaults    \* crashes of the service

VARIABLES created,    \* artifacts created so far; the IDs are random and do not repeat
          artifact,   \* artifact -> its record, for those that have one
          files,      \* artifact -> its blob and blocks, for those with files
          upload,     \* the requests
          uploads,    \* uploads and commits so far; for a block the number stands for its content
          mixed,      \* a block was replaced at the same time with different lengths
          up,         \* the service is serving
          afaults

avars == <<created, artifact, files, upload, uploads, mixed, up, afaults>>

-----------------------------------------------------------------------------
ArtifactIds == 1..MaxArtifactId

NoRequest == [at |-> "idle", art |-> 0, block |-> 0, size |-> 0, growth |-> 0, content |-> 0,
              rest |-> <<>>, blob |-> <<>>, start |-> <<>>, temp |-> FALSE]

NoFiles == [blob |-> <<>>, blocks |-> <<>>]

ArtifactInit ==
    /\ created = 0 /\ artifact = <<>> /\ files = <<>> /\ upload = [q \in Requests |-> NoRequest]
    /\ uploads = 0 /\ mixed = FALSE /\ up = TRUE /\ afaults = 0

Uploading(a) == {q \in Requests : upload[q].art = a /\ upload[q].at \in {"receive", "release"}}

Committing(a) == {q \in Requests : upload[q].art = a /\ upload[q].at \in {"assemble", "publish", "finish"}}

(* expired: CreatedAt + IncompleteUploadRetention, or ExpiresAt.           *)
Expired(a) == artifact[a].age >= IF artifact[a].state = "finalized" THEN 2 ELSE 1

(* artifactActiveLocked *)
Active(a) == Uploading(a) \cup Committing(a) # {}

Bytes(s) == MapThenSumSet(LAMBDA b : s[b].size, DOMAIN s)

Staged(a) == IF a \in DOMAIN files THEN Bytes(files[a].blocks) ELSE 0

(* finalizedBytes *)
FinalizedBytes == MapThenSumSet(LAMBDA a : artifact[a].size, {a \in DOMAIN artifact : artifact[a].state # "pending"})

Reserved(qs) == MapThenSumSet(LAMBDA q : upload[q].growth, qs)

Without(f, keys) == [x \in DOMAIN f \ keys |-> f[x]]

-----------------------------------------------------------------------------
(* Cleanup.                                                                *)
ExpiredInactive == {a \in DOMAIN artifact : Expired(a) /\ ~Active(a)}

(* cleanupOrphansLocked: what the record, or its absence, does not allow.  *)
CleanFiles(gone) ==
    [a \in DOMAIN files \cap (DOMAIN artifact \ gone) |->
        [blob   |-> IF artifact[a].state = "pending" THEN <<>> ELSE files[a].blob,
         blocks |-> IF artifact[a].state = "pending" THEN files[a].blocks ELSE <<>>]]

ScopeHasActiveCommit == \E a \in ArtifactIds : Committing(a) # {}

(* cleanupScopeLocked: temporary blobs go only while nothing is committed. *)
CleanTemporary(u) ==
    IF ScopeHasActiveCommit THEN u ELSE [q \in Requests |-> [u[q] EXCEPT !.temp = FALSE]]

Cleanup ==
    /\ artifact' = Without(artifact, ExpiredInactive)
    /\ files' = CleanFiles(ExpiredInactive)
    /\ upload' = CleanTemporary(upload)
    /\ UNCHANGED <<created, uploads, mixed, afaults>>

(* Server.Start cleans up before it listens, Server.cleanup every hour.    *)
StartService == ~up /\ Cleanup /\ up' = TRUE

CleanupTick == up /\ Cleanup /\ UNCHANGED up

-----------------------------------------------------------------------------
(* Create: after a cleanup of the run's artifacts.                         *)

NameTaken(n) == \E a \in DOMAIN artifact \ ExpiredInactive : artifact[a].name = n

(* newArtifactID: an ID that was not used before.                          *)
CreateArtifact(n) ==
    /\ created < MaxArtifactId
    /\ LET kept == Without(artifact, ExpiredInactive) IN
       IF NameTaken(n) \/ Cardinality(DOMAIN kept) >= MaxArtifactsPerJob
       THEN artifact' = kept /\ UNCHANGED created
       ELSE /\ artifact' = kept @@ (created + 1 :> [name |-> n, state |-> "pending", size |-> 0, digest |-> <<>>, age |-> 0])
            /\ created' = created + 1
    /\ files' = CleanFiles(ExpiredInactive)
    /\ upload' = CleanTemporary(upload)
    /\ UNCHANGED <<uploads, mixed, up, afaults>>

-----------------------------------------------------------------------------
(* StageBlock.                                                             *)
Growth(a, b, n) ==
    LET old == IF a \in DOMAIN files /\ b \in DOMAIN files[a].blocks THEN files[a].blocks[b].size ELSE 0
    IN  IF n > old THEN n - old ELSE 0

(* reserveBlock: what is staged, what is reserved and this block together. *)
Fits(a, n, g) ==
    LET all == {q \in Requests : upload[q].at \in {"receive", "release"}} IN
    /\ g + Staged(a) + Reserved(Uploading(a)) <= MaxArtifactBytes
    /\ g + MapThenSumSet(Staged, DOMAIN files) + FinalizedBytes + Reserved(all) <= MaxRunBytes
    /\ n + MapThenSumSet(LAMBDA q : upload[q].size, all) <= MaxRunBytes

ClosedForCommitNever(a) == FALSE

ClosedForCommit(a) == Committing(a) # {}

(* An expired upload is deleted, even if another block is being received.  *)
ReserveBlock(q, a, b, n) ==
    /\ up /\ upload[q].at = "idle" /\ uploads < MaxUploads
    /\ a \in DOMAIN artifact /\ artifact[a].state = "pending" /\ ~ClosedForCommit(a)
    /\ uploads' = uploads + 1
    /\ IF Expired(a)
       THEN /\ artifact' = Without(artifact, {a}) /\ files' = Without(files, {a})
            /\ UNCHANGED <<upload, mixed>>
       ELSE /\ files' = (a :> IF a \in DOMAIN files THEN files[a] ELSE NoFiles) @@ files
            /\ UNCHANGED artifact
            /\ IF Fits(a, n, Growth(a, b, n))
               THEN /\ upload' = [upload EXCEPT ![q] = [NoRequest EXCEPT !.at = "receive", !.art = a, !.block = b, !.size = n,
                                                          !.growth = Growth(a, b, n), !.content = uploads + 1]]
                    /\ mixed' = (mixed \/ \E p \in Uploading(a) : upload[p].block = b /\ upload[p].size # n)
               ELSE UNCHANGED <<upload, mixed>>
    /\ UNCHANGED <<created, up, afaults>>

(* The body is complete: the block takes its place if the upload is still  *)
(* open.                                                                   *)
StoreBlock(q) ==
    /\ upload[q].at = "receive"
    /\ LET a == upload[q].art IN
       files' = IF a \in DOMAIN artifact /\ artifact[a].state = "pending"
                THEN [files EXCEPT ![a].blocks = (upload[q].block :> [size |-> upload[q].size, content |-> upload[q].content]) @@ @]
                ELSE files
    /\ upload' = [upload EXCEPT ![q].at = "release"]
    /\ UNCHANGED <<created, artifact, uploads, mixed, up, afaults>>

(* The body is short, or the client went away.                             *)
UploadFails(q) ==
    /\ upload[q].at = "receive"
    /\ upload' = [upload EXCEPT ![q].at = "release"]
    /\ UNCHANGED <<created, artifact, files, uploads, mixed, up, afaults>>

BroadcastNone(u) == u

(* operationChanged.Broadcast *)
Broadcast(u) == [q \in Requests |-> IF u[q].at = "waiting" THEN [u[q] EXCEPT !.at = "woken"] ELSE u[q]]

ReleaseReservation(q) ==
    /\ upload[q].at = "release"
    /\ upload' = Broadcast([upload EXCEPT ![q] = NoRequest])
    /\ UNCHANGED <<created, artifact, files, uploads, mixed, up, afaults>>

-----------------------------------------------------------------------------
(* Commit.                                                                 *)

(* beginCommit: until no upload and no other commit is active.             *)
BeginCommit(q, a, list) ==
    /\ up
    /\ \/ upload[q].at = "idle" /\ a \in DOMAIN artifact /\ uploads < MaxUploads /\ uploads' = uploads + 1
       \/ upload[q].at = "woken" /\ upload[q].art = a /\ upload[q].rest = list /\ UNCHANGED uploads
    /\ upload' = [upload EXCEPT ![q] =
          IF Active(a) THEN [NoRequest EXCEPT !.at = "waiting", !.art = a, !.rest = list]
          ELSE IF a \in DOMAIN artifact /\ artifact[a].state = "pending"
               THEN [NoRequest EXCEPT !.at = "assemble", !.art = a, !.rest = list, !.temp = TRUE,
                                      !.start = IF a \in DOMAIN files THEN files[a].blocks ELSE <<>>]
               ELSE NoRequest]
    /\ UNCHANGED <<created, artifact, files, mixed, up, afaults>>

Total(blob) == FoldLeft(LAMBDA n, x : n + x.size, 0, blob)

(* The next block is copied, without the mutex.                            *)
AssembleBlock(q) ==
    /\ upload[q].at = "assemble"
    /\ LET u == upload[q]
           there == u.art \in DOMAIN files /\ u.rest # <<>> /\ Head(u.rest) \in DOMAIN files[u.art].blocks
           blob == Append(u.blob, files[u.art].blocks[Head(u.rest)])
       IN  upload' = [upload EXCEPT ![q] =
              IF u.rest = <<>> THEN [u EXCEPT !.at = "publish"]
              ELSE IF there /\ Total(blob) <= MaxArtifactBytes
                   THEN [u EXCEPT !.rest = Tail(@), !.blob = blob] ELSE [u EXCEPT !.at = "finish"]]
    /\ UNCHANGED <<created, artifact, files, uploads, mixed, up, afaults>>

(* validateBlob: no archive, or one that may not be unpacked.              *)
BlobInvalid(q) ==
    /\ upload[q].at = "assemble" /\ upload[q].rest = <<>>
    /\ upload' = [upload EXCEPT ![q].at = "finish"]
    /\ UNCHANGED <<created, artifact, files, uploads, mixed, up, afaults>>

RunHasRoom(n) == FinalizedBytes + n <= MaxRunBytes

Open(q) == LET a == upload[q].art IN
    a \in DOMAIN artifact /\ artifact[a].state = "pending" /\ upload[q].temp /\ RunHasRoom(Total(upload[q].blob))

(* The blob is renamed, the record written, the blocks are removed.        *)
PublishBlob(q) ==
    /\ upload[q].at = "publish"
    /\ LET a == upload[q].art
           blob == upload[q].blob
       IN  IF Open(q)
           THEN /\ files' = (a :> [blob |-> blob, blocks |-> <<>>]) @@ files
                /\ artifact' = [artifact EXCEPT ![a].state = "uploaded", ![a].size = Total(blob), ![a].digest = blob]
           ELSE UNCHANGED <<files, artifact>>
    /\ upload' = [upload EXCEPT ![q].at = "finish"]
    /\ UNCHANGED <<created, uploads, mixed, up, afaults>>

FinishCommit(q) ==
    /\ upload[q].at = "finish"
    /\ upload' = Broadcast([upload EXCEPT ![q] = NoRequest])
    /\ UNCHANGED <<created, artifact, files, uploads, mixed, up, afaults>>

-----------------------------------------------------------------------------
(* Finalize, with the size and digest of what was uploaded.                *)
FinalizeArtifact(a) ==
    /\ a \in DOMAIN artifact /\ artifact[a].state = "uploaded"
    /\ artifact' = [artifact EXCEPT ![a].state = "finalized"]
    /\ UNCHANGED <<created, files, upload, uploads, mixed, up, afaults>>

(* Get, before each request for the blob: an expired artifact goes.        *)
GetArtifact(a) ==
    /\ a \in ExpiredInactive
    /\ artifact' = Without(artifact, {a}) /\ files' = Without(files, {a})
    /\ UNCHANGED <<created, upload, uploads, mixed, up, afaults>>

(* deleteRecord: the record goes first.                                    *)
DeleteArtifact(a) ==
    /\ a \in DOMAIN artifact /\ artifact[a].state = "finalized"
    /\ artifact' = Without(artifact, {a}) /\ files' = Without(files, {a})
    /\ UNCHANGED <<created, upload, uploads, mixed, up, afaults>>

-----------------------------------------------------------------------------
(* Faults and time.                                                        *)
Down == upload' = [q \in Requests |-> NoRequest] /\ up' = FALSE /\ afaults' = afaults + 1

Crash ==
    /\ up /\ afaults < MaxArtifactFaults /\ Down
    /\ UNCHANGED <<created, artifact, files, uploads, mixed>>

(* In Commit after the rename, and after the record is written.            *)
CrashInCommit(q) ==
    /\ upload[q].at = "publish" /\ Open(q) /\ afaults < MaxArtifactFaults /\ Down
    /\ files' = [files EXCEPT ![upload[q].art].blob = upload[q].blob]
    /\ \/ UNCHANGED artifact
       \/ artifact' = [artifact EXCEPT ![upload[q].art].state = "uploaded",
                                       ![upload[q].art].size = Total(upload[q].blob), ![upload[q].art].digest = upload[q].blob]
    /\ UNCHANGED <<created, uploads, mixed>>

CrashInDelete(a) ==
    /\ up /\ afaults < MaxArtifactFaults /\ a \in DOMAIN artifact /\ artifact[a].state = "finalized" /\ Down
    /\ artifact' = Without(artifact, {a})
    /\ UNCHANGED <<created, files, uploads, mixed>>

TimePasses(a) ==
    /\ a \in DOMAIN artifact /\ artifact[a].age < 2
    /\ artifact' = [artifact EXCEPT ![a].age = @ + 1]
    /\ UNCHANGED <<created, files, upload, uploads, mixed, up, afaults>>

(* The handlers of the service.                                            *)
ServeCreate(n) == up /\ CreateArtifact(n)

ServeFinalize(a) == up /\ FinalizeArtifact(a)

ServeDelete(a) == up /\ DeleteArtifact(a)

ServeBlob(a) == up /\ GetArtifact(a)

RequestStep(q) ==
    \/ StoreBlock(q) \/ ReleaseReservation(q) \/ AssembleBlock(q) \/ PublishBlob(q) \/ FinishCommit(q)
    \/ upload[q].at = "woken" /\ BeginCommit(q, upload[q].art, upload[q].rest)

ArtifactNext ==
    \/ \E q \in Requests :
          \/ RequestStep(q) \/ UploadFails(q) \/ BlobInvalid(q) \/ CrashInCommit(q)
          \/ \E a \in ArtifactIds :
                \/ upload[q].at = "idle" /\ \E list \in BlockLists : BeginCommit(q, a, list)
                \/ \E b \in BlockIds, n \in BlockSizes : ReserveBlock(q, a, b, n)
    \/ \E a \in ArtifactIds :
          \/ ServeFinalize(a) \/ ServeBlob(a) \/ ServeDelete(a) \/ CrashInDelete(a) \/ TimePasses(a)
    \/ \E n \in ArtifactNames : ServeCreate(n)
    \/ Crash \/ StartService \/ CleanupTick

-----------------------------------------------------------------------------
(* Whatever crashes and cleanups happened, an uploaded artifact has its    *)
(* blob, and the blob is what the record's size and digest say.            *)
UploadedHasBlob ==
    \A a \in DOMAIN artifact :
        artifact[a].state # "pending" =>
            a \in DOMAIN files /\ files[a].blob = artifact[a].digest /\ Total(files[a].blob) = artifact[a].size

(* While a commit reads the blocks without the mutex nobody changes them,  *)
(* removes the record or the temporary blob: not a late upload, not the    *)
(* cleanup, not a commit of the same or another artifact.                  *)
CommitUndisturbed ==
    \A q \in Requests : upload[q].at \in {"assemble", "publish"} =>
        LET a == upload[q].art IN
        /\ upload[q].temp /\ a \in DOMAIN artifact /\ artifact[a].state = "pending"
        /\ upload[q].start = IF a \in DOMAIN files THEN files[a].blocks ELSE <<>>

(* Concurrent uploads cannot stage more than an artifact may have, and     *)
(* concurrent commits cannot publish more than a run may have.  (A block   *)
(* that two requests replace at once with different lengths is excused:    *)
(* the one that grows it reserved nothing for what the other gave back.)   *)
WithinLimits ==
    /\ mixed \/ \A a \in DOMAIN artifact : Staged(a) <= MaxArtifactBytes
    /\ FinalizedBytes <= MaxRunBytes

(* A name stands for one artifact of the run.                              *)
NameUnique == \A a, b \in DOMAIN artifact : artifact[a].name = artifact[b].name => a = b
=============================================================================
