----------------------------- MODULE CacheStore -----------------------------
(* The cache service (internal/cache/store.go, with the handlers of        *)
(* artifact/cache.go and cache_rest.go).  An entry is reserved, filled by  *)
(* one upload of the whole blob or by ranges that a commit joins, and      *)
(* finalized.  Finalized entries are evicted, oldest access first, when an *)
(* upload needs their room.  One mutex guards the entries; bodies are      *)
(* received and ranges joined without it.                                  *)
EXTENDS Naturals, Integers, Sequences, FiniteSets, FiniteSetsExt, SequencesExt, TLC

CONSTANTS CacheRequests,      \* requests served at the same time
          Repositories, CacheKeys,
          MaxEntries,         \* entries created in a behaviour
          Ranges,             \* where a range may begin; Whole stands for the whole blob
          RangeSizes,
          MaxEntryBytes, MaxRepositoryBytes, MaxTotalBytes,
          MaxCacheUploads, MaxCacheFaults

VARIABLES entries,    \* entries created so far; the IDs are random and do not repeat
          entry,      \* entry -> what entry.json says
          dir,        \* entry -> the other files of its directory
          lru,        \* the entries, the one accessed last at the end
          transfer,   \* the requests
          received,   \* uploads so far; the number stands for the content
          cfaults

cvars == <<entries, entry, dir, lru, transfer, received, cfaults>>

-----------------------------------------------------------------------------
Whole == -1

NoBlob == <<>>

NoTransfer == [at |-> "idle", id |-> 0, block |-> 0, size |-> 0, content |-> 0, rest |-> <<>>, blob |-> NoBlob]

CacheInit ==
    /\ entries = 0 /\ entry = <<>> /\ dir = <<>> /\ lru = <<>>
    /\ transfer = [q \in CacheRequests |-> NoTransfer] /\ received = 0 /\ cfaults = 0

Drop(f, keys) == [x \in DOMAIN f \ keys |-> f[x]]

DropFrom(s, ids) == SelectSeq(s, LAMBDA i : i \notin ids)

(* active and committing count the requests an entry is busy with.         *)
Receiving(i) == {q \in CacheRequests : transfer[q].id = i /\ transfer[q].at = "receive"}

Joining(i) == {q \in CacheRequests : transfer[q].id = i /\ transfer[q].at \in {"copy", "publish", "finish"}}

Busy(i) == Receiving(i) \cup Joining(i) # {}

SumOver(f) == MapThenSumSet(LAMBDA x : f[x], DOMAIN f)

StagedSize(i) == IF entry[i].uploaded THEN entry[i].size ELSE SumOver(entry[i].blocks)

ReservedFor(i) == MapThenSumSet(LAMBDA q : transfer[q].size, Receiving(i))

Touch(i) == Append(DropFrom(lru, {i}), i)

-----------------------------------------------------------------------------
(* cleanupLocked *)
Stale(i) == entry[i].old /\ ~Busy(i)

RemoveAll(ids) ==
    /\ entry' = Drop(entry, ids) /\ dir' = Drop(dir, ids) /\ lru' = DropFrom(lru, ids)

CacheCleanup ==
    /\ RemoveAll({i \in DOMAIN entry : Stale(i)})
    /\ UNCHANGED <<entries, transfer, received, cfaults>>

KeyTaken(r, k) == \E i \in DOMAIN entry : entry[i].repo = r /\ entry[i].key = k /\ ~Stale(i)

(* Create, once the cleanup it begins with has left nothing stale.         *)
CreateEntry(r, k) ==
    /\ entries < MaxEntries /\ {j \in DOMAIN entry : Stale(j)} = {} /\ ~KeyTaken(r, k)
    /\ entries' = entries + 1
    /\ entry' = entry @@ (entries + 1 :> [repo |-> r, key |-> k, size |-> 0, uploaded |-> FALSE, finalized |-> FALSE,
                                blocks |-> <<>>, old |-> FALSE])
    /\ dir' = dir @@ (entries + 1 :> [blob |-> NoBlob, blocks |-> <<>>])
    /\ lru' = Append(lru, entries + 1)
    /\ UNCHANGED <<transfer, received, cfaults>>

-----------------------------------------------------------------------------
(* makeRoomLocked: entries of the repository go first, for its own limit,  *)
(* then any, for the limit of the service.                                 *)
Uses(ids) == MapThenSumSet(LAMBDA i : StagedSize(i) + ReservedFor(i), ids)

Evictable(i) == SelectSeq(lru, LAMBDA j : entry[j].finalized /\ j # i /\ ~Busy(j))

TakeUntil(candidates, sum, limit) ==
    FoldLeft(LAMBDA t, j : IF t.sum <= limit THEN t ELSE [sum |-> t.sum - entry[j].size, ids |-> t.ids \cup {j}],
             [sum |-> sum, ids |-> {}], candidates)

Room(i, incoming) ==
    LET own == {j \in DOMAIN entry : entry[j].repo = entry[i].repo}
        first == TakeUntil(SelectSeq(Evictable(i), LAMBDA j : j \in own), Uses(own) + incoming, MaxRepositoryBytes)
        second == TakeUntil(DropFrom(Evictable(i), first.ids),
                            Uses(DOMAIN entry \ first.ids) + incoming, MaxTotalBytes)
    IN  [ok |-> first.sum <= MaxRepositoryBytes /\ second.sum <= MaxTotalBytes, victims |-> first.ids \cup second.ids]

Old(i, b) == IF b \in DOMAIN entry[i].blocks THEN entry[i].blocks[b] ELSE 0

(* Stage, StageRange: the room is reserved, then the body is received.     *)
StageCache(q, i, b, n) ==
    /\ transfer[q].at = "idle" /\ received < MaxCacheUploads
    /\ i \in DOMAIN entry /\ ~entry[i].uploaded /\ Joining(i) = {}
    /\ n + StagedSize(i) + ReservedFor(i) - Old(i, b) <= MaxEntryBytes
    /\ Room(i, n - Old(i, b)).ok
    /\ RemoveAll(Room(i, n - Old(i, b)).victims)
    /\ received' = received + 1
    /\ transfer' = [transfer EXCEPT ![q] = [NoTransfer EXCEPT !.at = "receive", !.id = i, !.block = b, !.size = n, !.content = received + 1]]
    /\ UNCHANGED <<entries, cfaults>>

Piece(q) == [from |-> IF transfer[q].block = Whole THEN 0 ELSE transfer[q].block,
             size |-> transfer[q].size, content |-> transfer[q].content]

(* Another upload of the same entry may have been faster.                  *)
StillOpen(i) == ~entry[i].uploaded /\ ~entry[i].finalized

StoreCache(q) ==
    /\ transfer[q].at = "receive"
    /\ LET i == transfer[q].id
           b == transfer[q].block
       IN  IF ~StillOpen(i) \/ (b = Whole /\ entry[i].blocks # <<>>) THEN UNCHANGED <<entry, dir>>
           ELSE IF b = Whole
           THEN /\ dir' = [dir EXCEPT ![i].blob = <<Piece(q)>>]
                /\ entry' = [entry EXCEPT ![i].uploaded = TRUE, ![i].size = transfer[q].size]
           ELSE /\ dir' = [dir EXCEPT ![i].blocks = (b :> Piece(q)) @@ @]
                /\ entry' = [entry EXCEPT ![i].blocks = (b :> transfer[q].size) @@ @]
    /\ transfer' = [transfer EXCEPT ![q] = NoTransfer]
    /\ UNCHANGED <<entries, lru, received, cfaults>>

StageFails(q) ==
    /\ transfer[q].at = "receive"
    /\ transfer' = [transfer EXCEPT ![q] = NoTransfer]
    /\ UNCHANGED <<entries, entry, dir, lru, received, cfaults>>

-----------------------------------------------------------------------------
(* beginRangeCommitLocked: the ranges must join without gap or overlap.    *)
Contiguous(blocks, size) ==
    /\ SumOver(blocks) = size
    /\ \A b \in DOMAIN blocks : b = SumOver([c \in {d \in DOMAIN blocks : d < b} |-> blocks[c]])

MayJoinWhileReceiving(i) == Joining(i) = {}

MayJoin(i) == Receiving(i) = {} /\ Joining(i) = {}

BeginJoin(q, i, size) ==
    /\ transfer[q].at = "idle" /\ i \in DOMAIN entry /\ ~entry[i].uploaded
    /\ Contiguous(entry[i].blocks, size) /\ MayJoin(i)
    /\ transfer' = [transfer EXCEPT ![q] = [NoTransfer EXCEPT !.at = "copy", !.id = i, !.size = size,
                                             !.rest = SetToSortSeq(DOMAIN entry[i].blocks, LAMBDA x, y : x < y)]]
    /\ UNCHANGED <<entries, entry, dir, lru, received, cfaults>>

(* commit: one range after the other, without the mutex.                   *)
CopyRange(q) ==
    /\ transfer[q].at = "copy"
    /\ LET t == transfer[q] IN
       transfer' = [transfer EXCEPT ![q] =
           IF t.rest = <<>> THEN [t EXCEPT !.at = "publish"]
           ELSE [t EXCEPT !.rest = Tail(@), !.blob = Append(@, dir[t.id].blocks[Head(t.rest)])]]
    /\ UNCHANGED <<entries, entry, dir, lru, received, cfaults>>

(* publishCommit *)
PublishCommit(q) ==
    /\ transfer[q].at = "publish"
    /\ LET i == transfer[q].id IN
       /\ dir' = [dir EXCEPT ![i].blob = transfer[q].blob]
       /\ entry' = [entry EXCEPT ![i].uploaded = TRUE, ![i].size = transfer[q].size]
    /\ transfer' = [transfer EXCEPT ![q].at = "finish"]
    /\ UNCHANGED <<entries, lru, received, cfaults>>

(* The ranges are removed, and the entry is free again (finishCommit).     *)
FinishJoin(q) ==
    /\ transfer[q].at = "finish"
    /\ dir' = [dir EXCEPT ![transfer[q].id].blocks = <<>>]
    /\ transfer' = [transfer EXCEPT ![q] = NoTransfer]
    /\ UNCHANGED <<entries, entry, lru, received, cfaults>>

FinalizeEntry(i) ==
    /\ i \in DOMAIN entry /\ entry[i].uploaded /\ ~entry[i].finalized
    /\ entry' = [entry EXCEPT ![i].finalized = TRUE, ![i].old = FALSE]
    /\ lru' = Touch(i)
    /\ UNCHANGED <<entries, dir, transfer, received, cfaults>>

(* Lookup and Open: the access counts.                                     *)
UseEntry(i) ==
    /\ i \in DOMAIN entry /\ entry[i].finalized /\ ~Stale(i)
    /\ entry' = [entry EXCEPT ![i].old = FALSE]
    /\ lru' = Touch(i)
    /\ UNCHANGED <<entries, dir, transfer, received, cfaults>>

-----------------------------------------------------------------------------
(* Crashes between two changes of the files, and the start after them.     *)

(* NewStore: what an interrupted change left is dropped, or the store does *)
(* not start.                                                              *)
StartStore(e, d) ==
    LET torn == {i \in DOMAIN e : ~e[i].uploaded /\ \E b \in DOMAIN e[i].blocks :
                     b \notin DOMAIN d[i].blocks \/ d[i].blocks[b].size # e[i].blocks[b]}
    IN  /\ entry' = Drop(e, torn)
        /\ dir' = [i \in DOMAIN e \ torn |->
                      [blob   |-> IF e[i].uploaded THEN d[i].blob ELSE NoBlob,
                       blocks |-> IF e[i].uploaded THEN <<>> ELSE [b \in DOMAIN e[i].blocks |-> d[i].blocks[b]]]]
        /\ lru' = DropFrom(lru, torn \cup (DOMAIN entry \ DOMAIN e))
        /\ transfer' = [q \in CacheRequests |-> NoTransfer]
        /\ cfaults' = cfaults + 1
        /\ UNCHANGED <<entries, received>>

CrashAnywhere ==
    /\ cfaults < MaxCacheFaults
    /\ StartStore(entry, dir)

(* In Stage and in publishCommit: the file is in place, entry.json is not. *)
CrashInStage(q) ==
    /\ cfaults < MaxCacheFaults /\ transfer[q].at \in {"receive", "publish"} /\ StillOpen(transfer[q].id)
    /\ StartStore(entry, [dir EXCEPT ![transfer[q].id] =
           IF transfer[q].at = "publish" THEN [@ EXCEPT !.blob = transfer[q].blob]
           ELSE IF transfer[q].block = Whole THEN [@ EXCEPT !.blob = <<Piece(q)>>]
           ELSE [@ EXCEPT !.blocks = (transfer[q].block :> Piece(q)) @@ @]])

(* remove: entry.json goes first.                                          *)
GoesFirst(i) == [e |-> Drop(entry, {i}), d |-> dir]

CrashInRemove(i) ==
    /\ cfaults < MaxCacheFaults /\ i \in DOMAIN entry /\ Stale(i)
    /\ StartStore(GoesFirst(i).e, GoesFirst(i).d)

GetsOld(i) ==
    /\ i \in DOMAIN entry /\ ~entry[i].old
    /\ entry' = [entry EXCEPT ![i].old = TRUE]
    /\ UNCHANGED <<entries, dir, lru, transfer, received, cfaults>>

(* The handlers of the service: the signed URLs, the REST and the RPC API. *)
ServeCacheBlob(q, i) == \E b \in Ranges, n \in RangeSizes : StageCache(q, i, b, n)

ServeCacheRange(q, i) == \E n \in 0..MaxEntryBytes : BeginJoin(q, i, n)

ServeReserve == \E r \in Repositories, k \in CacheKeys : CreateEntry(r, k)

ServeCacheRPC(i) == FinalizeEntry(i) \/ UseEntry(i)

CacheNext ==
    \/ \E q \in CacheRequests :
          \/ StoreCache(q) \/ StageFails(q) \/ CopyRange(q) \/ PublishCommit(q) \/ FinishJoin(q) \/ CrashInStage(q)
          \/ \E i \in 1..MaxEntries : ServeCacheRange(q, i) \/ ServeCacheBlob(q, i)
    \/ \E i \in 1..MaxEntries : ServeCacheRPC(i) \/ GetsOld(i) \/ CrashInRemove(i)
    \/ ServeReserve
    \/ CacheCleanup \/ CrashAnywhere

-----------------------------------------------------------------------------
(* Concurrent uploads never stage or keep more than the repository and the *)
(* service may, although room is made before the body is received and the  *)
(* same range may be received twice with different lengths.                *)
RoomKept ==
    LET used(ids) == MapThenSumSet(StagedSize, ids) IN
    /\ used(DOMAIN entry) <= MaxTotalBytes
    /\ \A r \in Repositories : used({i \in DOMAIN entry : entry[i].repo = r}) <= MaxRepositoryBytes

(* An entry that counts as uploaded has its blob on disk, whole: every     *)
(* byte from the first to the last one once.  So the store also starts     *)
(* again after a crash at any point.                                       *)
BlobWhole ==
    \A i \in DOMAIN entry : entry[i].uploaded =>
        /\ FoldLeft(LAMBDA n, x : n + x.size, 0, dir[i].blob) = entry[i].size
        /\ \A k \in DOMAIN dir[i].blob :
              dir[i].blob[k].from = FoldLeft(LAMBDA n, x : n + x.size, 0, SubSeq(dir[i].blob, 1, k - 1))

(* What every step keeps: what other jobs may already have restored never  *)
(* changes, a late upload or a repeated commit cannot replace a finalized  *)
(* blob.                                                                   *)
FinalizedFrozen ==
    \A i \in DOMAIN entry \cap DOMAIN entry' :
        entry[i].finalized => dir'[i].blob = dir[i].blob /\ entry'[i].size = entry[i].size

(* A key of a repository stands for one entry.                             *)
KeyOnce == \A i, j \in DOMAIN entry : entry[i].repo = entry[j].repo /\ entry[i].key = entry[j].key => i = j
=============================================================================
