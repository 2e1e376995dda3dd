----------------------------- MODULE RunIdentity -----------------------------
(* The ID and the number of a WorkflowRun (ensureWorkflowRunIdentity).     *)
(* Each is the next value of a sequence kept in a ConfigMap of its own     *)
(* (allocateWorkflowRunSequence).  A controller reads the run from its     *)
(* cache; without leader election, or while the leadership moves, two of   *)
(* them do so at the same time, and either may end between two requests.   *)
EXTENDS Naturals, Sequences, TLC

CONSTANTS Runs,          \* the original runs of one workflow
          Controllers,
          MaxNumber,     \* maxGitHubCompatibleNumber
          MaxIdentityFaults

VARIABLES sequences,  \* scope -> next value and version, version 0 before it exists
          identity,   \* run -> the stored identity, <<>> before
          cachedId,   \* run -> whether the cache shows an identity
          allocator,  \* the controllers
          given,      \* every identity that was ever stored
          ifaults

ivars == <<sequences, identity, cachedId, allocator, given, ifaults>>

Scopes == <<"id", "number">>

NoAllocation == [at |-> "idle", run |-> 0, got |-> <<>>, next |-> 0, version |-> 0]

IdentityInit ==
    /\ sequences = [i \in 1..2 |-> [next |-> 1, version |-> 0]]
    /\ identity = [r \in Runs |-> <<>>] /\ cachedId = [r \in Runs |-> FALSE]
    /\ allocator = [c \in Controllers |-> NoAllocation]
    /\ given = {} /\ ifaults = 0

Position(c) == Len(allocator[c].got) + 1

-----------------------------------------------------------------------------
(* ensureWorkflowRunIdentity of a run whose cached copy has none.          *)
BeginIdentity(c, r) ==
    /\ allocator[c].at = "idle" /\ ~cachedId[r]
    /\ allocator' = [allocator EXCEPT ![c] = [NoAllocation EXCEPT !.at = "read", !.run = r]]
    /\ UNCHANGED <<sequences, identity, cachedId, given, ifaults>>

SequenceOver(next) == next = MaxNumber

ReadSequence(c) ==
    /\ allocator[c].at = "read"
    /\ LET s == sequences[Position(c)] IN
       allocator' = [allocator EXCEPT ![c].at = IF SequenceOver(s.next) THEN "exhausted" ELSE "write",
                                      ![c].next = s.next, ![c].version = s.version]
    /\ UNCHANGED <<sequences, identity, cachedId, given, ifaults>>

AlwaysAccepted(c) == TRUE

(* Create fails when the ConfigMap exists, Update when it was changed.     *)
Accepted(c) == sequences[Position(c)].version = allocator[c].version

(* The value is the controller's once the write was accepted; otherwise it *)
(* reads again (retry.OnError).                                            *)
WriteSequence(c) ==
    /\ allocator[c].at = "write"
    /\ IF Accepted(c)
       THEN /\ sequences' = [sequences EXCEPT ![Position(c)] = [next |-> allocator[c].next + 1, version |-> @.version + 1]]
            /\ allocator' = [allocator EXCEPT ![c].got = Append(@, allocator[c].next),
                                              ![c].at = IF Position(c) = Len(Scopes) THEN "store" ELSE "read"]
       ELSE /\ allocator' = [allocator EXCEPT ![c].at = "read"]
            /\ UNCHANGED sequences
    /\ UNCHANGED <<identity, cachedId, given, ifaults>>

(* The status patch carries no version: it also replaces an identity the   *)
(* cache did not show yet.                                                 *)
StoreIdentity(c) ==
    /\ allocator[c].at = "store"
    /\ identity' = [identity EXCEPT ![allocator[c].run] = allocator[c].got]
    /\ given' = given \cup {<<allocator[c].run, allocator[c].got>>}
    /\ allocator' = [allocator EXCEPT ![c] = NoAllocation]
    /\ UNCHANGED <<sequences, cachedId, ifaults>>

(* The sequence cannot go on: the reconcile fails.                         *)
Exhausted(c) ==
    /\ allocator[c].at = "exhausted"
    /\ allocator' = [allocator EXCEPT ![c] = NoAllocation]
    /\ UNCHANGED <<sequences, identity, cachedId, given, ifaults>>

IdentityCached(r) ==
    /\ identity[r] # <<>> /\ ~cachedId[r]
    /\ cachedId' = [cachedId EXCEPT ![r] = TRUE]
    /\ UNCHANGED <<sequences, identity, allocator, given, ifaults>>

AllocatorEnds(c) ==
    /\ allocator[c].at # "idle" /\ ifaults < MaxIdentityFaults
    /\ ifaults' = ifaults + 1
    /\ allocator' = [allocator EXCEPT ![c] = NoAllocation]
    /\ UNCHANGED <<sequences, identity, cachedId, given>>

AllocatorStep(c) ==
    \/ ReadSequence(c) \/ WriteSequence(c) \/ StoreIdentity(c) \/ Exhausted(c)

IdentityNext ==
    \/ \E c \in Controllers : AllocatorStep(c) \/ AllocatorEnds(c) \/ \E r \in Runs : BeginIdentity(c, r)
    \/ \E r \in Runs : IdentityCached(r)

-----------------------------------------------------------------------------
(* No two runs ever carry the same ID or the same number, whatever races,  *)
(* retries, restarts and stale caches there were.                          *)
NumbersUnique ==
    \A x, y \in given : x # y => \A i \in DOMAIN Scopes : x[2][i] # y[2][i]

(* A sequence stops before the largest number GitHub's clients can hold.   *)
NumbersInRange == \A x \in given : \A i \in DOMAIN Scopes : x[2][i] \in 1..MaxNumber - 1
=============================================================================
