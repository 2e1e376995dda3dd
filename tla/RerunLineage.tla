---------------------------- MODULE RerunLineage ----------------------------
(* The attempts of one WorkflowRun and the event snapshot they share.      *)
(*                                                                         *)
(* The console starts an attempt: it reads the lineage, protects the       *)
(* snapshot with a finalizer on the original run, and creates the attempt  *)
(* under a name that its number determines (handler.go rerunWorkflow).     *)
(* The WorkflowRun controller validates the attempt, makes it an owner of  *)
(* the snapshot Secret and ends the protection; when the original run is   *)
(* being deleted it finishes or gives up the protection.  Requests run     *)
(* side by side, processes end, and finished runs are deleted.             *)
EXTENDS Naturals

CONSTANTS Consoles,      \* requests to rerun
          MaxAttempt,
          MaxRunUid,     \* runs ever created
          MaxRerunFaults

VARIABLES attempts,   \* attempt number -> the WorkflowRun
          secret,     \* the owners (UIDs) of the snapshot, {} when it is gone
          console,    \* the requests
          worker,     \* the WorkflowRun controller's reconcile
          made,       \* runs created so far
          excused,    \* attempts whose protection was given up, taken back or used before
          rfaults

rvars == <<attempts, secret, console, worker, made, excused, rfaults>>

-----------------------------------------------------------------------------
NoRequest == [at |-> "idle", root |-> <<>>, attempt |-> 0, previous |-> 0]

IdleWorker == [at |-> "idle", attempt |-> 0]

(* NewRerun: the object of an attempt.  "guarded" records whether the      *)
(* snapshot should be protected for it when it is created.                 *)
NewRun(u, previous, guarded) ==
    [uid |-> u, previous |-> previous, identity |-> FALSE, planned |-> FALSE, done |-> FALSE, invalid |-> FALSE,
     deleting |-> FALSE, target |-> 0, late |-> FALSE, version |-> 1, guarded |-> guarded]

RerunInit ==
    /\ attempts = [n \in {1} |-> [NewRun(1, 0, FALSE) EXCEPT !.identity = TRUE, !.planned = TRUE, !.done = TRUE]]
    /\ secret = {1} /\ console = [c \in Consoles |-> NoRequest] /\ worker = IdleWorker
    /\ made = 1 /\ excused = {} /\ rfaults = 0

Exists(n) == n \in DOMAIN attempts

Remove(n) == [m \in DOMAIN attempts \ {n} |-> attempts[m]]

(* LatestAttempt: attempts the controller found invalid do not count.      *)
LatestAttempt(n) ==
    /\ ~attempts[n].invalid
    /\ \A m \in DOMAIN attempts : attempts[m].invalid \/ m <= n

(* The target's annotations and finalizer go; a run that was deleted is    *)
(* removed with its last finalizer.                                        *)
Cleared(as) ==
    IF as[1].deleting THEN [m \in DOMAIN as \ {1} |-> as[m]]
    ELSE [as EXCEPT ![1].target = 0, ![1].late = FALSE, ![1].version = @ + 1]

-----------------------------------------------------------------------------
(* The console.                                                            *)

(* rerunWorkflow: the original run and the latest attempt, which has to be *)
(* finished (workflowRunLineage).                                          *)
ReadLineage(c) ==
    /\ console[c].at = "idle" /\ Exists(1)
    /\ \E n \in DOMAIN attempts :
         /\ LatestAttempt(n) /\ attempts[n].done /\ n < MaxAttempt
         /\ console' = [console EXCEPT ![c] = [at |-> "protect", root |-> attempts[1], attempt |-> n + 1,
                                               previous |-> attempts[n].uid]]
    /\ UNCHANGED <<attempts, secret, worker, made, excused, rfaults>>

ProtectSnapshotNever(c) ==
    /\ console[c].at = "protect"
    /\ console' = [console EXCEPT ![c].at = "create"]
    /\ UNCHANGED <<attempts, secret, worker, made, excused, rfaults>>

(* protectRerunEventSnapshot: an Update of the copy, refused when the run  *)
(* has changed; nothing is written when this attempt is protected already. *)
ProtectSnapshot(c) ==
    /\ console[c].at = "protect"
    /\ LET root == console[c].root
           n == console[c].attempt
           stored == Exists(1) /\ attempts[1].version = root.version
       IN  IF root.deleting \/ root.uid \notin secret \/ root.target \notin {0, n}
           THEN console' = [console EXCEPT ![c] = NoRequest] /\ UNCHANGED attempts
           ELSE IF root.target = n
           THEN console' = [console EXCEPT ![c].at = "create"] /\ UNCHANGED attempts
           ELSE IF ~stored
           THEN console' = [console EXCEPT ![c] = NoRequest] /\ UNCHANGED attempts
           ELSE /\ attempts' = [attempts EXCEPT ![1].target = n, ![1].late = FALSE, ![1].version = @ + 1]
                /\ console' = [console EXCEPT ![c].at = "create", ![c].root = attempts'[1]]
    /\ UNCHANGED <<secret, worker, made, excused, rfaults>>

Guarded(n) == Exists(1) /\ attempts[1].target = n

(* The Create: another request may have been faster.                       *)
CreateAttempt(c) ==
    /\ console[c].at = "create"
    /\ LET n == console[c].attempt IN
       IF Exists(n) THEN UNCHANGED <<attempts, made>>
       ELSE /\ made < MaxRunUid
            /\ made' = made + 1
            /\ attempts' = [m \in DOMAIN attempts \cup {n} |->
                             IF m = n THEN NewRun(made + 1, console[c].previous, n \notin excused) ELSE attempts[m]]
    /\ console' = [console EXCEPT ![c] = NoRequest]
    /\ UNCHANGED <<secret, worker, excused, rfaults>>

(* The Create fails and the attempt is not there: the protection is taken  *)
(* back (releaseRerunEventSnapshotProtection), with the copy's version.    *)
CreateFails(c) ==
    /\ console[c].at = "create" /\ rfaults < MaxRerunFaults /\ ~Exists(console[c].attempt)
    /\ rfaults' = rfaults + 1
    /\ attempts' = IF Exists(1) /\ attempts[1].version = console[c].root.version THEN Cleared(attempts) ELSE attempts
    /\ excused' = excused \cup {console[c].attempt}
    /\ console' = [console EXCEPT ![c] = NoRequest]
    /\ UNCHANGED <<secret, worker, made>>

ConsoleEnds(c) ==
    /\ console[c].at # "idle" /\ rfaults < MaxRerunFaults
    /\ rfaults' = rfaults + 1
    /\ console' = [console EXCEPT ![c] = NoRequest]
    /\ UNCHANGED <<attempts, secret, worker, made, excused>>

-----------------------------------------------------------------------------
(* The WorkflowRun controller.                                             *)

(* validateWorkflowRunRerun                                                *)
Valid(n) ==
    /\ Exists(n - 1)
    /\ attempts[n - 1].uid = attempts[n].previous /\ attempts[n - 1].done /\ attempts[n - 1].identity

(* Reconcile, until the attempt is planned.                                *)
BeginAttempt(n) ==
    /\ worker.at = "idle" /\ n > 1 /\ Exists(n) /\ ~attempts[n].done /\ ~attempts[n].planned
    /\ worker' = [at |-> IF Valid(n) THEN "own" ELSE "invalid", attempt |-> n]
    /\ UNCHANGED <<attempts, secret, console, made, excused, rfaults>>

(* githubEventSnapshot: an attempt may take the place of the original run. *)
Owned(n) == attempts[n].uid \in secret

MayOwn(n) == Owned(n) \/ 1 \in secret

OwnEventSnapshot ==
    /\ worker.at = "own"
    /\ IF ~Exists(worker.attempt) \/ ~MayOwn(worker.attempt)
       THEN worker' = IdleWorker /\ UNCHANGED secret
       ELSE /\ secret' = secret \cup {attempts[worker.attempt].uid}
            /\ worker' = [worker EXCEPT !.at = "release"]
    /\ UNCHANGED <<attempts, console, made, excused, rfaults>>

(* releaseRerunEventSnapshotProtection                                     *)
ReleaseProtection ==
    /\ worker.at \in {"release", "invalid"}
    /\ attempts' = IF Guarded(worker.attempt) THEN Cleared(attempts) ELSE attempts
    /\ worker' = [worker EXCEPT !.at = IF @ = "release" THEN "identity" ELSE "reject"]
    /\ UNCHANGED <<secret, console, made, excused, rfaults>>

(* ensureWorkflowRunIdentity, then the planning; or planningFailed.        *)
PlanAttempt ==
    /\ worker.at \in {"identity", "reject"}
    /\ attempts' = IF ~Exists(worker.attempt) THEN attempts
                   ELSE IF worker.at = "reject"
                   THEN [attempts EXCEPT ![worker.attempt].done = TRUE, ![worker.attempt].invalid = TRUE]
                   ELSE [attempts EXCEPT ![worker.attempt].planned = TRUE, ![worker.attempt].identity = TRUE]
    /\ worker' = IdleWorker
    /\ UNCHANGED <<secret, console, made, excused, rfaults>>

GiveUpNever(root) == FALSE

(* The deadline in the original run's annotation.                          *)
GiveUp(root) == root.late

(* finalizeRerunEventSnapshotProtection                                    *)
FinalizeProtection ==
    /\ worker.at = "idle" /\ Exists(1) /\ attempts[1].deleting
    /\ LET n == attempts[1].target IN
       IF ~Exists(n)
       THEN GiveUp(attempts[1]) /\ attempts' = Cleared(attempts) /\ UNCHANGED secret
       ELSE /\ secret' = IF attempts[n].deleting THEN secret ELSE secret \cup {attempts[n].uid}
            /\ attempts' = Cleared(attempts)
    /\ UNCHANGED <<console, worker, made, excused, rfaults>>

WorkerFails ==
    /\ worker.at # "idle" /\ rfaults < MaxRerunFaults
    /\ rfaults' = rfaults + 1 /\ worker' = IdleWorker
    /\ UNCHANGED <<attempts, secret, console, made, excused>>

-----------------------------------------------------------------------------
(* Around them.                                                            *)
AttemptCompletes(n) ==
    /\ Exists(n) /\ attempts[n].planned /\ ~attempts[n].done
    /\ attempts' = [attempts EXCEPT ![n].done = TRUE]
    /\ UNCHANGED <<secret, console, worker, made, excused, rfaults>>

(* reconcileCompletedWorkflowRunTTL, or a user                             *)
DeleteAttempt(n) ==
    /\ Exists(n) /\ attempts[n].done /\ ~attempts[n].deleting
    /\ attempts' = IF attempts[n].target = 0 THEN Remove(n)
                   ELSE [attempts EXCEPT ![n].deleting = TRUE, ![n].version = @ + 1]
    /\ excused' = excused \cup {n}
    /\ UNCHANGED <<secret, console, worker, made, rfaults>>

DeadlinePasses ==
    /\ Exists(1) /\ attempts[1].target # 0 /\ ~attempts[1].late
    /\ attempts' = [attempts EXCEPT ![1].late = TRUE]
    /\ excused' = excused \cup {attempts[1].target}
    /\ UNCHANGED <<secret, console, worker, made, rfaults>>

(* The garbage collector drops owners that are gone, and with the last one *)
(* the Secret.                                                             *)
Uids == {attempts[n].uid : n \in DOMAIN attempts}

CollectSecret ==
    /\ ~(secret \subseteq Uids)
    /\ secret' = secret \cap Uids
    /\ UNCHANGED <<attempts, console, worker, made, excused, rfaults>>

WorkerStep ==
    \/ OwnEventSnapshot \/ ReleaseProtection \/ PlanAttempt \/ FinalizeProtection
    \/ \E n \in 2..MaxAttempt : BeginAttempt(n)

RerunNext ==
    \/ WorkerStep \/ WorkerFails \/ DeadlinePasses \/ CollectSecret
    \/ \E c \in Consoles : ReadLineage(c) \/ ProtectSnapshot(c) \/ CreateAttempt(c) \/ CreateFails(c) \/ ConsoleEnds(c)
    \/ \E n \in 1..MaxAttempt : AttemptCompletes(n) \/ DeleteAttempt(n)

-----------------------------------------------------------------------------
(* Properties.                                                             *)

(* The point of the protection: an attempt can read the event snapshot     *)
(* until it is planned, although the original run was deleted while it was *)
(* being created, unless the deadline passed first, a failed request for   *)
(* the same attempt took the protection back, or the attempt's number was  *)
(* used before.                                                            *)
GuardedKeepsSnapshot ==
    \A n \in DOMAIN attempts :
        attempts[n].guarded /\ ~attempts[n].planned /\ ~attempts[n].done /\ Valid(n) => MayOwn(n)
=============================================================================
