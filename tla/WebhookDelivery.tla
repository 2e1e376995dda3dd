--------------------------- MODULE WebhookDelivery ---------------------------
(* A GitHub webhook on its way to WorkflowRuns (internal/webhook).         *)
(*                                                                         *)
(* The HTTP handler stores the signed body as a delivery ConfigMap, named  *)
(* by the digest of the body, and then the event snapshot Secret.  The     *)
(* delivery controller finds the workflows the event triggers, creates one *)
(* WorkflowRun for each, makes the run an owner of the snapshot, and marks *)
(* the delivery.  GitHub repeats webhooks, the branch moves, both          *)
(* processes may end between two calls, runs expire, and the delivery is   *)
(* removed when it has been kept long enough.                              *)
EXTENDS Naturals, Sequences, FiniteSets, SequencesExt

CONSTANTS Payloads,      \* the webhooks
          Tree,          \* revision -> set of [path, kind, jobs]
          MaxFiles,      \* maxWorkflowFiles
          MaxFanOut,     \* maxWorkflowJobs
          MaxRequests,   \* how often GitHub sends the webhook
          MaxExpired,    \* runs that expire
          MaxDeliveryFaults

VARIABLES event,      \* the webhook
          head,       \* the revision the branch is at
          delivery,   \* the delivery ConfigMap
          snapshot,   \* the event snapshot Secret: controller and owners
          triggered,  \* the WorkflowRuns: trigger -> [rev, uid]
          request,    \* the HTTP handler
          requests,   \* webhooks received
          pass,       \* the delivery controller's reconcile
          uid,        \* the next UID
          history,    \* the triggers runs were created for, with revision
          early,      \* the triggers whose run expired before the delivery was done
          expired,    \* the runs that have expired
          dfaults

dvars == <<event, head, delivery, snapshot, triggered, request, requests, pass, uid, history, early, expired, dfaults>>

-----------------------------------------------------------------------------
NoDelivery == [uid |-> 0, state |-> "none", pinned |-> <<>>]

NoSnapshot == [controller |-> 0, owners |-> {}]

IdlePass == [at |-> "idle", copy |-> NoDelivery, rest |-> <<>>, selected |-> <<>>, count |-> 0, seen |-> {}]

(* normalize: which webhooks are taken up, whether the revision is in the  *)
(* payload or a branch or tag has to be resolved, and for a pull request   *)
(* whether it counts as a fork's and has a merged revision to run.         *)
Normalize(p) ==
    LET other == [name |-> p.name, supported |-> TRUE, resolve |-> FALSE, fork |-> FALSE, mergeRevision |-> FALSE,
                  conflict |-> FALSE, jobToken |-> p.ownApp, forksEnabled |-> p.forksEnabled]
    IN  CASE p.name = "push" -> [other EXCEPT !.resolve = p.deleted]
          [] p.name = "merge_group" -> other
          [] p.name = "release" -> [other EXCEPT !.resolve = TRUE, !.supported = ~p.draft]
          [] p.name = "pull_request" ->
               LET open == p.state = "open" /\ p.mergeable # "no" IN
               [other EXCEPT !.supported = p.headKnown /\ ~(p.merged /\ p.state = "open"),
                             !.fork = p.foreign \/ p.dependabot,
                             !.mergeRevision = p.merged \/ open \/ (p.state = "closed" /\ p.mergeCommit),
                             !.conflict = open /\ ~p.merged /\ p.conflicts]
          [] OTHER -> [other EXCEPT !.resolve = TRUE]

DeliveryInit ==
    /\ event \in {Normalize(p) : p \in Payloads}
    /\ head = 1
    /\ delivery = NoDelivery /\ snapshot = NoSnapshot /\ triggered = <<>>
    /\ request = "idle" /\ requests = 0
    /\ pass = IdlePass /\ uid = 1 /\ history = {} /\ early = {} /\ expired = 0 /\ dfaults = 0

-----------------------------------------------------------------------------
(* The HTTP handler.                                                       *)

(* ServeHTTP: what is refused or not supported is not stored.              *)
Receive ==
    /\ request \in {"idle", "accepted", "failed", "ignored"} /\ requests < MaxRequests
    /\ requests' = requests + 1
    /\ request' = IF event.supported THEN "enqueue" ELSE "ignored"
    /\ UNCHANGED <<event, head, delivery, snapshot, triggered, pass, uid, history, early, expired, dfaults>>

(* enqueueQueuedDelivery: an existing ConfigMap for the same body is taken *)
(* over.                                                                   *)
Enqueue ==
    /\ request = "enqueue"
    /\ request' = "snapshot"
    /\ IF delivery.state = "none"
       THEN delivery' = [uid |-> uid, state |-> "new", pinned |-> <<>>] /\ uid' = uid + 1
       ELSE UNCHANGED <<delivery, uid>>
    /\ UNCHANGED <<event, head, snapshot, triggered, requests, pass, history, early, expired, dfaults>>

EnsureEventSnapshotLater ==
    /\ request = "snapshot" /\ request' = "accepted"
    /\ UNCHANGED <<event, head, delivery, snapshot, triggered, requests, pass, uid, history, early, expired, dfaults>>

(* ensureEventSnapshot: an existing Secret must be this delivery's.        *)
EnsureEventSnapshot ==
    /\ request = "snapshot"
    /\ IF delivery.state = "none" THEN request' = "failed" /\ UNCHANGED snapshot
       ELSE IF snapshot = NoSnapshot
       THEN /\ snapshot' = [controller |-> delivery.uid, owners |-> {delivery.uid}]
            /\ request' = "accepted"
       ELSE /\ request' = IF snapshot.controller = delivery.uid THEN "accepted" ELSE "failed"
            /\ UNCHANGED snapshot
    /\ UNCHANGED <<event, head, delivery, triggered, requests, pass, uid, history, early, expired, dfaults>>

-----------------------------------------------------------------------------
(* The delivery controller.                                                *)

(* deliveryEvents: a pull request also triggers pull_request_target, for a *)
(* fork before the workflows of the fork are looked at.                    *)
DeliveryEvents(e) ==
    IF e.name # "pull_request" THEN <<e.name>>
    ELSE LET own == IF e.mergeRevision THEN <<"pull_request">> ELSE <<>>
         IN  IF e.fork THEN <<"pull_request_target">> \o own ELSE own \o <<"pull_request_target">>

(* allowJobTokenEvent, the fork policy and conflicting merges.             *)
AllowJobToken(name) == name \in {"pull_request", "workflow_dispatch", "repository_dispatch", "schedule", "workflow_call"}

Skipped(c) ==
    \/ event.jobToken /\ ~AllowJobToken(c)
    \/ c = "pull_request" /\ ((event.fork /\ ~event.forksEnabled) \/ event.conflict)

(* Reconcile: a delivery with a state is only kept; an event caused by a   *)
(* job's own token is suppressed.                                          *)
ReadDelivery ==
    /\ pass.at = "idle" /\ delivery.state = "new"
    /\ pass' = [IdlePass EXCEPT !.at = IF event.jobToken /\ ~AllowJobToken(event.name) THEN "finish" ELSE "candidate",
                                !.copy = delivery, !.rest = DeliveryEvents(event)]
    /\ UNCHANGED <<event, head, delivery, snapshot, triggered, request, requests, uid, history, early, expired, dfaults>>

With(f, k, value) == [x \in DOMAIN f \cup {k} |-> IF x = k THEN value ELSE f[x]]

PinAgain(pinned, c) == With(pinned, c, head)

Pin(pinned, c) == IF c \in DOMAIN pinned THEN pinned ELSE With(pinned, c, head)

(* persistResolvedRevision: the revision a name stands for is stored       *)
(* before anything is created for it.  The revision of a push, a target or *)
(* a merge of two commits does not move.                                   *)
ResolveCandidate ==
    /\ pass.at = "candidate" /\ pass.rest # <<>>
    /\ LET c == Head(pass.rest) IN
       IF Skipped(c)
       THEN pass' = [pass EXCEPT !.rest = Tail(@)] /\ UNCHANGED <<delivery>>
       ELSE /\ pass' = [pass EXCEPT !.at = "select",
                                    !.copy.pinned = IF event.resolve THEN Pin(@, c) ELSE @]
            /\ delivery' = IF delivery.uid = pass.copy.uid
                           THEN [delivery EXCEPT !.pinned = pass'.copy.pinned] ELSE delivery
    /\ UNCHANGED <<event, head, snapshot, triggered, request, requests, uid, history, early, expired, dfaults>>

Revision(pinned, c) == IF c \in DOMAIN pinned THEN pinned[c] ELSE 1

(* The workflows of a revision this candidate triggers: those that match,  *)
(* and invalid ones where a run can report the error.                      *)
Matches(c, f) == f.kind = "match" \/ (f.kind = "invalid" /\ c \in {"push", "merge_group", "pull_request"})

Selections(c, r) == SetToSeq({<<c, f.path>> : f \in {g \in Tree[r] : Matches(c, g)}})

Jobs(r) == MapThenSumSet(LAMBDA f : f.jobs, {g \in Tree[r] : g.kind = "match"})

(* validateDeliveryFanOut and Match: a violation fails the delivery, but   *)
(* not for the workflows of a fork.  p has found workflows before these.   *)
Unacceptable(p, r) ==
    \/ Cardinality(p.seen \cup {f.path : f \in Tree[r]}) > MaxFiles
    \/ p.count + Jobs(r) > MaxFanOut
    \/ \E f \in Tree[r] : f.kind = "error"

FinishWith(p, state) == [p EXCEPT !.at = IF state = "Failed" THEN "fail" ELSE "finish"]

SelectWorkflows ==
    /\ pass.at = "select"
    /\ LET c == Head(pass.rest)
           r == Revision(pass.copy.pinned, c)
       IN  pass' = IF ~Unacceptable(pass, r)
                   THEN [pass EXCEPT !.at = "candidate", !.rest = Tail(@), !.selected = @ \o Selections(c, r),
                                     !.count = @ + Jobs(r), !.seen = @ \cup {f.path : f \in Tree[r]}]
                   ELSE IF c = "pull_request" /\ event.fork
                   THEN [pass EXCEPT !.at = "candidate", !.rest = Tail(@)]
                   ELSE FinishWith(pass, "Failed")
    /\ UNCHANGED <<event, head, delivery, snapshot, triggered, request, requests, uid, history, early, expired, dfaults>>

Selected ==
    /\ pass.at = "candidate" /\ pass.rest = <<>>
    /\ pass' = [pass EXCEPT !.at = "create"]
    /\ UNCHANGED <<event, head, delivery, snapshot, triggered, request, requests, uid, history, early, expired, dfaults>>

(* createWorkflowRun: the name comes from the workflow, the Project and    *)
(* the digest of the body; a run of that name must be the same.            *)
CreateWorkflowRun ==
    /\ pass.at = "create" /\ pass.selected # <<>>
    /\ LET t == Head(pass.selected)
           rev == Revision(pass.copy.pinned, t[1])
       IN  IF t \notin DOMAIN triggered
           THEN /\ triggered' = With(triggered, t, [rev |-> rev, uid |-> uid])
                /\ uid' = uid + 1
                /\ history' = history \cup {<<delivery.uid, t, rev, uid>>}
                /\ pass' = [pass EXCEPT !.at = "own"]
           ELSE /\ pass' = IF triggered[t].rev = rev THEN [pass EXCEPT !.at = "own"] ELSE FinishWith(pass, "Failed")
                /\ UNCHANGED <<triggered, uid, history>>
    /\ UNCHANGED <<event, head, delivery, snapshot, request, requests, early, expired, dfaults>>

(* ensureEventSnapshotOwner: without the Secret the reconcile is repeated. *)
OwnSnapshot ==
    /\ pass.at = "own"
    /\ LET t == Head(pass.selected) IN
       IF snapshot = NoSnapshot THEN pass' = IdlePass /\ UNCHANGED snapshot
       ELSE /\ snapshot' = IF t \in DOMAIN triggered
                           THEN [snapshot EXCEPT !.owners = @ \cup {triggered[t].uid}] ELSE snapshot
            /\ pass' = [pass EXCEPT !.at = "create", !.selected = Tail(@)]
    /\ UNCHANGED <<event, head, delivery, triggered, request, requests, uid, history, early, expired, dfaults>>

CreatedAll == pass.at = "create" /\ pass.selected = <<>>

(* finish                                                                  *)
FinishDelivery ==
    /\ pass.at \in {"finish", "fail"} \/ CreatedAll
    /\ delivery' = IF delivery.uid # pass.copy.uid THEN delivery
                   ELSE [delivery EXCEPT !.state = IF pass.at = "fail" THEN "Failed" ELSE "Completed"]
    /\ pass' = IdlePass
    /\ UNCHANGED <<event, head, snapshot, triggered, request, requests, uid, history, early, expired, dfaults>>

(* retain: a finished delivery is removed when the retention is over.      *)
Expire ==
    /\ pass.at = "idle" /\ delivery.state \in {"Completed", "Failed"}
    /\ delivery' = NoDelivery
    /\ UNCHANGED <<event, head, snapshot, triggered, request, requests, pass, uid, history, early, expired, dfaults>>

-----------------------------------------------------------------------------
(* Around them.                                                            *)
Push ==
    /\ head + 1 \in DOMAIN Tree
    /\ head' = head + 1
    /\ UNCHANGED <<event, delivery, snapshot, triggered, request, requests, pass, uid, history, early, expired, dfaults>>

HandlerEnds ==
    /\ request \in {"enqueue", "snapshot"} /\ dfaults < MaxDeliveryFaults
    /\ dfaults' = dfaults + 1 /\ request' = "failed"
    /\ UNCHANGED <<event, head, delivery, snapshot, triggered, requests, pass, uid, history, early, expired>>

PassFails ==
    /\ pass.at # "idle" /\ dfaults < MaxDeliveryFaults
    /\ dfaults' = dfaults + 1 /\ pass' = IdlePass
    /\ UNCHANGED <<event, head, delivery, snapshot, triggered, request, requests, uid, history, early, expired>>

(* A finished run expires (reconcileCompletedWorkflowRunTTL).              *)
RunExpires(t) ==
    /\ t \in DOMAIN triggered /\ expired < MaxExpired
    /\ expired' = expired + 1
    /\ early' = IF delivery.state = "new" THEN early \cup {t} ELSE early
    /\ triggered' = [u \in DOMAIN triggered \ {t} |-> triggered[u]]
    /\ UNCHANGED <<event, head, delivery, snapshot, request, requests, pass, uid, history, dfaults>>

(* The garbage collector removes a Secret all of whose owners are gone.    *)
Alive == {delivery.uid} \cup {triggered[t].uid : t \in DOMAIN triggered}

CollectSnapshot ==
    /\ snapshot # NoSnapshot /\ snapshot.owners \cap Alive = {}
    /\ snapshot' = NoSnapshot
    /\ UNCHANGED <<event, head, delivery, triggered, request, requests, pass, uid, history, early, expired, dfaults>>

HandlerStep == Enqueue \/ EnsureEventSnapshot

PassStep ==
    \/ ReadDelivery \/ ResolveCandidate \/ SelectWorkflows \/ Selected
    \/ CreateWorkflowRun \/ OwnSnapshot \/ FinishDelivery

DeliveryNext ==
    \/ Receive \/ HandlerStep \/ PassStep \/ Expire \/ Push \/ HandlerEnds \/ PassFails \/ CollectSnapshot
    \/ \E t \in DOMAIN triggered : RunExpires(t)

-----------------------------------------------------------------------------
(* Properties.                                                             *)

(* persistResolvedRevision: all runs of one delivery for one event are for *)
(* the same revision, although the branch moves between two attempts to    *)
(* create them.                                                            *)
OneRevision ==
    \A x, y \in history : x[1] = y[1] /\ x[2][1] = y[2][1] => x[3] = y[3]

(* A webhook received any number of times, and a delivery processed any    *)
(* number of times, creates at most one run of a workflow while the        *)
(* delivery is kept, unless the run had expired before all were created.   *)
NoDuplicateRun ==
    \A x, y \in history : x[1] = y[1] /\ x[2] = y[2] => x = y \/ x[2] \in early

(* A delivery is completed only when every workflow its revision triggers  *)
(* has had its run: none is forgotten after a failure halfway.             *)
CompletedMeansAll ==
    delivery.state = "Completed" =>
        \A i \in DOMAIN DeliveryEvents(event) :
            LET c == DeliveryEvents(event)[i]
                r == Revision(delivery.pinned, c)
            IN  \/ Skipped(c)
                \/ event.jobToken /\ ~AllowJobToken(event.name)
                \/ c = "pull_request" /\ event.fork
                \/ \A f \in Tree[r] : Matches(c, f) => \E x \in history : x[2] = <<c, f.path>> /\ x[3] = r

(* The event snapshot of a run outlives the delivery: whatever expires     *)
(* first, a run of a delivery that was completed can still read its event. *)
SnapshotKept ==
    delivery.state # "new" => \A t \in DOMAIN triggered : triggered[t].uid \in snapshot.owners
=============================================================================
