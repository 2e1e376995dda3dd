---------------------------- MODULE StatusReports ----------------------------
(* Commit statuses (internal/controller/github_status_controller.go).      *)
(*                                                                         *)
(* Several WorkflowRuns may report the same status of the same commit: a   *)
(* later run of the workflow, or another attempt.  An owner ConfigMap says *)
(* which run the status shows, and holds a lease while one controller      *)
(* sends.  The intent to send is stored first, so that a status whose      *)
(* answer was lost is found again instead of being sent twice.             *)
EXTENDS Naturals, FiniteSets

CONSTANTS Reporters,       \* controllers that report, two while leadership moves
          Newest,          \* the runs are 1..Newest, later ones are newer
          MaxReportFaults

VARIABLES statusRun,  \* run -> its state
          owner,      \* the owner ConfigMap
          shown,      \* the status GitHub shows
          sent,       \* how often each <<run, report>> was sent, and lost answers
          reporter,   \* the controllers' reconciles
          alone,      \* no two reconciles have overlapped so far
          tokens,     \* lease tokens used
          pfaults

pvars == <<statusRun, owner, shown, sent, reporter, alone, tokens, pfaults>>

-----------------------------------------------------------------------------
Nothing == [run |-> 0, report |-> "none"]

NoOwner == [run |-> 0, token |-> 0, intent |-> "none"]

NoReport == [at |-> "idle", run |-> 0, report |-> "none", token |-> 0, found |-> Nothing]

StatusInit ==
    /\ statusRun = [r \in 1..Newest |-> [state |-> IF r = 1 THEN "live" ELSE "none", labelled |-> FALSE,
                                         job |-> "running", recorded |-> "none"]]
    /\ owner = NoOwner /\ shown = Nothing /\ sent = <<>>
    /\ reporter = [c \in Reporters |-> NoReport] /\ alone = TRUE /\ tokens = 0 /\ pfaults = 0

Present(r) == statusRun[r].state # "none" /\ statusRun[r].state # "gone"

(* workflowJobCommitStatusReport: a job without result of a run that is    *)
(* being deleted counts as cancelled.                                      *)
Report(r) ==
    IF statusRun[r].job = "done" THEN "success"
    ELSE IF statusRun[r].state = "deleting" THEN "cancelled" ELSE "pending"

(* githubStatusCurrentOwner: a newer run with the same status key, seen by *)
(* its label, which its own reconcile sets.                                *)
Outdated(r) == \E q \in r + 1..Newest : Present(q) /\ statusRun[q].labelled

Quiet(c) == reporter[c].at = "idle"

(* A controller reconciles a run once at a time.  So are two controllers   *)
(* taken to do: see the README for what happens when they do not.          *)
Turn(c, r) == Quiet(c) /\ \A d \in Reporters : reporter[d].run # r

ReportEnds(c) == reporter' = [reporter EXCEPT ![c] = NoReport]

-----------------------------------------------------------------------------
(* reconcileGitHubStatuses, up to the claim.                               *)
LoadStatus(c, r) ==
    /\ Turn(c, r) /\ Present(r)
    /\ ~(owner.run = r /\ statusRun[r].recorded = Report(r) /\ statusRun[r].labelled)
    /\ statusRun' = [statusRun EXCEPT ![r].labelled = TRUE]
    /\ reporter' = [reporter EXCEPT ![c] = IF Outdated(r) THEN NoReport
                                            ELSE [NoReport EXCEPT !.at = "claim", !.run = r, !.report = Report(r)]]
    /\ alone' = (alone /\ \A d \in Reporters : Quiet(d))
    /\ UNCHANGED <<owner, shown, sent, tokens, pfaults>>

OwnerStaysNever(r) == FALSE

OwnerStaysGone(r) == owner.run > r

(* githubStatusOwnerIsNewer, githubStatusOwnerHasLiveRun                   *)
OwnerStays(r) == owner.run > r /\ statusRun[owner.run].state = "live"

(* claimGitHubStatusOwnership: what another run meant to send is dropped.  *)
ClaimStatus(c) ==
    /\ reporter[c].at = "claim"
    /\ LET r == reporter[c].run IN
       IF OwnerStays(r) \/ owner.token # 0
       THEN ReportEnds(c) /\ UNCHANGED <<owner, tokens>>
       ELSE /\ tokens' = tokens + 1
            /\ owner' = [run |-> r, token |-> tokens + 1, intent |-> IF owner.run = r THEN owner.intent ELSE "none"]
            /\ reporter' = [reporter EXCEPT ![c].at = "intend", ![c].token = tokens + 1]
    /\ UNCHANGED <<statusRun, shown, sent, alone, pfaults>>

(* ListLatestCommitStatuses: when the same report was meant before, or     *)
(* nothing is known of what was.  The link to the console tells the runs'  *)
(* statuses apart.                                                         *)
Found(c) == IF owner.intent \in {"none", reporter[c].report} THEN shown ELSE Nothing

StoreIntent(c) ==
    /\ reporter[c].at = "intend"
    /\ IF owner.run # reporter[c].run \/ owner.token # reporter[c].token
       THEN reporter' = [reporter EXCEPT ![c].at = "release"] /\ UNCHANGED owner
       ELSE /\ owner' = [owner EXCEPT !.intent = reporter[c].report]
            /\ reporter' = [reporter EXCEPT ![c].at = "send", ![c].found = Found(c)]
    /\ UNCHANGED <<statusRun, shown, sent, alone, tokens, pfaults>>

Message(c) == [run |-> reporter[c].run, report |-> reporter[c].report]

Count(m) == IF m \in DOMAIN sent THEN sent[m] ELSE 0

(* CreateCommitStatus, unless the status is there already.                 *)
SendStatus(c) ==
    /\ reporter[c].at = "send"
    /\ IF reporter[c].found = Message(c) THEN UNCHANGED <<shown, sent>>
       ELSE /\ shown' = Message(c)
            /\ sent' = [m \in DOMAIN sent \cup {Message(c)} |-> IF m = Message(c) THEN Count(m) + 1 ELSE sent[m]]
    /\ reporter' = [reporter EXCEPT ![c].at = "record"]
    /\ UNCHANGED <<statusRun, owner, alone, tokens, pfaults>>

(* recordGitHubCommitStatus                                                *)
RecordStatus(c) ==
    /\ reporter[c].at = "record"
    /\ statusRun' = [statusRun EXCEPT ![reporter[c].run].recorded = reporter[c].report]
    /\ reporter' = [reporter EXCEPT ![c].at = "release"]
    /\ UNCHANGED <<owner, shown, sent, alone, tokens, pfaults>>

(* releaseGitHubStatusLease                                                *)
ReleaseLease(c) ==
    /\ reporter[c].at = "release"
    /\ owner' = IF owner.token = reporter[c].token THEN [owner EXCEPT !.token = 0] ELSE owner
    /\ ReportEnds(c)
    /\ UNCHANGED <<statusRun, shown, sent, alone, tokens, pfaults>>

(* finalizeGitHubStatus: once the last status is sent the owner goes, if   *)
(* no other run shares it, and then the finalizer.                         *)
Shared(r) == \E q \in 1..Newest \ {r} : statusRun[q].state = "live" /\ statusRun[q].labelled

FinalizeStatus(c, r) ==
    /\ Turn(c, r) /\ statusRun[r].state = "deleting"
    /\ (owner.run = r /\ statusRun[r].recorded = Report(r) /\ statusRun[r].labelled) \/ Outdated(r) \/ OwnerStays(r)
    /\ owner' = IF Shared(r) \/ (owner.run # r /\ owner.token # 0) \/ ~statusRun[r].labelled THEN owner ELSE NoOwner
    /\ statusRun' = [statusRun EXCEPT ![r].state = "gone"]
    /\ UNCHANGED <<shown, sent, reporter, alone, tokens, pfaults>>

-----------------------------------------------------------------------------
(* Faults and surroundings.                                                *)

(* The answer of GitHub, or of the API server after it, is lost.           *)
AnswerLost(c) ==
    /\ reporter[c].at = "record" /\ pfaults < MaxReportFaults
    /\ pfaults' = pfaults + 1
    /\ reporter' = [reporter EXCEPT ![c].at = "release"]
    /\ UNCHANGED <<statusRun, owner, shown, sent, alone, tokens>>

ReporterEnds(c) ==
    /\ ~Quiet(c) /\ pfaults < MaxReportFaults
    /\ pfaults' = pfaults + 1
    /\ ReportEnds(c)
    /\ UNCHANGED <<statusRun, owner, shown, sent, alone, tokens>>

(* githubStatusLeaseDuration has passed.  A controller that is still       *)
(* working is taken to be done long before.                                *)
LeaseExpires ==
    /\ owner.token # 0 /\ \A c \in Reporters : reporter[c].token # owner.token
    /\ owner' = [owner EXCEPT !.token = 0]
    /\ UNCHANGED <<statusRun, shown, sent, reporter, alone, tokens, pfaults>>

RunAppears(r) ==
    /\ statusRun[r].state = "none" /\ statusRun[r - 1].state # "none"
    /\ statusRun' = [statusRun EXCEPT ![r].state = "live"]
    /\ UNCHANGED <<owner, shown, sent, reporter, alone, tokens, pfaults>>

JobDone(r) ==
    /\ statusRun[r].state = "live" /\ statusRun[r].job = "running"
    /\ statusRun' = [statusRun EXCEPT ![r].job = "done"]
    /\ UNCHANGED <<owner, shown, sent, reporter, alone, tokens, pfaults>>

DeleteRun(r) ==
    /\ statusRun[r].state = "live"
    /\ statusRun' = [statusRun EXCEPT ![r].state = "deleting"]
    /\ UNCHANGED <<owner, shown, sent, reporter, alone, tokens, pfaults>>

ReporterStep(c) ==
    \/ ClaimStatus(c) \/ StoreIntent(c) \/ SendStatus(c) \/ RecordStatus(c) \/ ReleaseLease(c)

StatusNext ==
    \/ \E c \in Reporters :
          \/ ReporterStep(c) \/ AnswerLost(c) \/ ReporterEnds(c)
          \/ \E r \in 1..Newest : LoadStatus(c, r) \/ FinalizeStatus(c, r)
    \/ \E r \in 1..Newest : JobDone(r) \/ DeleteRun(r) \/ (r > 1 /\ RunAppears(r))
    \/ LeaseExpires

-----------------------------------------------------------------------------
(* What no step does: the commit never shows an older run again, although  *)
(* two controllers report for both at once, unless the run it shows or a   *)
(* still newer one that had claimed the status is being deleted.  (The     *)
(* newer one need not have sent anything: an older run that was found      *)
(* current before both appeared then takes the status from a run that      *)
(* lives, until that run is reconciled again.)                             *)
NeverOlder ==
    shown'.run < shown.run =>
        \E q \in shown.run..Newest : statusRun[q].labelled /\ statusRun[q].state \in {"deleting", "gone"}

(* A report is sent once, although an answer was lost or a controller      *)
(* ended after sending it, as long as one controller works at a time, no   *)
(* other run took the status over and the run is not being deleted.        *)
SentOnce ==
    alone => \A m \in DOMAIN sent :
        sent[m] > 1 => statusRun[m.run].state # "live" \/ \E q \in 1..Newest : q # m.run /\ statusRun[q].labelled

(* When nothing changes any more the commit shows the latest state of the  *)
(* newest run there is.  One case is excused, which the code misses: a     *)
(* newer run took the status over and was deleted, and the reconcile that  *)
(* took the status back failed before it sent anything.  The run then owns *)
(* the status and has recorded the same report before, so it never sends.  *)
LatestIsShown ==
    \A r \in 1..Newest :
        statusRun[r].state = "live" /\ (\A q \in r + 1..Newest : ~Present(q))
            => \/ shown = [run |-> r, report |-> Report(r)]
               \/ pfaults > 0 /\ shown.run > r /\ statusRun[shown.run].state = "gone"
=============================================================================
