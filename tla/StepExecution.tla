--------------------------- MODULE StepExecution ----------------------------
(* The runner's execution of a job plan (internal/runner/runner.go,        *)
(* composite.go, action.go): the steps in order, the steps of composite    *)
(* actions, and the post hooks of JavaScript actions in reverse order.     *)
(* The job's context ends at any time, by a signal or by its timeout;      *)
(* commands then run in a cleanup context that has a deadline of its own.  *)
EXTENDS Naturals, Sequences, FiniteSets, SequencesExt, TLC

CONSTANT Plans      \* the plans: sequences of the steps below

(* A step is a record: its condition (if), what it runs (kind),            *)
(* continue-on-error (continue), whether its configuration does not        *)
(* resolve (broken), whether its action has a post hook and on which       *)
(* condition (post, postif), and the steps of a composite action (steps).  *)

VARIABLES plan,       \* the steps of the job
          step,       \* which step is next or under way, and which of its composite's
          phase,      \* what the executor does
          job,        \* the job's context: ok, cancelled or timed_out
          cleanup,    \* the cleanup context: none, open or over
          command,    \* the command under way: its context, and whether the job was cancelled before it
          inner,      \* the composite action under way
          failed, errs,
          recorded,   \* step -> outcome and conclusion
          posts,      \* the post hooks that were registered and did not run yet
          seen,       \* what the properties ask of the past
          result

xvars == <<plan, step, phase, job, cleanup, command, inner, failed, errs, recorded, posts, seen, result>>

NoCommand == [context |-> "none", late |-> FALSE, dead |-> FALSE]

NoInner == [at |-> 0, context |-> "none", late |-> FALSE, failed |-> FALSE, cancelled |-> FALSE, err |-> FALSE]

ExecutionInit ==
    /\ plan \in Plans /\ step = 1 /\ phase = "step" /\ job = "ok" /\ cleanup = "none"
    /\ command = NoCommand /\ inner = NoInner /\ failed = FALSE /\ errs = FALSE
    /\ recorded = <<>> /\ posts = <<>> /\ result = "none"
    /\ seen = [killed |-> {}, late |-> {}, hooks |-> <<>>, ran |-> <<>>]

-----------------------------------------------------------------------------
JobContext == "job"

(* executionContexts.command: the job's context while it lives, else the   *)
(* cleanup context, which the first use creates.                           *)
CommandContext == IF job = "ok" THEN "job" ELSE "cleanup"

OpenContext(c) == cleanup' = IF c = "cleanup" /\ cleanup = "none" THEN "open" ELSE cleanup

EndedWithJob(c) == c = "job" /\ job # "ok"

Ended(c) == CASE c = "job" -> job # "ok" [] c = "cleanup" -> cleanup = "over" [] OTHER -> FALSE

JobEnds ==
    /\ job = "ok" /\ phase # "end" /\ job' \in {"cancelled", "timed_out"}
    /\ UNCHANGED <<plan, step, phase, cleanup, command, inner, failed, errs, recorded, posts, seen, result>>

CleanupEnds ==
    /\ cleanup = "open" /\ phase # "end" /\ cleanup' = "over"
    /\ UNCHANGED <<plan, step, phase, job, command, inner, failed, errs, recorded, posts, seen, result>>

(* workflowStepStatus, evaluateCondition: without a status function a      *)
(* condition also asks for success.                                        *)
Holds(condition, hasFailed, cancelled) ==
    CASE condition = "success"   -> ~hasFailed /\ ~cancelled
      [] condition = "failure"   -> hasFailed
      [] condition = "cancelled" -> cancelled
      [] condition = "always"    -> TRUE
      [] condition = "never"     -> FALSE

Outcome(o, c) == [outcome |-> o, conclusion |-> c]

Record(s, o, c) == recorded' = [t \in DOMAIN recorded \cup {s} |-> IF t = s THEN Outcome(o, c) ELSE recorded[t]]

-----------------------------------------------------------------------------
(* executePlan: the next step is skipped, does not resolve, or begins.     *)
Current == plan[step]

SkipStep ==
    /\ phase = "step" /\ step <= Len(plan) /\ ~Holds(Current.if, failed, job # "ok")
    /\ Record(step, "skipped", "skipped") /\ step' = step + 1
    /\ UNCHANGED <<plan, phase, job, cleanup, command, inner, failed, errs, posts, seen, result>>

BrokenStep ==
    /\ phase = "step" /\ step <= Len(plan) /\ Holds(Current.if, failed, job # "ok") /\ Current.broken
    /\ failed' = TRUE /\ errs' = TRUE /\ step' = step + 1
    /\ UNCHANGED <<plan, phase, job, cleanup, command, inner, recorded, posts, seen, result>>

(* executeAction registers the post hook before the action begins.         *)
Begin(key, s, late) ==
    LET hook == IF s.kind = "javascript" /\ s.post THEN <<key>> ELSE <<>>
    IN  /\ OpenContext(CommandContext)
        /\ command' = [context |-> CommandContext, late |-> late, dead |-> Ended(CommandContext)]
        /\ posts' = posts \o hook
        /\ seen' = [seen EXCEPT !.hooks = @ \o hook,
                                !.late = IF job # "ok" /\ CommandContext = "job" THEN @ \cup {key} ELSE @]

(* The context is looked at again when the command begins: the job may     *)
(* have been cancelled since its condition was evaluated.                  *)
ChooseStep ==
    /\ phase = "step" /\ step <= Len(plan) /\ Holds(Current.if, failed, job # "ok") /\ ~Current.broken
    /\ phase' = "begin"
    /\ UNCHANGED <<plan, step, job, cleanup, command, inner, failed, errs, recorded, posts, seen, result>>

BeginStep ==
    /\ phase = "begin"
    /\ IF Current.kind = "composite"
       THEN /\ phase' = "composite"
            /\ inner' = [NoInner EXCEPT !.at = 1, !.context = CommandContext, !.late = job # "ok", !.cancelled = job # "ok"]
            /\ OpenContext(CommandContext) /\ UNCHANGED <<command, posts, seen>>
       ELSE phase' = "command" /\ Begin(<<step, 0>>, Current, job # "ok") /\ UNCHANGED inner
    /\ UNCHANGED <<plan, step, job, failed, errs, recorded, result>>

(* A step ended.  Cancellation is told apart from failure, and comes       *)
(* before continue-on-error.                                               *)
CancelledDuring(late) == ~late /\ job # "ok"

Tolerated(late) == Current.continue /\ ~CancelledDuring(late)

EndStep(ok, late) ==
    /\ step' = step + 1 /\ phase' = "step"
    /\ IF ok THEN Record(step, "success", "success") /\ UNCHANGED <<failed, errs>>
       ELSE IF Tolerated(late) THEN Record(step, "failure", "success") /\ UNCHANGED <<failed, errs>>
       ELSE IF CancelledDuring(late) THEN Record(step, "cancelled", "cancelled") /\ errs' = TRUE /\ UNCHANGED failed
       ELSE Record(step, "failure", "failure") /\ failed' = TRUE /\ errs' = TRUE

(* The command ends by itself, or is killed when its context ends.         *)
CommandEnds(ok) ==
    /\ phase = "command" /\ ~command.dead /\ command' = NoCommand
    /\ EndStep(ok, command.late)
    /\ UNCHANGED <<plan, job, cleanup, inner, posts, seen, result>>

CommandKilled ==
    /\ phase = "command" /\ Ended(command.context) /\ command' = NoCommand
    /\ EndStep(FALSE, command.late)
    /\ seen' = IF CancelledDuring(command.late) THEN [seen EXCEPT !.killed = @ \cup {step}] ELSE seen
    /\ UNCHANGED <<plan, job, cleanup, inner, posts, result>>

-----------------------------------------------------------------------------
(* runComposite, with the commands of its steps.                           *)
Inside == Current.steps[inner.at]

InnerCancelled == inner.cancelled \/ Ended(inner.context)

SkipInner ==
    /\ phase = "composite" /\ inner.at <= Len(Current.steps) /\ ~Holds(Inside.if, inner.failed, InnerCancelled)
    /\ inner' = [inner EXCEPT !.at = @ + 1, !.cancelled = InnerCancelled]
    /\ UNCHANGED <<plan, step, phase, job, cleanup, command, failed, errs, recorded, posts, seen, result>>

(* A step that does not resolve ends the composite action at once.         *)
BrokenInner ==
    /\ phase = "composite" /\ inner.at <= Len(Current.steps) /\ Holds(Inside.if, inner.failed, InnerCancelled) /\ Inside.broken
    /\ inner' = NoInner /\ EndStep(FALSE, inner.late)
    /\ UNCHANGED <<plan, job, cleanup, command, posts, seen, result>>

ChooseInner ==
    /\ phase = "composite" /\ inner.at <= Len(Current.steps) /\ Holds(Inside.if, inner.failed, InnerCancelled) /\ ~Inside.broken
    /\ phase' = "beginInner" /\ inner' = [inner EXCEPT !.cancelled = InnerCancelled]
    /\ UNCHANGED <<plan, step, job, cleanup, command, failed, errs, recorded, posts, seen, result>>

BeginInner ==
    /\ phase = "beginInner"
    /\ phase' = "inner" /\ Begin(<<step, inner.at>>, Inside, Ended(inner.context))
    /\ UNCHANGED <<plan, step, job, inner, failed, errs, recorded, result>>

InnerEnds(ok) ==
    LET cancelledDuring == ~command.late /\ Ended(inner.context)
    IN  /\ phase = "inner" /\ (ok => ~command.dead) /\ phase' = "composite" /\ command' = NoCommand
        /\ inner' = [inner EXCEPT !.at = @ + 1, !.err = @ \/ (~ok /\ ~Inside.continue),
                                  !.failed = @ \/ (~ok /\ ~Inside.continue /\ ~cancelledDuring)]
        /\ UNCHANGED <<plan, step, job, cleanup, failed, errs, recorded, posts, seen, result>>

InnerKilled == Ended(command.context) /\ InnerEnds(FALSE)

EndComposite ==
    /\ phase = "composite" /\ inner.at > Len(Current.steps)
    /\ inner' = NoInner /\ EndStep(~inner.err, inner.late)
    /\ UNCHANGED <<plan, job, cleanup, command, posts, seen, result>>

-----------------------------------------------------------------------------
(* runPostActions: every hook runs in the context that was chosen when the *)
(* hooks began, and a hook that fails changes the status of the next ones. *)
Hook(key) == IF key[2] = 0 THEN plan[key[1]] ELSE plan[key[1]].steps[key[2]]

EndSteps ==
    /\ phase = "step" /\ step > Len(plan)
    /\ phase' = "beginPosts" /\ errs' = (errs \/ job # "ok")
    /\ command' = [NoCommand EXCEPT !.late = job # "ok"]
    /\ UNCHANGED <<plan, step, job, cleanup, inner, failed, recorded, posts, seen, result>>

BeginPosts ==
    /\ phase = "beginPosts"
    /\ phase' = "posts" /\ OpenContext(CommandContext)
    /\ command' = [command EXCEPT !.context = CommandContext]
    /\ UNCHANGED <<plan, step, job, inner, failed, errs, recorded, posts, seen, result>>

HookDue == posts # <<>> /\ Holds(Hook(Last(posts)).postif, failed, command.late)

SkipPost ==
    /\ phase = "posts" /\ posts # <<>> /\ ~HookDue
    /\ posts' = Front(posts) /\ seen' = [seen EXCEPT !.ran = Append(@, Last(posts))]
    /\ UNCHANGED <<plan, step, phase, job, cleanup, command, inner, failed, errs, recorded, result>>

BeginPost ==
    /\ phase = "posts" /\ HookDue
    /\ phase' = "post" /\ command' = [command EXCEPT !.dead = Ended(command.context)]
    /\ seen' = [seen EXCEPT !.ran = Append(@, Last(posts))]
    /\ UNCHANGED <<plan, step, job, cleanup, inner, failed, errs, recorded, posts, result>>

PostsLeft(ok) == Front(posts)

PostEnds(ok) ==
    /\ phase = "post" /\ (ok => ~command.dead)
    /\ phase' = "posts" /\ posts' = PostsLeft(ok)
    /\ failed' = (failed \/ ~ok) /\ errs' = (errs \/ ~ok)
    /\ UNCHANGED <<plan, step, job, cleanup, command, inner, recorded, seen, result>>

PostKilled == Ended(command.context) /\ PostEnds(FALSE)

(* executionConclusion; ExecuteResult looks at the context again when      *)
(* there is an error.                                                      *)
ExecutionConclusion == IF job # "ok" THEN job ELSE IF errs THEN "failure" ELSE "success"

Conclude ==
    /\ phase = "posts" /\ posts = <<>> /\ phase' = "result"
    /\ result' = ExecutionConclusion
    /\ UNCHANGED <<plan, step, job, cleanup, command, inner, failed, errs, recorded, posts, seen>>

Finish ==
    /\ phase = "result" /\ phase' = "end"
    /\ result' = IF errs /\ job # "ok" THEN job ELSE result
    /\ UNCHANGED <<plan, step, job, cleanup, command, inner, failed, errs, recorded, posts, seen>>

-----------------------------------------------------------------------------
ExecutorStep ==
    \/ SkipStep \/ BrokenStep \/ ChooseStep \/ BeginStep \/ CommandKilled
    \/ SkipInner \/ BrokenInner \/ ChooseInner \/ BeginInner \/ InnerKilled \/ EndComposite
    \/ EndSteps \/ BeginPosts \/ SkipPost \/ BeginPost \/ PostKilled \/ Conclude \/ Finish

ExecutionNext ==
    \/ JobEnds \/ CleanupEnds \/ ExecutorStep
    \/ \E ok \in BOOLEAN : CommandEnds(ok) \/ InnerEnds(ok) \/ PostEnds(ok)

-----------------------------------------------------------------------------
Concluded == {s \in DOMAIN recorded : recorded[s].conclusion = "failure"}

(* A step whose command the cancellation killed does not count as a        *)
(* success, whatever its continue-on-error says (composite actions aside). *)
CancelledIsNotTolerated == \A s \in seen.killed : s \in DOMAIN recorded => recorded[s].conclusion = "cancelled"

(* A step that begins after the cancellation has a context in which it can *)
(* run, also inside a composite action that began before it.               *)
CleanupHasContext == seen.late = {}

(* The reported conclusion fits the execution: a success has no failed     *)
(* step and no error; a cancellation or a timeout is                      *)
(* reported as what it was, and only when it happened.                     *)
ConclusionFits ==
    phase = "end" =>
        /\ result = "success" => Concluded = {} /\ ~errs /\ \A s \in DOMAIN recorded : recorded[s].outcome # "cancelled"
        /\ result \in {"cancelled", "timed_out"} => job = result
        /\ errs /\ job # "ok" => result = job

(* Every post hook that was registered gets its turn, once, in reverse     *)
(* order, also after a hook that failed.                                   *)
HooksInReverse == phase = "end" => seen.ran = Reverse(seen.hooks)
=============================================================================
