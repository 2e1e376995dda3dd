------------------------------ MODULE MCInputs ------------------------------
(* What the instances of MCComponents are given: webhook payloads,         *)
(* workflow files, triggers, plans of steps and output.                    *)
EXTENDS Integers, Sequences, TLC

(* Two revisions of a repository: the second one changes a workflow, makes *)
(* one invalid and adds one.                                               *)
WorkflowFile(p, k) == [path |-> p, kind |-> k, jobs |-> 1]

TwoRevisions ==
    << {WorkflowFile("w1", "match"), WorkflowFile("w2", "match")},
       {WorkflowFile("w1", "match"), WorkflowFile("w2", "invalid"), WorkflowFile("w3", "match")} >>

PushPayload ==
    [name |-> "push", deleted |-> FALSE, draft |-> FALSE, ownApp |-> FALSE, forksEnabled |-> TRUE,
     state |-> "open", mergeable |-> "yes", merged |-> FALSE, mergeCommit |-> FALSE, headKnown |-> TRUE,
     foreign |-> FALSE, dependabot |-> FALSE, conflicts |-> FALSE]

PullRequestPayload == [PushPayload EXCEPT !.name = "pull_request"]

AllPayloads ==
    {PushPayload, [PushPayload EXCEPT !.ownApp = TRUE], [PushPayload EXCEPT !.name = "issues"],
     [PushPayload EXCEPT !.name = "release", !.draft = TRUE],
     [PullRequestPayload EXCEPT !.foreign = TRUE], [PullRequestPayload EXCEPT !.ownApp = TRUE]}

FewPayloads == {PushPayload, [PullRequestPayload EXCEPT !.foreign = TRUE]}

(* Two repositories with schedules; the second revision of r2 cannot be    *)
(* read.                                                                   *)
TwoRepositories == <<"r1", "r2">>

DueMinutes == [r \in {"r1", "r2"} |-> IF r = "r1" THEN {1, 2} ELSE {1}]

Unreadable == {<<"r2", 2>>}

CommittedLists == {<<1>>, <<1, 2>>, <<1, 1>>}

(* The second entry of the log fills a batch by itself.                    *)
LineBytes(n) == IF n = 2 THEN 3 ELSE 1

(* Steps of every kind, and all plans of two of them.                      *)
StepOf(condition, kind) ==
    [if |-> condition, kind |-> kind, continue |-> FALSE, broken |-> FALSE, post |-> FALSE, postif |-> "always", steps |-> <<>>]

Tolerant(s) == [s EXCEPT !.continue = TRUE]

Broken(s) == [s EXCEPT !.broken = TRUE]

JavaScript(condition) == [StepOf(condition, "javascript") EXCEPT !.post = TRUE]

Composite(condition, inside) == [StepOf(condition, "composite") EXCEPT !.steps = inside]

Script == StepOf("success", "run")

CleaningComposite == Composite("success", <<JavaScript("success"), Tolerant(JavaScript("success")), StepOf("cancelled", "run")>>)

BrokenComposite ==
    Tolerant(Composite("always", <<Script, StepOf("failure", "run"), Broken(StepOf("cancelled", "run")), JavaScript("always")>>))

AllSteps ==
    {Script, Tolerant(Script), StepOf("always", "run"), StepOf("failure", "run"), Broken(Script), JavaScript("success"),
     [Tolerant(JavaScript("cancelled")) EXCEPT !.postif = "success"], [JavaScript("always") EXCEPT !.postif = "failure"],
     CleaningComposite, BrokenComposite}

AllPlans == [1..2 -> AllSteps]

FewPlans == [1..2 -> {StepOf("always", "run"), JavaScript("success"), CleaningComposite}]

(* A matrix job m that is planned when a has a result, and d after it.     *)
ChainNeeds == [a |-> {}, m |-> {"a"}, d |-> {"m"}]

ChainTotals == [a |-> {0}, m |-> {1, 2}, d |-> {0}]

(* Where a range of a cache entry may begin; -1 stands for the whole blob. *)
CacheRanges == {-1, 0, 1}

(* What the processes write: text, line ends (n), an add-mask command (M), *)
(* and stop-commands with its resumption (S, R).                           *)
OutputChunks == {<<"a">>, <<"b">>, <<"n">>, <<"M">>, <<"a", "b">>, <<"b", "n">>, <<"S", "n">>, <<"R", "n">>}

Secrets == {<<>>, << <<"a", "b">> >>, << <<"a", "b">>, <<"b", "n", "a">> >>}

-----------------------------------------------------------------------------
(* Workflow files: matrices of all shapes, all graphs of three jobs (z is  *)
(* not there), names that collide, labels and timeouts.                    *)
Lit(t) == [expr |-> FALSE, text |-> t]

Exp(t) == [expr |-> TRUE, text |-> t]

NoTimeout == [set |-> FALSE, expr |-> FALSE, minutes |-> 0]

NoEntries == [expr |-> FALSE, entries |-> <<>>]

NoMatrix == [configured |-> FALSE, expr |-> FALSE, axes |-> <<>>, include |-> NoEntries, exclude |-> NoEntries]

PlainJob == [needs |-> {}, labels |-> <<Lit("a")>>, timeout |-> NoTimeout, matrix |-> NoMatrix, deferred |-> FALSE]

Axis(e, vs) == [expr |-> e, values |-> vs]

OneAxis(vs) == [NoMatrix EXCEPT !.configured = TRUE, !.axes = "x" :> Axis(FALSE, vs)]

Matrices ==
    LET AxisChoices == {Axis(FALSE, <<Lit("1")>>), Axis(FALSE, <<Lit("1"), Lit("2")>>), Axis(FALSE, <<Exp("1"), Exp("list")>>),
                        Axis(TRUE, <<Lit("1"), Lit("tpl")>>), Axis(TRUE, <<>>)}
        Axes == {<<>>} \cup [{"x"} -> AxisChoices] \cup [{"x", "y"} -> AxisChoices]
        Entries == {"x" :> Lit("1"), "x" :> Lit("2") @@ "z" :> Lit("1"), "y" :> Lit("2"), "z" :> Lit("1"),
                    "x" :> Lit("1") @@ "y" :> Lit("1"), "z" :> Lit("2")}
        Upto1 == {<<>>} \cup {<<e>> : e \in Entries}
        Upto2 == Upto1 \cup {<<e, f>> : e, f \in Entries}
    IN  {[configured |-> TRUE, expr |-> FALSE, axes |-> a, include |-> [NoEntries EXCEPT !.entries = i],
          exclude |-> [NoEntries EXCEPT !.entries = x]] : a \in Axes, i \in Upto2, x \in Upto1}

MatrixFiles == {"m" :> [PlainJob EXCEPT !.matrix = m] : m \in Matrices \cup {[OneAxis(<<Lit("1"), Lit("tpl")>>) EXCEPT !.expr = TRUE]}}

GraphFiles == [{"a", "b", "c"} -> {[PlainJob EXCEPT !.needs = n] : n \in SUBSET {"a", "b", "c", "z"}}]

CollidingFiles ==
    LET Two   == OneAxis(<<Lit("1"), Lit("2")>>)
        Forms == {PlainJob, [PlainJob EXCEPT !.matrix = Two], [PlainJob EXCEPT !.deferred = TRUE],
                  [PlainJob EXCEPT !.needs = {"d"}, !.deferred = TRUE, !.matrix = Two]}
        Pairs == [{"m", "m1"} -> Forms]
    IN  Pairs \cup {"d" :> PlainJob @@ f : f \in Pairs}

LabelFiles ==
    LET Labels   == {Lit("a"), Lit("A"), Lit("b"), Lit("?"), Exp("a"), Exp("A"), Exp("list")}
        Timeouts == {NoTimeout, [NoTimeout EXCEPT !.set = TRUE], [NoTimeout EXCEPT !.set = TRUE, !.minutes = 1],
                     [set |-> TRUE, expr |-> TRUE, minutes |-> 0], [set |-> TRUE, expr |-> TRUE, minutes |-> 9]}
    IN  {"m" :> [PlainJob EXCEPT !.labels = l, !.timeout = t] :
           t \in Timeouts, l \in {<<>>} \cup {<<x>> : x \in Labels} \cup {<<x, y>> : x, y \in Labels}}

AllFiles == MatrixFiles \cup GraphFiles \cup CollidingFiles \cup LabelFiles

NameOrder == <<"a", "b", "c", "d", "m", "m1", "x", "y", "z">>

-----------------------------------------------------------------------------
(* Events and the triggers they meet.                                      *)
CoversText(g, t) == g = "**" \/ g = t

Pos(g) == [not |-> FALSE, glob |-> g]

Neg(g) == [not |-> TRUE, glob |-> g]

GoodLists == {<<Pos("a")>>, <<Pos("**"), Neg("a")>>, <<Neg("a"), Pos("**")>>, <<Pos("**"), Neg("a"), Pos("a")>>}

BadLists == {<<>>, <<Neg("a")>>, <<Pos("[")>>}

SmallPush == [deleted |-> FALSE, created |-> FALSE, commits |-> 1]

NoFiles == [mergebase |-> <<>>, before |-> <<>>, parent |-> <<>>]

FileLists == {<<>>, <<"a">>, <<"b">>, <<"a", "b">>, <<"b", "b", "a">>}

Case(trigger, events, files, push) == [trigger |-> trigger, events |-> events, files |-> files, push |-> push]

Optional(field, values) == {<<>>} \cup {field :> v : v \in values}

PathFilters == Optional("paths", GoodLists) \cup Optional("paths-ignore", GoodLists)

Event(name, action, ref, refName, baseRef) ==
    [name |-> name, action |-> action, ref |-> ref, refName |-> refName, baseRef |-> baseRef, inputs |-> <<>>]

Push(r, n) == Event("push", "", r, n, "")

RefCases ==
    {Case("push" :> (b @@ t), <<Push(r, n)>>, NoFiles, SmallPush) :
       b \in Optional("branches", GoodLists), t \in Optional("tags", GoodLists), r \in {"branch", "tag", "other"}, n \in {"a", "b"}}

PathCases ==
    {Case("push" :> (f @@ t), <<Push(r, "a")>>, [NoFiles EXCEPT !.before = fs, !.parent = gs], p) :
       f \in PathFilters, t \in Optional("tags", {<<Pos("a")>>}), r \in {"branch", "tag"}, fs \in FileLists, gs \in {<<>>, <<"a">>},
       p \in {SmallPush, [SmallPush EXCEPT !.deleted = TRUE], [SmallPush EXCEPT !.created = TRUE],
              [SmallPush EXCEPT !.created = TRUE, !.commits = 0], [SmallPush EXCEPT !.commits = 2]}}

PullRequestCases ==
    {Case("pull_request" :> (t @@ b @@ p) @@ "pull_request_target" :> g,
          <<Event("pull_request", a, "branch", "m", base), Event("pull_request_target", a, "branch", "m", base)>>,
          [NoFiles EXCEPT !.mergebase = fs], SmallPush) :
       t \in Optional("types", {{"closed"}}), b \in Optional("branches", {<<Pos("a")>>}), p \in PathFilters,
       g \in {<<>>, "paths" :> <<Pos("a")>>, "paths-ignore" :> <<Pos("a")>>}, a \in {"opened", "closed"}, base \in {"a", "b"}, fs \in FileLists}

RefusedCases ==
    {Case("push" :> f, <<Push("branch", "a")>>, NoFiles, SmallPush) :
       f \in {"branches" :> l : l \in BadLists} \cup {"paths" :> l : l \in BadLists}
             \cup {"paths" :> <<Pos("a")>> @@ "paths-ignore" :> <<Pos("a")>>, "types" :> {"opened"}, "inputs" :> <<>>,
                   "schedules" :> {"x"}, "workflows" :> {"w"}}}

NamedCases ==
    {Case("workflow_run" :> f, <<Event("workflow_run", "completed", "branch", "m", "a") @@ [workflow |-> "w"]>>, NoFiles, SmallPush) :
       f \in Optional("workflows", {{}, {"w"}, {"v"}})}
    \cup {Case("schedule" :> f, <<Event("schedule", "", "branch", "m", "") @@ [cron |-> "x"]>>, NoFiles, SmallPush) :
            f \in Optional("schedules", {{}, {"x"}, {"y"}, {"?"}})}

InputCases ==
    LET Def(t, r, d, o) == [type |-> t, required |-> r, default |-> d, options |-> o]
        Defs   == {Def(t, r, d, o) : t \in {"", "boolean", "number", "choice"}, r \in BOOLEAN, d \in {"none", "true", "0", "long"}, o \in {{}, {"true"}}}
        Others == {Def("", FALSE, "long", {}), Def("boolean", TRUE, "none", {}), Def("number", FALSE, "none", {})}
        Inputs == {"i" :> d : d \in Defs} \cup {"i" :> d @@ "k" :> e : d \in Defs, e \in Others}
    IN  {Case(n :> ("inputs" :> f), <<[Event(n, "", "branch", "m", "") EXCEPT !.inputs = i]>>, NoFiles, SmallPush) :
           n \in {"workflow_dispatch", "workflow_call"}, f \in Inputs, i \in {<<>>, "i" :> "true", "i" :> "0", "z" :> "0", "i" :> "long"}}

AllCases == RefCases \cup PathCases \cup PullRequestCases \cup RefusedCases \cup NamedCases \cup InputCases
=============================================================================
