--------------------------- MODULE TriggerMatching ---------------------------
(***************************************************************************)
(* Which workflows an event starts: what Parse accepts as a trigger, Match *)
(* and the inputs it resolves (internal/workflow/workflow.go, paths.go),   *)
(* and how the delivery reconciler asks twice, with the diff fetched only  *)
(* when a path filter calls for it (internal/webhook/delivery.go,          *)
(* paths.go).                                                              *)
(*                                                                         *)
(* A trigger is a function from event names to filters, a filter one from  *)
(* the fields it sets to their values.  A pattern is [not, glob]; which    *)
(* texts a glob covers is given (the regular expressions it is compiled to *)
(* are not modelled).                                                      *)
(***************************************************************************)
EXTENDS Integers, Sequences, SequencesExt, FiniteSets

CONSTANTS
    Cases,              \* [trigger, events, files, push]: what is delivered
    Covers(_, _),       \* does the glob cover the text?
    BadGlobs,           \* the globs that do not compile
    MaxPatterns, MaxChangedFiles, MaxCommits,
    MaxInputs, MaxPayload

VARIABLES
    subject,    \* the case
    accepted,   \* what validateTrigger said: "new", "yes" or "no"
    at,         \* the candidate events considered so far
    diff,       \* the changed files, once asked for
    starts,     \* the events that select the workflow
    resolved    \* the outcome of resolving the inputs of a dispatch

tvars == <<subject, accepted, at, diff, starts, resolved>>

trigger == subject.trigger

-----------------------------------------------------------------------------
(* validateTrigger.                                                        *)

PullRequests == {"pull_request", "pull_request_target"}
Dispatches == {"workflow_dispatch", "workflow_call"}

AllowedTypes == [e \in {"push", "workflow_run", "schedule"} \cup PullRequests \cup Dispatches |->
    CASE e \in PullRequests -> {"opened", "closed"}
      [] e = "workflow_run" -> {"completed"}
      [] OTHER -> {}]

SupportsBranches(name) == name \in {"push", "workflow_run"} \cup PullRequests

(* validateRefPatterns and the pattern part of validatePathFilters.        *)
PatternsValid(patterns) ==
    /\ Len(patterns) \in 1..MaxPatterns
    /\ \A p \in Range(patterns) : p.glob # "" /\ p.glob \notin BadGlobs
    /\ \E p \in Range(patterns) : ~p.not

PathFields == {"paths", "paths-ignore"}

PathFiltersValid(name, filter) ==
    /\ ~(PathFields \subseteq DOMAIN filter)
    /\ \A field \in PathFields \cap DOMAIN filter :
         name \in {"push"} \cup PullRequests /\ PatternsValid(filter[field])

Chars(text) == CASE text = "" -> 0 [] text = "long" -> 3 [] OTHER -> 1

ValidInputValue(type, value, options) ==
    CASE type = "boolean" -> value \in {"true", "false"}
      [] type = "number" -> value \in {"0", "1"}
      [] type = "choice" -> value \in options
      [] OTHER -> TRUE

(* validateInputPayloadLength.                                             *)
PayloadFits(inputs) ==
    FoldLeft(LAMBDA sum, n : sum + Chars(n) + Chars(inputs[n]), 0, SetToSeq(DOMAIN inputs)) <= MaxPayload

None == "none"

DefaultValid(type, definition) ==
    definition.default # None => ValidInputValue(type, definition.default, definition.options)

(* validateWorkflowInputs.                                                 *)
InputTypeValid(name, type) ==
    type \in {"string", "boolean", "number"} \cup IF name = "workflow_dispatch" THEN {"choice"} ELSE {}

InputType(definition) == IF definition.type = "" THEN "string" ELSE definition.type

Defaults(inputs) ==
    [n \in {x \in DOMAIN inputs : inputs[x].default # None} |-> inputs[n].default]

InputsValid(name, inputs) ==
    /\ Cardinality(DOMAIN inputs) <= MaxInputs
    /\ \A n \in DOMAIN inputs :
         LET type == IF name = "workflow_dispatch" THEN InputType(inputs[n]) ELSE inputs[n].type
         IN /\ InputTypeValid(name, type)
            /\ (type = "choice") <=> (inputs[n].options # {})
            /\ "" \notin inputs[n].options
            /\ DefaultValid(type, inputs[n])
    /\ PayloadFits(Defaults(inputs))

(* A cron expression is its text; "?" stands for the ones ParseCron        *)
(* rejects.                                                                *)
FilterValid(name, filter) ==
    /\ name \in DOMAIN AllowedTypes
    /\ "types" \in DOMAIN filter =>
         filter["types"] # {} /\ filter["types"] \subseteq AllowedTypes[name]
    /\ "branches" \in DOMAIN filter => PatternsValid(filter["branches"]) /\ SupportsBranches(name)
    /\ "tags" \in DOMAIN filter => PatternsValid(filter["tags"]) /\ name = "push"
    /\ PathFiltersValid(name, filter)
    /\ "workflows" \in DOMAIN filter => name = "workflow_run" /\ filter["workflows"] # {}
    /\ "inputs" \in DOMAIN filter => name \in Dispatches /\ InputsValid(name, filter["inputs"])
    /\ ("schedules" \in DOMAIN filter) <=> (name = "schedule")
    /\ name = "schedule" => filter["schedules"] # {} /\ "?" \notin filter["schedules"]

ValidateTrigger ==
    /\ accepted = "new"
    /\ accepted' = IF /\ DOMAIN trigger # {}
                      /\ \A name \in DOMAIN trigger : FilterValid(name, trigger[name])
                   THEN "yes" ELSE "no"
    /\ UNCHANGED <<subject, at, diff, starts, resolved>>

-----------------------------------------------------------------------------
(* Match.  files is [paths, alwaysRun], or NoDiff when it is not known.    *)

(* patternMatchers.matches: later patterns overrule earlier ones.          *)
MatchesPatternsAny(patterns, text) ==
    /\ \E p \in Range(patterns) : ~p.not /\ Covers(p.glob, text)
    /\ \A p \in Range(patterns) : p.not => ~Covers(p.glob, text)
MatchesPatterns(patterns, text) ==
    FoldLeft(LAMBDA matched, p : IF Covers(p.glob, text) THEN ~p.not ELSE matched, FALSE, patterns)

NoDiff == [paths |-> <<>>, alwaysRun |-> FALSE, known |-> FALSE]
Diff(paths, alwaysRun) == [paths |-> paths, alwaysRun |-> alwaysRun, known |-> TRUE]

NeedsChangedFiles(filter, event) ==
    PathFields \cap DOMAIN filter # {} /\ ~(event.name = "push" /\ event.ref = "tag")

(* EventFilter.matchesPaths.                                               *)
MatchesPaths(filter, files) ==
    LET ignore == "paths-ignore" \in DOMAIN filter
        patterns == IF ignore THEN filter["paths-ignore"] ELSE filter["paths"]
        considered == SubSeq(files.paths, 1, IF Len(files.paths) < MaxChangedFiles
                                             THEN Len(files.paths) ELSE MaxChangedFiles)
    IN files.alwaysRun \/ \E path \in Range(considered) : MatchesPatterns(patterns, path) # ignore

TypesMatch(filter, event) ==
    LET types == IF "types" \in DOMAIN filter THEN filter["types"]
                 ELSE IF event.name \in PullRequests THEN {"opened"} ELSE {}
    IN types = {} \/ event.action \in types

PushMatches(filter, event) ==
    \/ event.ref = "branch" /\ IF "branches" \in DOMAIN filter
                               THEN MatchesPatterns(filter["branches"], event.refName)
                               ELSE "tags" \notin DOMAIN filter
    \/ event.ref = "tag" /\ IF "tags" \in DOMAIN filter
                            THEN MatchesPatterns(filter["tags"], event.refName)
                            ELSE "branches" \notin DOMAIN filter

BranchMatches(filter, event) ==
    \/ event.name = "push" \/ "branches" \notin DOMAIN filter
    \/ MatchesPatterns(filter["branches"], event.baseRef)

ImplicitDefault(type) ==
    CASE type = "boolean" -> "false" [] type = "number" -> "0" [] OTHER -> ""

(* resolveInputs.                                                          *)
InputValue(name, inputs, provided, n) ==
    CASE n \in DOMAIN provided -> provided[n]
      [] inputs[n].default # None -> inputs[n].default
      [] name = "workflow_call" /\ ~inputs[n].required -> ImplicitDefault(InputType(inputs[n]))
      [] OTHER -> None

ResolveInputs(name, inputs, provided) ==
    LET value(n) == InputValue(name, inputs, provided, n)
        values == [n \in {x \in DOMAIN inputs : value(x) # None} |-> value(n)]
    IN [ok |-> /\ Cardinality(DOMAIN provided) <= MaxInputs
               /\ DOMAIN provided \subseteq DOMAIN inputs
               /\ \A n \in DOMAIN inputs : inputs[n].required => value(n) # None
               /\ \A n \in DOMAIN values : ValidInputValue(InputType(inputs[n]), values[n], inputs[n].options)
               /\ PayloadFits(values),
        values |-> values]

(* The outcome is "error", "yes" or "no".                                  *)
Match(event, files) ==
    LET filter == trigger[event.name]
    IN CASE event.name \notin DOMAIN trigger -> "no"
         [] ~TypesMatch(filter, event) -> "no"
         [] event.name = "workflow_run" /\ "workflows" \in DOMAIN filter
              /\ event.workflow \notin filter["workflows"] -> "no"
         [] event.name = "schedule" /\ event.cron = "?" -> "error"
         [] event.name = "schedule" -> IF event.cron \in filter["schedules"] THEN "yes" ELSE "no"
         [] event.name = "push" /\ ~PushMatches(filter, event) -> "no"
         [] ~BranchMatches(filter, event) -> "no"
         [] NeedsChangedFiles(filter, event) /\ ~files.known -> "error"
         [] NeedsChangedFiles(filter, event) /\ ~MatchesPaths(filter, files) -> "no"
         [] OTHER -> "yes"

-----------------------------------------------------------------------------
(* The delivery reconciler.                                                *)

(* diffFiles: the commits a push is compared with, "parent" being that of  *)
(* the first new commit; a pull request with its merge base.               *)
PushBase(push) == IF push.created THEN "parent" ELSE "before"

DiffFiles(event) ==
    LET push == subject.push
    IN CASE event.name # "push" -> Diff(subject.files["mergebase"], FALSE)
         [] push.deleted -> Diff(<<>>, FALSE)
         [] push.commits > MaxCommits -> Diff(<<>>, TRUE)
         [] push.created /\ push.commits = 0 -> Diff(<<>>, FALSE)
         [] OTHER -> Diff(subject.files[PushBase(push)], FALSE)

Planned == Dispatches \cup {"schedule"}
Refused == [ok |-> FALSE, values |-> <<>>]

Candidate == subject.events[at + 1]
FirstMatch == Match(Candidate, Diff(<<>>, TRUE))
WantsDiff == FirstMatch = "yes" /\ NeedsChangedFiles(trigger[Candidate.name], Candidate)

Considering ==
    /\ accepted = "yes"
    /\ at < Len(subject.events)
    /\ Candidate.name \notin Planned

Conclude(outcome) ==
    /\ at' = at + 1
    /\ starts' = IF outcome = "yes" THEN starts \cup {at + 1} ELSE starts
    /\ UNCHANGED <<subject, accepted, resolved>>

(* changedFiles ends with the diff or, after its time is up, without one.  *)
FetchDiff(late) ==
    /\ Considering
    /\ WantsDiff /\ ~diff.known
    /\ diff' = IF late THEN Diff(<<>>, TRUE) ELSE DiffFiles(Candidate)
    /\ UNCHANGED <<subject, accepted, at, starts, resolved>>

(* An error ends the pass, and the next one begins from the start.         *)
DiffFails ==
    /\ Considering
    /\ WantsDiff /\ ~diff.known
    /\ at' = 0 /\ starts' = {} /\ diff' = NoDiff
    /\ UNCHANGED <<subject, accepted, resolved>>

Consider ==
    /\ Considering
    /\ WantsDiff => diff.known
    /\ Conclude(IF WantsDiff THEN Match(Candidate, diff) ELSE FirstMatch)
    /\ UNCHANGED diff

(* Dispatches and schedules are matched when the run is planned; what the  *)
(* console created a run for is matched there once more.                   *)
ResolvePlanningEvent ==
    /\ accepted = "yes"
    /\ at < Len(subject.events)
    /\ Candidate.name \in Planned
    /\ LET filter == trigger[Candidate.name]
           inputs == IF "inputs" \in DOMAIN filter THEN filter["inputs"] ELSE <<>>
       IN resolved' = CASE Match(Candidate, NoDiff) # "yes" -> Refused
                        [] Candidate.name = "schedule" -> [ok |-> TRUE, values |-> <<>>]
                        [] OTHER -> ResolveInputs(Candidate.name, inputs, Candidate.inputs)
    /\ at' = at + 1
    /\ UNCHANGED <<subject, accepted, diff, starts>>

MatchingInit ==
    /\ subject \in Cases
    /\ accepted = "new"
    /\ at = 0
    /\ diff = NoDiff
    /\ starts = {}
    /\ resolved = Refused

MatchingNext ==
    \/ ValidateTrigger
    \/ \E late \in BOOLEAN : FetchDiff(late)
    \/ DiffFails
    \/ Consider
    \/ ResolvePlanningEvent

-----------------------------------------------------------------------------
(* The last pattern that covers a text decides.                            *)
LastSaysYes(patterns, text) ==
    \E i \in DOMAIN patterns :
        /\ ~patterns[i].not /\ Covers(patterns[i].glob, text)
        /\ \A k \in (i + 1)..Len(patterns) : ~Covers(patterns[k].glob, text)

(* What a path filter asks of the files an event changed.                  *)
PathsWant(filter, event) ==
    LET files == DiffFiles(event)
        seen == {files.paths[i] : i \in {k \in DOMAIN files.paths : k <= MaxChangedFiles}}
    IN \/ files.alwaysRun \/ diff.alwaysRun
       \/ "paths" \in DOMAIN filter /\ \E path \in seen : LastSaysYes(filter["paths"], path)
       \/ "paths-ignore" \in DOMAIN filter /\ \E path \in seen : ~LastSaysYes(filter["paths-ignore"], path)

RefWanted(filter, event) ==
    IF event.name = "push" /\ event.ref \notin {"branch", "tag"} THEN FALSE
    ELSE IF event.name = "push"
    THEN LET own == IF event.ref = "tag" THEN "tags" ELSE "branches"
         IN IF own \in DOMAIN filter THEN LastSaysYes(filter[own], event.refName)
            ELSE {"tags", "branches"} \cap DOMAIN filter = {}
    ELSE "branches" \in DOMAIN filter => LastSaysYes(filter["branches"], event.baseRef)

(* A delivery selects a workflow for exactly the events its trigger asks   *)
(* for: each candidate is judged by the files it changed itself, although  *)
(* the diff is fetched once and after a first match without it; the last   *)
(* pattern decides; a tag is never filtered by paths, and a diff that came *)
(* too late never keeps a workflow from running.                           *)
SelectedAsAsked ==
    \A i \in 1..at :
        LET event == subject.events[i]
            filter == trigger[event.name]
        IN event.name \in {"push"} \cup PullRequests =>
             (i \in starts <=>
                /\ event.name \in DOMAIN trigger
                /\ TypesMatch(filter, event)
                /\ RefWanted(filter, event)
                /\ \/ PathFields \cap DOMAIN filter = {}
                   \/ event.name = "push" /\ event.ref = "tag"
                   \/ PathsWant(filter, event))

(* Inputs are refused only for what the caller did: with an accepted       *)
(* trigger a dispatch resolves exactly when it provides declared inputs    *)
(* with valid values, none that is required and has no default is missing, *)
(* and all of it is small enough; a declared default is never the reason   *)
(* (validateWorkflowInputs against resolveInputs).                         *)
RefusedForCause ==
    at = 1 /\ subject.events[1].name \in DOMAIN trigger \cap Dispatches
           /\ "inputs" \in DOMAIN trigger[subject.events[1].name] =>
        LET event == subject.events[1]
            inputs == trigger[event.name]["inputs"]
            provided == event.inputs
            open == DOMAIN inputs \ DOMAIN provided
        IN resolved.ok <=>
             /\ DOMAIN provided \subseteq DOMAIN inputs
             /\ \A n \in DOMAIN provided :
                  ValidInputValue(InputType(inputs[n]), provided[n], inputs[n].options)
             /\ \A n \in open : inputs[n].required => inputs[n].default # None
             /\ PayloadFits(resolved.values)
=============================================================================
