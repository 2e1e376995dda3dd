-------------------------- MODULE WorkflowPlanning --------------------------
(***************************************************************************)
(* From a workflow file to the jobs of a run: what Parse accepts and how   *)
(* a matrix is expanded (internal/workflow/workflow.go), and the jobs      *)
(* planWorkflowJobs makes of an accepted file                              *)
(* (internal/controller/workflowrun_controller.go).                        *)
(*                                                                         *)
(* The text of a value is a member of a small set.  A value with expr is   *)
(* an expression and its text the result of evaluating it: "list" is a     *)
(* result that is no scalar, "tpl" a result that looks like an expression  *)
(* itself, "again" what evaluating that one would give.  The expression    *)
(* language is not modelled.                                               *)
(***************************************************************************)
EXTENDS Integers, Sequences, SequencesExt, FiniteSets, TLC

CONSTANTS
    Files,              \* the workflow files considered
    SortedNames,        \* job IDs and axis names in the order of their bytes
    MaxJobs, MaxMatrixJobs, MaxMapEntries, MaxRunnerLabels,
    DefaultMinutes,     \* DefaultJobTimeoutMinutes
    MaxMinutes          \* the largest timeout of the installation

VARIABLES
    file,       \* job ID -> its definition
    parsed,     \* "new", "accepted" or the part that was rejected
    cycle,      \* the dependency cycle that Parse reports
    planned     \* the outcome of planning

wvars == <<file, parsed, cycle, planned>>

Sorted(names) == SelectSeq(SortedNames, LAMBDA n : n \in names)

-----------------------------------------------------------------------------
(* Matrices.  axes: name -> [expr, values]; include and exclude: [expr,    *)
(* entries]; an entry is a function from names to values.  A matrix with   *)
(* expr is itself one expression.                                          *)

ContainsExpression(v) == v.expr \/ v.text = "tpl"
Evaluation(v) == IF v.expr THEN v.text ELSE "again"

(* resolveMatrixValue.                                                     *)
ResolveMatrixValue(v, evaluate) ==
    IF evaluate /\ ContainsExpression(v) THEN Evaluation(v) ELSE v.text

(* The parts that do not come out of an expression are evaluated.          *)
Literal(m, part) == ~m.expr /\ ~part.expr

ResolveValues(m, axis) ==
    [i \in DOMAIN axis.values |-> ResolveMatrixValue(axis.values[i], Literal(m, axis))]

ResolveEntries(m, part) ==
    [i \in DOMAIN part.entries |->
        [n \in DOMAIN part.entries[i] |-> ResolveMatrixValue(part.entries[i][n], Literal(m, part))]]

(* resolveMatrixDefinition, resolvedMatrixFromMapping.                     *)
ResolveMatrix(m) ==
    [axes    |-> [n \in DOMAIN m.axes |-> ResolveValues(m, m.axes[n])],
     include |-> ResolveEntries(m, m.include),
     exclude |-> ResolveEntries(m, m.exclude)]

(* Arrays that are no arrays stand among the empty ones.                   *)
ResolvedValid(r) ==
    /\ Cardinality(DOMAIN r.axes) <= MaxMapEntries
    /\ \A n \in DOMAIN r.axes : /\ Len(r.axes[n]) \in 1..MaxMatrixJobs
                                /\ "list" \notin Range(r.axes[n])
    /\ \A entries \in {r.include, r.exclude} :
         /\ Len(entries) <= MaxMatrixJobs
         /\ \A e \in Range(entries) : /\ Cardinality(DOMAIN e) \in 1..MaxMapEntries
                                      /\ \A n \in DOMAIN e : e[n] # "list"

(* matrixPartialMatchAny.                                                  *)
PartialMatch(values, entry) ==
    \A n \in DOMAIN entry : n \in DOMAIN values /\ values[n] = entry[n]

(* The combinations of the first axes, in order, without the excluded.     *)
ExtendBy(r, combinations, name) ==
    LET extended(c) == SelectSeq([i \in DOMAIN r.axes[name] |-> c @@ (name :> r.axes[name][i])],
                                 LAMBDA x : \A e \in Range(r.exclude) : ~PartialMatch(x, e))
    IN FlattenSeq([i \in DOMAIN combinations |-> extended(combinations[i])])

Product(r) ==
    FoldLeft(LAMBDA combinations, name : ExtendBy(r, combinations, name), << <<>> >>,
             Sorted(DOMAIN r.axes))

(* The number of combinations is bounded before anything is excluded.      *)
TooManyCombinations(r) ==
    \E k \in 1..Cardinality(DOMAIN r.axes) :
        FoldLeft(LAMBDA count, name : count * Len(r.axes[name]), 1,
                 SubSeq(Sorted(DOMAIN r.axes), 1, k)) > MaxMatrixJobs

(* matrixEntriesCompatible.                                                *)
Compatible(original, include) ==
    \A n \in DOMAIN include : n \in DOMAIN original => original[n] = include[n]

(* An include extends the combinations it was compatible with before any   *)
(* include, or is a combination of its own.                                *)
OriginalOfNow(originals, combinations) == SubSeq(combinations, 1, Len(originals))
OriginalOf(originals, combinations) == originals

Include(originals, combinations, include) ==
    LET before == OriginalOf(originals, combinations)
        fits == {i \in DOMAIN before : Compatible(before[i], include)}
    IN IF fits = {} THEN Append(combinations, include)
       ELSE [i \in DOMAIN combinations |->
               IF i \in fits THEN include @@ combinations[i] ELSE combinations[i]]

Rejected == [ok |-> FALSE, combinations |-> <<>>]

(* expandMatrix.                                                           *)
ExpandMatrix(r) ==
    LET base == IF DOMAIN r.axes = {} THEN <<>> ELSE Product(r)
        all == IF DOMAIN r.axes = {} THEN r.include
               ELSE FoldLeft(LAMBDA cs, include : Include(base, cs, include), base, r.include)
    IN IF \/ TooManyCombinations(r)
          \/ Len(all) \notin 1..MaxMatrixJobs
          \/ \E c \in Range(all) : Cardinality(DOMAIN c) > MaxMapEntries
       THEN Rejected ELSE [ok |-> TRUE, combinations |-> all]

(* EvaluateMatrix; a job without a matrix has no combinations.             *)
EvaluateMatrix(m) ==
    IF ~m.configured THEN [ok |-> TRUE, combinations |-> <<>>]
    ELSE IF ~ResolvedValid(ResolveMatrix(m)) THEN Rejected
    ELSE ExpandMatrix(ResolveMatrix(m))

(* MatrixRequiresEvaluation.                                               *)
RequiresEvaluation(m) ==
    \/ m.expr \/ m.include.expr \/ m.exclude.expr
    \/ \E n \in DOMAIN m.axes : m.axes[n].expr \/ \E v \in Range(m.axes[n].values) : v.expr
    \/ \E part \in {m.include, m.exclude} : \E e \in Range(part.entries) :
         \E n \in DOMAIN e : e[n].expr

-----------------------------------------------------------------------------
(* Parse.                                                                  *)

(* lowerASCII on the labels of the model; "" and "?" are no labels.        *)
Lower(text) == IF text = "A" THEN "a" ELSE text
LabelValid(text) == text \notin {"", "?", "list"}

LabelsValid(labels) ==
    LET fixed == SelectSeq(labels, LAMBDA v : ~v.expr)
    IN /\ Len(labels) \in 1..MaxRunnerLabels
       /\ \A v \in Range(fixed) : LabelValid(v.text)
       /\ \A i, k \in DOMAIN fixed : Lower(fixed[i].text) = Lower(fixed[k].text) => i = k

(* JobTimeout.validate.                                                    *)
TimeoutValid(t) == t.set /\ ~t.expr => t.minutes >= 1

(* validateStrategy: a matrix without expressions is expanded right away.  *)
StrategyValid(m) ==
    \/ ~m.configured
    \/ /\ m.expr \/ DOMAIN m.axes # {} \/ m.include.expr \/ m.include.entries # <<>>
       /\ \A n \in DOMAIN m.axes : m.axes[n].expr \/ m.axes[n].values # <<>>
       /\ RequiresEvaluation(m) \/ EvaluateMatrix(m).ok

(* validateJob.                                                            *)
JobValid(id) ==
    /\ LabelsValid(file[id].labels)
    /\ id \notin file[id].needs
    /\ StrategyValid(file[id].matrix)
    /\ TimeoutValid(file[id].timeout)
    /\ file[id].deferred => file[id].needs # {}

(* The jobs a file counts as: a matrix that is not known yet is one.       *)
Counted(id) ==
    IF ~file[id].matrix.configured \/ RequiresEvaluation(file[id].matrix) THEN 1
    ELSE Len(EvaluateMatrix(file[id].matrix).combinations)

ExpandedJobs == FoldLeft(LAMBDA n, id : n + Counted(id), 0, Sorted(DOMAIN file))

(* validateJobGraph: marks 1 = on the stack, 2 = left; a frame has the     *)
(* needs of its job that are not visited yet, the first the jobs of the    *)
(* file.                                                                   *)
Entered(v, id) ==
    [v EXCEPT !.marks[id] = 1, !.stack = Append(@, [id |-> id, rest |-> Sorted(file[id].needs)])]

Left(v) == [v EXCEPT !.marks[Last(v.stack).id] = 2, !.stack = Front(@)]

CycleTo(v, id) ==
    LET start == CHOOSE i \in 2..Len(v.stack) : v.stack[i].id = id
    IN [v EXCEPT !.cycle = [i \in 1..Len(v.stack) - start + 1 |-> v.stack[start + i - 1].id] \o <<id>>]

VisitNext(v) ==
    LET id == Head(Last(v.stack).rest)
        taken == [v EXCEPT !.stack[Len(v.stack)].rest = Tail(@)]
    IN CASE v.marks[id] = 0 -> Entered(taken, id)
         [] v.marks[id] = 1 -> CycleTo(v, id)
         [] v.marks[id] = 2 -> taken

VisitStep(v) ==
    IF v.cycle # <<>> THEN v
    ELSE IF Last(v.stack).rest # <<>> THEN VisitNext(v)
    ELSE IF Len(v.stack) > 1 THEN Left(v) ELSE v

NeedsMissing == \E id \in DOMAIN file : ~(file[id].needs \subseteq DOMAIN file)

(* Each job is left once, and is taken once from the file and at most once *)
(* from the needs of each other job.                                       *)
FoundCycle ==
    LET n == Cardinality(DOMAIN file)
        first == [marks |-> [id \in DOMAIN file |-> 0], cycle |-> <<>>,
                  stack |-> << [id |-> "file", rest |-> Sorted(DOMAIN file)] >>]
    IN FoldLeft(LAMBDA v, i : VisitStep(v), first, [i \in 1..(2 + n) * n |-> i]).cycle

Parse ==
    LET verdict == CASE \E id \in DOMAIN file : ~JobValid(id) -> "job"
                     [] ExpandedJobs > MaxJobs -> "size"
                     [] NeedsMissing -> "needs"
                     [] FoundCycle # <<>> -> "cycle"
                     [] OTHER -> "accepted"
    IN /\ parsed = "new"
       /\ parsed' = verdict
       /\ cycle' = IF verdict = "cycle" THEN FoundCycle ELSE <<>>
       /\ UNCHANGED <<file, planned>>

-----------------------------------------------------------------------------
(* planWorkflowJobs.  A source job's ID is its name, and may look like the *)
(* ID of a combination; the ID of the i-th combination of id in its a-th   *)
(* form is <<id, i, a>>.  The name "m1" stands for "m-matrix-1".           *)

ExpandedID(id, i, a) == IF id = "m" /\ i = 1 /\ a = 0 THEN <<"m1">> ELSE <<id, i, a>>

(* uniqueMatrixWorkflowJobID.                                              *)
Collides(x, ids) == x \in ids \/ x \in {<<s>> : s \in DOMAIN file}

UniqueID(id, i, ids) ==
    LET a == CHOOSE a \in 0..Cardinality(ids) + 1 :
               /\ ~Collides(ExpandedID(id, i, a), ids)
               /\ \A b \in 0..(a - 1) : Collides(ExpandedID(id, i, b), ids)
    IN ExpandedID(id, i, a)

(* EvaluateJob: labels and timeout after their expressions.                *)
LabelsClean(labels) ==
    /\ \A i \in DOMAIN labels : LabelValid(labels[i])
    /\ \A i, k \in DOMAIN labels : labels[i] = labels[k] => i = k

EvaluatedLabels(job) == [i \in DOMAIN job.labels |-> Lower(job.labels[i].text)]

EvaluatedMinutes(job) == IF job.timeout.set THEN job.timeout.minutes ELSE DefaultMinutes

EvaluateJob(job) == LabelsClean(EvaluatedLabels(job)) /\ EvaluatedMinutes(job) >= 1

(* effectiveJobTimeoutSeconds, in minutes.                                 *)
EffectiveMinutes(job) ==
    IF EvaluatedMinutes(job) > MaxMinutes THEN MaxMinutes ELSE EvaluatedMinutes(job)

(* expandPlannedWorkflowJob for the combinations of a job, one by one.     *)
PlanCombination(plan, id, combinations, i) ==
    LET ids == {j.id : j \in plan.jobs}
        expanded == IF combinations = <<>> THEN <<id>> ELSE UniqueID(id, i, ids)
    IN IF expanded \in ids \/ ~EvaluateJob(file[id]) THEN [plan EXCEPT !.ok = FALSE]
       ELSE [plan EXCEPT !.jobs = @ \cup
              {[id |-> expanded, logical |-> id, index |-> i,
                values  |-> IF combinations = <<>> THEN <<>> ELSE combinations[i],
                labels  |-> EvaluatedLabels(file[id]),
                minutes |-> EffectiveMinutes(file[id])]}]

PlanJob(plan, id) ==
    LET m == EvaluateMatrix(file[id].matrix)
        total == IF m.combinations = <<>> THEN 1 ELSE Len(m.combinations)
        expanded == FoldLeft(LAMBDA p, i : PlanCombination(p, id, m.combinations, i), plan,
                             [i \in 1..total |-> i])
        next == IF file[id].deferred THEN [plan EXCEPT !.deferred = @ \cup {id}] ELSE expanded
    IN IF ~plan.ok THEN plan
       ELSE IF ~file[id].deferred /\ ~m.ok THEN [plan EXCEPT !.ok = FALSE]
       ELSE IF Cardinality(next.jobs) + Cardinality(next.deferred) > MaxJobs
       THEN [next EXCEPT !.ok = FALSE] ELSE next

NotPlanned == [ok |-> TRUE, jobs |-> {}, deferred |-> {}]

Plan ==
    /\ parsed = "accepted"
    /\ planned = NotPlanned
    /\ planned' = FoldLeft(PlanJob, NotPlanned, Sorted(DOMAIN file))
    /\ UNCHANGED <<file, parsed, cycle>>

PlanningInit == file \in Files /\ parsed = "new" /\ cycle = <<>> /\ planned = NotPlanned

PlanningNext == Parse \/ Plan

-----------------------------------------------------------------------------
(* Reference definitions.                                                  *)

Once(v) == v.text
OnceEntry(e) == [n \in DOMAIN e |-> Once(e[n])]

Agrees(values, e) == \A n \in DOMAIN e : n \in DOMAIN values /\ values[n] = OnceEntry(e)[n]

(* The places in the product that no exclude entry matches.                *)
KeptPlaces(m) ==
    {p \in [DOMAIN m.axes -> 1..MaxMatrixJobs] :
        /\ \A n \in DOMAIN m.axes : p[n] <= Len(m.axes[n].values)
        /\ \A e \in Range(m.exclude.entries) :
             ~Agrees([n \in DOMAIN m.axes |-> Once(m.axes[n].values[p[n]])], e)}

AtPlace(m, p) == [n \in DOMAIN m.axes |-> Once(m.axes[n].values[p[n]])]

Joins(m, p, k) ==
    \A n \in DOMAIN m.include.entries[k] \cap DOMAIN m.axes :
        Once(m.include.entries[k][n]) = AtPlace(m, p)[n]

(* A base combination with what the last include that joins it says.       *)
WithIncludes(m, p) ==
    LET names == DOMAIN m.axes \cup
                 UNION {DOMAIN m.include.entries[k] : k \in {x \in DOMAIN m.include.entries : Joins(m, p, x)}}
        says(n) == {k \in DOMAIN m.include.entries : Joins(m, p, k) /\ n \in DOMAIN m.include.entries[k]}
        last(n) == CHOOSE k \in says(n) : \A x \in says(n) : x <= k
    IN [n \in names |-> IF n \in DOMAIN m.axes THEN AtPlace(m, p)[n]
                        ELSE Once(m.include.entries[last(n)][n])]

Alone(m) == {k \in DOMAIN m.include.entries :
                DOMAIN m.axes = {} \/ \A p \in KeptPlaces(m) : ~Joins(m, p, k)}

(* The expansion of a matrix is what its definition says: one combination  *)
(* for each place of the product that no exclude matches, with its axis    *)
(* values untouched and the extra values of the last compatible include,   *)
(* and one for each include that fits none; no value is evaluated twice    *)
(* (expandMatrix, resolveMatrixValue).                                     *)
ExpansionIsDefined ==
    planned.ok => \A id \in DOMAIN file :
        LET m == file[id].matrix
            jobs == {j \in planned.jobs : j.logical = id}
            base == IF DOMAIN m.axes = {} THEN {} ELSE KeptPlaces(m)
        IN m.configured /\ jobs # {} =>
             /\ Cardinality(jobs) = Cardinality(base) + Cardinality(Alone(m))
             /\ {j.values : j \in jobs} =
                  {WithIncludes(m, p) : p \in base} \cup {OnceEntry(m.include.entries[k]) : k \in Alone(m)}

(* Parse rejects a file for a cycle exactly when some jobs all wait for    *)
(* each other, and the cycle it reports is one.                            *)
CyclesFound ==
    /\ parsed = "cycle" <=>
         /\ parsed \notin {"new", "job", "size", "needs"}
         /\ \E S \in SUBSET DOMAIN file :
              S # {} /\ \A x \in S : file[x].needs \cap S # {}
    /\ parsed = "cycle" =>
         /\ Len(cycle) >= 2 /\ cycle[1] = cycle[Len(cycle)]
         /\ \A i \in 1..(Len(cycle) - 1) : cycle[i + 1] \in file[cycle[i]].needs

NoExpressions(job) ==
    /\ \A v \in Range(job.labels) : ~v.expr
    /\ ~job.timeout.expr
    /\ ~job.deferred
    /\ ~RequiresEvaluation(job.matrix)

(* What Parse accepts can be planned: without expressions a file is never  *)
(* rejected later, and has the jobs it was counted as; job IDs that look   *)
(* like those of combinations included (uniqueMatrixWorkflowJobID).        *)
AcceptedIsPlanned ==
    parsed = "accepted" /\ planned # NotPlanned /\ (\A id \in DOMAIN file : NoExpressions(file[id])) =>
        planned.ok /\ Cardinality(planned.jobs) = ExpandedJobs

(* Whatever its expressions gave, a planned job has valid labels without   *)
(* duplicates and a timeout the installation allows.                       *)
PlannedIsClean ==
    planned.ok => \A j \in planned.jobs :
        /\ j.minutes \in 1..MaxMinutes
        /\ \A i, k \in DOMAIN j.labels :
             LabelValid(j.labels[i]) /\ (i # k => j.labels[i] # j.labels[k])
=============================================================================
