--------------------------- MODULE JobGraphProofs ---------------------------
(***************************************************************************)
(* Proofs about JobGraph for any set of workflows: the type invariant, the *)
(* inductive invariant, and what follows from it: needs are respected,     *)
(* outcomes are justified and what is settled stays.                       *)
(***************************************************************************)
EXTENDS JobGraph, FiniteSetTheorems, SequenceTheorems, TLAPS

-----------------------------------------------------------------------------
(* The order of the names.                                                 *)

Jobs == Ids \X Nat

LEMMA WorkflowFacts ==
    ASSUME wf \in Workflows
    PROVE  /\ DOMAIN wf.order \subseteq Nat /\ IsFiniteSet(DOMAIN wf.order)
           /\ \A i, k \in DOMAIN wf.order : wf.order[i] = wf.order[k] => i = k
           /\ \A id \in Ids : wf.width[id] \in Nat /\ wf.needs[id] \subseteq Ids
           /\ wf.deferred \subseteq Ids
           /\ wf.outcomes \subseteq {"success", "failure", "cancelled", "skipped", "timeout"}
BY WorkflowsAssumption DEF Ids

LEMMA PositionFacts ==
    ASSUME wf \in Workflows
    PROVE  /\ \A id \in Ids : Position(id) \in Nat
           /\ \A id, other \in Ids : Position(id) = Position(other) => id = other
<1>1. ASSUME NEW id \in Ids
      PROVE  Position(id) \in DOMAIN wf.order /\ wf.order[Position(id)] = id
  <2>1. PICK i \in DOMAIN wf.order : wf.order[i] = id
    BY DEF Ids
  <2> QED
    BY <2>1 DEF Position
<1> QED
  BY <1>1, WorkflowFacts

LEMMA BeforeIsOrder ==
    ASSUME wf \in Workflows
    PROVE  /\ \A j \in Jobs : ~Before(j, j)
           /\ \A j, k, l \in Jobs : Before(j, k) /\ Before(k, l) => Before(j, l)
           /\ \A j, k \in Jobs : j # k => Before(j, k) \/ Before(k, j)
<1>1. \A j \in Jobs : j[1] \in Ids /\ j[2] \in Nat /\ j = <<j[1], j[2]>> /\ Position(j[1]) \in Nat
  BY PositionFacts DEF Jobs
<1>2. \A j, k \in Jobs : j # k => j[2] # k[2] \/ Position(j[1]) # Position(k[1])
  BY <1>1, PositionFacts
<1>3. \A j, k \in Jobs : j # k => Before(j, k) \/ Before(k, j)
  BY <1>1, <1>2 DEF Before
<1>4. \A j \in Jobs : ~Before(j, j)
  BY <1>1 DEF Before
<1>5. \A j, k, l \in Jobs : Before(j, k) /\ Before(k, l) => Before(j, l)
  BY <1>1 DEF Before
<1> QED
  BY <1>3, <1>4, <1>5

(* How many jobs of S come before j.                                       *)
Earlier(S, j) == {k \in S : Before(k, j)}

LEMMA EarlierCounts ==
    ASSUME wf \in Workflows, NEW S \in SUBSET Jobs, IsFiniteSet(S)
    PROVE  /\ \A j \in S : Cardinality(Earlier(S, j)) \in Nat /\ Cardinality(Earlier(S, j)) < Cardinality(S)
           /\ \A j, k \in S : Before(j, k) => Cardinality(Earlier(S, j)) < Cardinality(Earlier(S, k))
           /\ \A j, k \in S : Cardinality(Earlier(S, j)) = Cardinality(Earlier(S, k)) => j = k
<1>1. ASSUME NEW T \in SUBSET S, NEW U \in SUBSET T, NEW x \in T, x \notin U
      PROVE  Cardinality(U) \in Nat /\ Cardinality(U) < Cardinality(T)
  <2>1. IsFiniteSet(T)
    BY FS_Subset
  <2>2. IsFiniteSet(U) /\ Cardinality(U) <= Cardinality(T) /\ (Cardinality(T) = Cardinality(U) => T = U)
    BY <2>1, FS_Subset
  <2>3. Cardinality(T) \in Nat /\ Cardinality(U) \in Nat
    BY <2>1, <2>2, FS_CardinalityType
  <2> QED
    BY <1>1, <2>2, <2>3
<1>2. ASSUME NEW j \in S
      PROVE  Cardinality(Earlier(S, j)) \in Nat /\ Cardinality(Earlier(S, j)) < Cardinality(S)
  <2>1. Earlier(S, j) \in SUBSET S /\ j \notin Earlier(S, j)
    BY BeforeIsOrder DEF Earlier
  <2> QED
    BY <1>1, <2>1
<1>3. ASSUME NEW j \in S, NEW k \in S, Before(j, k)
      PROVE  Cardinality(Earlier(S, j)) < Cardinality(Earlier(S, k))
  <2>1. Earlier(S, j) \in SUBSET Earlier(S, k) /\ Earlier(S, k) \in SUBSET S
    BY <1>3, BeforeIsOrder DEF Earlier
  <2>2. j \in Earlier(S, k) /\ j \notin Earlier(S, j)
    BY <1>3, BeforeIsOrder DEF Earlier
  <2> QED
    BY <1>1, <2>1, <2>2
<1>4. ASSUME NEW j \in S, NEW k \in S, Cardinality(Earlier(S, j)) = Cardinality(Earlier(S, k))
      PROVE  j = k
  BY <1>2, <1>3, <1>4, BeforeIsOrder
<1> QED
  BY <1>2, <1>3, <1>4

(* Sorted lists every job of S.                                            *)
LEMMA SortedListsAll ==
    ASSUME wf \in Workflows, NEW S \in SUBSET Jobs, IsFiniteSet(S)
    PROVE  /\ Cardinality(S) \in Nat
           /\ Sorted(S) \in [1..Cardinality(S) -> S]
           /\ \A n \in 1..Cardinality(S) : Cardinality(Earlier(S, Sorted(S)[n])) = n - 1
           /\ \A j \in S : \E n \in 1..Cardinality(S) : Sorted(S)[n] = j
<1> DEFINE size == Cardinality(S)
           place == [j \in S |-> Cardinality(Earlier(S, j)) + 1]
<1>1. size \in Nat
  BY FS_CardinalityType
<1>2. place \in Injection(S, 1..size)
  <2>1. place \in [S -> 1..size]
    BY <1>1, EarlierCounts
  <2>2. \A j, k \in S : place[j] = place[k] => j = k
    BY EarlierCounts
  <2> QED
    BY <2>1, <2>2 DEF Injection, IsInjective
<1>3. IsFiniteSet(1..size) /\ Cardinality(1..size) = size
  BY <1>1, FS_Interval
<1>4. place \in Surjection(S, 1..size)
  BY <1>2, <1>3, FS_Injection
<1>5. ASSUME NEW n \in 1..size
      PROVE  Sorted(S)[n] \in S /\ Cardinality(Earlier(S, Sorted(S)[n])) = n - 1
  <2>1. PICK j \in S : place[j] = n
    BY <1>4 DEF Surjection
  <2>2. Cardinality(Earlier(S, j)) = n - 1
    BY <2>1, EarlierCounts
  <2>3. Sorted(S)[n] = CHOOSE k \in S : Cardinality(Earlier(S, k)) = n - 1
    BY DEF Sorted, Earlier
  <2> QED
    BY <2>2, <2>3
<1>6. Sorted(S) \in [1..size -> S]
  BY <1>5 DEF Sorted
<1>7. ASSUME NEW j \in S
      PROVE  \E n \in 1..size : Sorted(S)[n] = j
  <2>1. place[j] \in 1..size /\ Cardinality(Earlier(S, j)) = place[j] - 1
    BY <1>1, EarlierCounts
  <2>2. Sorted(S)[place[j]] \in S /\ Cardinality(Earlier(S, Sorted(S)[place[j]])) = place[j] - 1
    BY <1>5, <2>1
  <2> QED
    BY <2>1, <2>2, EarlierCounts
<1> QED
  BY <1>1, <1>5, <1>6, <1>7

(* A finite set of jobs has a first one.                                   *)
LEMMA FirstIsThere ==
    ASSUME wf \in Workflows, NEW S \in SUBSET Jobs, IsFiniteSet(S), S # {}
    PROVE  First(S) \in S /\ \A k \in S : ~Before(k, First(S))
<1>1. Cardinality(S) \in Nat /\ Cardinality(S) # 0
  BY FS_CardinalityType, FS_EmptySet
<1>2. 1 \in 1..Cardinality(S)
  BY <1>1
<1> DEFINE least == Sorted(S)[1]
<1>3. least \in S /\ Cardinality(Earlier(S, least)) = 0
  BY <1>2, SortedListsAll
<1>4. Earlier(S, least) \subseteq S
  BY DEF Earlier
<1>5. Earlier(S, least) = {}
  BY <1>3, <1>4, FS_Subset, FS_EmptySet
<1>6. \A k \in S : ~Before(k, least)
  BY <1>5 DEF Earlier
<1> QED
  BY <1>3, <1>6 DEF First

-----------------------------------------------------------------------------
(* The types of the variables.                                             *)

RunRecord ==
    [cancel : BOOLEAN, approved : BOOLEAN, recorded : BOOLEAN,
     planned : {"new", "awaiting", "waiting", "true", "false"},
     result : {"none", "cancelled", "superseded", "invalid", "lost", "timedout", "failure", "success"}]

Reasons == {"none", "cancel", "condition", "planning", "failfast", "superseded", "PlanUnavailable"}

JobRecord ==
    [ready : {"none", "true", "false", "unknown"}, result : {"none"} \cup Results,
     timedOut : BOOLEAN, runner : BOOLEAN, stop : {"no", "cancel", "failfast"},
     reason : Reasons, placeholder : BOOLEAN]

Calls ==
    ({"create", "reserve", "plan", "needs", "error"} \X Jobs)
      \cup ({"ready"} \X Jobs \X {"true", "unknown"})
      \cup ({"stop"} \X Jobs \X {"no", "cancel", "failfast"})
      \cup (Results \X Jobs \X Reasons)

JobMap(f) == f \in [DOMAIN f -> JobRecord] /\ DOMAIN f \subseteq Jobs /\ IsFiniteSet(DOMAIN f)

(* Where a reconcile is.                                                   *)
Creating  == pc = "write" /\ goal = "gate"
Deferring == pc = "deferred" \/ (pc = "write" /\ goal = "deferred")
Graphing  == pc = "graph" \/ (pc = "write" /\ goal = "graph")
Ending    == pc = "write" /\ goal = "idle"
Listed    == Deferring \/ Graphing \/ Ending

Types ==
    /\ wf \in Workflows
    /\ run \in RunRecord /\ rcache \in RunRecord /\ rc \in RunRecord
    /\ JobMap(job) /\ JobMap(snap)
    /\ todo \in Seq(Calls)
    /\ pc \in {"idle", "approval", "plan", "gate", "list", "deferred", "graph", "write"}
    /\ goal \in {"idle", "gate", "deferred", "graph"}
    /\ pc # "idle" => rc.result = "none"
    /\ pc # "write" => todo = <<>>
    /\ pc \in {"approval", "plan"} => rc.planned \notin {"waiting", "true"}
    /\ Deferring => visit \subseteq wf.deferred
    /\ Graphing => visit \subseteq DOMAIN snap

-----------------------------------------------------------------------------
(* What jobs, the live ones or those of the list, say of one another.      *)

(* All that stands for id is there and has results.                        *)
ClosedIn(jobs, id) ==
    /\ \/ Expanded(id) \subseteq DOMAIN jobs
       \/ <<id, 0>> \in DOMAIN jobs /\ jobs[<<id, 0>>].placeholder
    /\ \A j \in Group(jobs, id) : Terminal(jobs[j])

NeedsClosed(jobs, id) == \A d \in wf.needs[id] : ClosedIn(jobs, d)

AllClosed(jobs) == \A id \in Ids : ClosedIn(jobs, id)

(* The condition of id holds, and no later result changes that.            *)
JustifiedIn(jobs, id) ==
    /\ NeedsClosed(jobs, id)
    /\ wf.cond[id] = "none" =>
          \A d \in Ancestors(id) :
             ClosedIn(jobs, d) /\ \A k \in Group(jobs, d) : Effective(jobs, k) = "success"
    /\ wf.cond[id] = "failure" =>
          \E d \in Ancestors(id) : \E k \in Group(jobs, d) : Effective(jobs, k) = "failure"

(* What has results keeps them, and what is closed gets no further jobs.   *)
Grows(f, g) ==
    /\ DOMAIN f \subseteq DOMAIN g
    /\ \A j \in DOMAIN f :
         /\ g[j].placeholder = f[j].placeholder
         /\ Terminal(f[j]) => g[j].result = f[j].result /\ g[j].timedOut = f[j].timedOut
    /\ \A j \in DOMAIN g \ DOMAIN f : ~ClosedIn(f, j[1])

(* A job that ran, or failed without running, had everything it needs.     *)
EndedIn(jobs) ==
    \A j \in DOMAIN jobs : jobs[j].result \in {"success", "failure"} => NeedsClosed(jobs, j[1])

(* A run cancelled while it waits creates placeholders for jobs that still *)
(* wait for others; it stays cancelled, and waiting until it has a result. *)
Early == run.cancel /\ (run.result # "none" \/ run.planned = "waiting")

OpenedIn(jobs) ==
    \A j \in DOMAIN jobs : j[1] \in wf.deferred => NeedsClosed(jobs, j[1]) \/ Early

-----------------------------------------------------------------------------
(* The inductive invariant.  Its parts but Types are about runs whose jobs *)
(* nobody has deleted.                                                     *)

Outstanding == {todo[i] : i \in DOMAIN todo}

Shaped ==
    \A j \in DOMAIN job :
        /\ job[j].placeholder => j[2] = 0 /\ j[1] \in wf.deferred /\ ~job[j].runner
        /\ ~job[j].placeholder => j \in Expanded(j[1]) /\ ~(j[1] \in wf.deferred /\ j[1] \in wf.unplannable)

AdmittedJustified == \A j \in DOMAIN job : Admitted(j) => JustifiedIn(job, j[1])

NeedsTrue ==
    /\ \A j \in DOMAIN needs : j[1] \in Ids /\ NeedsClosed(job, j[1]) /\ needs[j] = NeedsContext(job, j[1])
    /\ \A j \in DOMAIN job : job[j].reason # "PlanUnavailable"

(* A copy of the run that was cancelled while it waits.                    *)
CopyTrue(r) == r.cancel /\ r.planned = "waiting" => Early \/ AllClosed(job)

JobsTrue == Shaped /\ EndedIn(job) /\ OpenedIn(job) /\ AdmittedJustified /\ NeedsTrue /\ CopyTrue(rcache) /\ CopyTrue(rc)

(* The jobs that do not wait for planning are created before the run is    *)
(* admitted, each with its plan.                                           *)
Created ==
    \/ run.planned \in {"waiting", "true"} \/ rcache.planned \in {"waiting", "true"} \/ rc.planned \in {"waiting", "true"}
    \/ pc \in {"gate", "list"} \/ Listed

ExpectedThere ==
    /\ Created => ExpectedAtFirst \subseteq DOMAIN job /\ ExpectedAtFirst \subseteq plan
    /\ Creating => \A j \in ExpectedAtFirst :
                     /\ j \in DOMAIN job \/ <<"create", j>> \in Outstanding
                     /\ j \in plan \/ <<"plan", j>> \in Outstanding

(* The list misses no job and shows no result that is not there.           *)
SnapTrue ==
    Listed =>
        /\ DOMAIN snap = DOMAIN job /\ Grows(snap, job)
        /\ \A j \in DOMAIN snap : snap[j].placeholder => snap[j].result = job[j].result
        /\ EndedIn(snap) /\ OpenedIn(snap)

(* What the writes still to be made rest on.                               *)
CreateSound(j) ==
    /\ j[1] \in Ids /\ j \in Expanded(j[1]) /\ ~(j[1] \in wf.deferred /\ j[1] \in wf.unplannable)
    /\ \A e \in Outstanding : e[1] \in {"create", "plan"}
    /\ <<j[1], 0>> \in DOMAIN job /\ job[<<j[1], 0>>].placeholder => ~Terminal(job[<<j[1], 0>>])
    /\ j[1] \in wf.deferred <=> Listed
    /\ Listed => NeedsClosed(snap, j[1])
    /\ Deferring \/ Graphing => j \in DOMAIN snap

ReserveSound(j) ==
    /\ Ending /\ j[1] \in wf.deferred /\ j[2] = 0
    /\ j \notin DOMAIN job => ~(Expanded(j[1]) \subseteq DOMAIN job)
    /\ NeedsClosed(snap, j[1]) \/ CancelledBeforeConcurrency

CallSound(c) ==
    /\ c[1] = "create" => CreateSound(c[2])
    /\ c[1] = "reserve" => ReserveSound(c[2])
    /\ c[1] = "needs" => Listed /\ NeedsClosed(snap, c[2][1])
    /\ c[1] = "ready" /\ c[3] = "true" => Listed /\ JustifiedIn(snap, c[2][1])
    /\ c[1] \in {"success", "failure"} => Listed /\ NeedsClosed(snap, c[2][1])
    /\ c[1] \in Results => c[3] # "PlanUnavailable"

CallsSound == \A c \in Outstanding : CallSound(c)

(* What the list shows is accounted for: every deferred job is still to be *)
(* visited, or waits for others, or all that stands for it is expected.    *)
Covered(id) ==
    \/ Deferring /\ id \in visit
    \/ id \in pend
    \/ /\ Expanded(id) \subseteq expd
       /\ \A j \in Expanded(id) : Terminal(snap[j]) \/ j \in plan \/ <<"plan", j>> \in Outstanding
    \/ <<id, 0>> \in expd /\ snap[<<id, 0>>].placeholder /\ Terminal(snap[<<id, 0>>])

Accounted ==
    Deferring \/ Graphing =>
        /\ ExpectedAtFirst \subseteq expd /\ expd \subseteq DOMAIN snap
        /\ \A id \in wf.deferred : Covered(id)
        /\ \A id \in pend : Group(snap, id) = {} \/ Early
        /\ CancelledBeforeConcurrency =>
              pend = {} /\ \A j \in DOMAIN snap : Terminal(snap[j]) \/ <<"cancelled", j, "cancel">> \in Outstanding

DoneClosed == run.result # "none" /\ run.planned = "true" => AllClosed(job)

GraphInv ==
    /\ Types
    /\ gone = {} =>
         /\ JobsTrue /\ ExpectedThere /\ SnapTrue /\ CallsSound /\ Accounted
         /\ DoneClosed /\ ConclusionFits /\ LostOnlyWhenDeleted

-----------------------------------------------------------------------------
(* Finite sets of jobs.                                                    *)

LEMMA IdsFinite ==
    ASSUME wf \in Workflows
    PROVE  IsFiniteSet(Ids)
<1> DEFINE at == [i \in DOMAIN wf.order |-> wf.order[i]]
<1>1. at \in Surjection(DOMAIN wf.order, Ids)
  BY DEF Ids, Surjection
<1> QED
  BY <1>1, WorkflowFacts, FS_Surjection

LEMMA ExpandedFacts ==
    ASSUME wf \in Workflows, NEW id \in Ids
    PROVE  /\ Expanded(id) \subseteq Jobs /\ IsFiniteSet(Expanded(id)) /\ Expanded(id) # {}
           /\ \A j \in Expanded(id) : j[1] = id /\ (j[2] = 0 <=> wf.width[id] = 0)
           /\ Cardinality(Expanded(id)) = IF wf.width[id] = 0 THEN 1 ELSE wf.width[id]
           /\ wf.width[id] = 0 => Expanded(id) = {<<id, 0>>}
           /\ wf.width[id] \in Nat
<1>1. wf.width[id] \in Nat
  BY WorkflowFacts
<1>2. CASE wf.width[id] = 0
  <2>1. Expanded(id) = {<<id, 0>>}
    BY <1>2 DEF Expanded
  <2>2. IsFiniteSet(Expanded(id)) /\ Cardinality(Expanded(id)) = 1
    BY <2>1, FS_Singleton
  <2>3. <<id, 0>> \in Jobs /\ \A j \in Expanded(id) : j = <<id, 0>>
    BY <2>1 DEF Jobs
  <2> QED
    BY <1>1, <1>2, <2>1, <2>2, <2>3
<1>3. CASE wf.width[id] # 0
  <2> DEFINE width == wf.width[id]
             at == [k \in 1..width |-> <<id, k>>]
  <2>1. Expanded(id) = {<<id, k>> : k \in 1..width}
    BY <1>3 DEF Expanded
  <2>2. at \in Surjection(1..width, Expanded(id)) /\ at \in Injection(1..width, Expanded(id))
    BY <2>1 DEF Surjection, Injection, IsInjective
  <2>3. IsFiniteSet(1..width) /\ Cardinality(1..width) = width
    <3>1. width \in Int /\ 1 \in Int /\ ~(1 > width) /\ width - 1 + 1 = width
      BY <1>1, <1>3
    <3> QED
      BY <3>1, FS_Interval
  <2>4. IsFiniteSet(Expanded(id)) /\ Cardinality(Expanded(id)) = width
    BY <2>2, <2>3, FS_Surjection
  <2>5. <<id, 1>> \in Expanded(id)
    BY <1>1, <1>3, <2>1
  <2>6. \A k \in 1..width : k \in Nat /\ k # 0
    BY <1>1
  <2>7. \A j \in Expanded(id) : j \in Jobs /\ j[1] = id /\ j[2] # 0
    BY <2>1, <2>6 DEF Jobs
  <2> QED
    BY <1>1, <1>3, <2>4, <2>5, <2>7
<1> QED
  BY <1>2, <1>3

LEMMA ExpectedFacts ==
    ASSUME wf \in Workflows
    PROVE  /\ ExpectedAtFirst \subseteq Jobs /\ IsFiniteSet(ExpectedAtFirst)
           /\ \A j \in ExpectedAtFirst : j[1] \in Ids /\ j[1] \notin wf.deferred /\ j \in Expanded(j[1])
           /\ \A id \in Ids \ wf.deferred : Expanded(id) \subseteq ExpectedAtFirst
<1> DEFINE T == Ids \ wf.deferred
           G == {Expanded(id) : id \in T}
           at == [id \in T |-> Expanded(id)]
<1>1. IsFiniteSet(T)
  BY IdsFinite, FS_Difference
<1>2. at \in Surjection(T, G)
  BY DEF Surjection
<1>3. IsFiniteSet(G)
  BY <1>1, <1>2, FS_Surjection
<1>4. \A S \in G : IsFiniteSet(S)
  BY ExpandedFacts
<1>5. IsFiniteSet(UNION G)
  BY <1>3, <1>4, FS_UNION
<1>6. ExpectedAtFirst = UNION G
  BY DEF ExpectedAtFirst
<1> QED
  BY <1>5, <1>6, ExpandedFacts

LEMMA SortedFacts ==
    ASSUME wf \in Workflows, NEW S \in SUBSET Jobs, IsFiniteSet(S)
    PROVE  /\ Sorted(S) \in Seq(S) /\ Len(Sorted(S)) \in Nat
           /\ DOMAIN Sorted(S) = 1..Len(Sorted(S))
           /\ \A i \in DOMAIN Sorted(S) : Sorted(S)[i] \in S
           /\ \A j \in S : \E i \in DOMAIN Sorted(S) : Sorted(S)[i] = j
<1>1. Cardinality(S) \in Nat /\ Sorted(S) \in [1..Cardinality(S) -> S]
      /\ \A j \in S : \E n \in 1..Cardinality(S) : Sorted(S)[n] = j
  BY SortedListsAll
<1>2. Sorted(S) \in Seq(S)
  BY <1>1
<1>3. Len(Sorted(S)) = Cardinality(S)
  BY <1>1
<1> QED
  BY <1>1, <1>2, <1>3

(* Creation creates every job of S and its plan, and nothing else.         *)
LEMMA CreationFacts ==
    ASSUME wf \in Workflows, NEW S \in SUBSET Jobs, IsFiniteSet(S)
    PROVE  /\ Creation(S) \in Seq(Calls)
           /\ \A i \in DOMAIN Creation(S) :
                \E j \in S : Creation(S)[i] = <<"create", j>> \/ Creation(S)[i] = <<"plan", j>>
           /\ \A j \in S : /\ \E i \in DOMAIN Creation(S) : Creation(S)[i] = <<"create", j>>
                           /\ \E i \in DOMAIN Creation(S) : Creation(S)[i] = <<"plan", j>>
<1> DEFINE s == Sorted(S)
           n == Len(s)
           call(i) == <<IF i % 2 = 1 THEN "create" ELSE "plan", s[(i + 1) \div 2]>>
<1>1. n \in Nat /\ s \in Seq(S) /\ \A j \in S : \E i \in 1..n : s[i] = j
  BY SortedFacts
<1>2. Creation(S) = [i \in 1..(2 * n) |-> call(i)]
  BY DEF Creation
<1>3. \A i \in 1..(2 * n) : (i + 1) \div 2 \in 1..n
  BY <1>1
<1>4. \A i \in 1..n : s[i] \in S
  BY <1>1
<1>5. ASSUME NEW i \in 1..(2 * n)
      PROVE  \E j \in S : call(i) = <<"create", j>> \/ call(i) = <<"plan", j>>
  BY <1>3, <1>4
<1>6. \A j \in S : <<"create", j>> \in Calls /\ <<"plan", j>> \in Calls
  BY DEF Calls
<1>7. Creation(S) \in [1..(2 * n) -> Calls]
  BY <1>2, <1>5, <1>6
<1>8. Creation(S) \in Seq(Calls)
  BY <1>1, <1>7
<1>9. ASSUME NEW j \in S
      PROVE  /\ \E i \in 1..(2 * n) : call(i) = <<"create", j>>
             /\ \E i \in 1..(2 * n) : call(i) = <<"plan", j>>
  <2>1. PICK k \in 1..n : s[k] = j
    BY <1>1
  <2>2. 2 * k - 1 \in 1..(2 * n) /\ 2 * k \in 1..(2 * n)
    BY <1>1
  <2>3. (2 * k - 1) % 2 = 1 /\ (2 * k - 1 + 1) \div 2 = k
    BY <1>1
  <2>4. (2 * k) % 2 = 0 /\ (2 * k + 1) \div 2 = k
    BY <1>1
  <2>5. call(2 * k - 1) = <<"create", j>>
    BY <2>1, <2>3
  <2>6. call(2 * k) = <<"plan", j>>
    BY <2>1, <2>4
  <2> QED
    BY <2>2, <2>5, <2>6
<1>10. DOMAIN Creation(S) = 1..(2 * n) /\ \A i \in 1..(2 * n) : Creation(S)[i] = call(i)
  BY <1>2
<1> HIDE DEF call, n, s
<1>11. \A i \in DOMAIN Creation(S) :
         \E j \in S : Creation(S)[i] = <<"create", j>> \/ Creation(S)[i] = <<"plan", j>>
  BY <1>5, <1>10, Zenon
<1>12. \A j \in S : /\ \E i \in DOMAIN Creation(S) : Creation(S)[i] = <<"create", j>>
                    /\ \E i \in DOMAIN Creation(S) : Creation(S)[i] = <<"plan", j>>
  BY <1>9, <1>10, Zenon
<1> QED
  BY <1>8, <1>11, <1>12

(* Making the first call leaves the others.                                *)
LEMMA TailFacts ==
    ASSUME todo \in Seq(Calls), todo # <<>>
    PROVE  /\ Head(todo) \in Calls /\ Tail(todo) \in Seq(Calls)
           /\ Head(todo) \in Outstanding
           /\ \A c \in Outstanding : c = Head(todo) \/ \E i \in DOMAIN Tail(todo) : Tail(todo)[i] = c
           /\ \A i \in DOMAIN Tail(todo) : Tail(todo)[i] \in Outstanding
           /\ Len(todo) = 1 => Tail(todo) = <<>>
<1>1. Len(todo) \in Nat /\ Len(todo) >= 1 /\ DOMAIN todo = 1..Len(todo) /\ todo \in [1..Len(todo) -> Calls]
  BY LenProperties, EmptySeq
<1>2. /\ Head(todo) = todo[1] /\ Tail(todo) \in Seq(Calls) /\ Len(Tail(todo)) = Len(todo) - 1
      /\ \A i \in 1..(Len(todo) - 1) : Tail(todo)[i] = todo[i + 1]
  BY <1>1, HeadTailProperties
<1>3. DOMAIN Tail(todo) = 1..(Len(todo) - 1)
  BY <1>2, LenProperties
<1>4. ASSUME NEW i \in DOMAIN todo, i # 1
      PROVE  \E k \in DOMAIN Tail(todo) : Tail(todo)[k] = todo[i]
  <2>1. i - 1 \in 1..(Len(todo) - 1) /\ (i - 1) + 1 = i
    BY <1>1, <1>4
  <2> QED
    BY <1>2, <1>3, <2>1
<1>5. \A i \in DOMAIN Tail(todo) : i + 1 \in DOMAIN todo
  BY <1>1, <1>3
<1>6. Len(todo) = 1 => Tail(todo) = <<>>
  <2>1. \A s \in Seq(Calls) : s # <<>> => Len(s) # 0
    BY EmptySeq
  <2>2. Len(todo) = 1 => Len(Tail(todo)) = 0
    BY <1>2
  <2> QED
    BY <1>2, <2>1, <2>2, Zenon
<1> QED
  BY <1>1, <1>2, <1>3, <1>4, <1>5, <1>6 DEF Outstanding

-----------------------------------------------------------------------------
(* Records of jobs.                                                        *)

LEMMA NewJobFacts ==
    ASSUME NEW b \in BOOLEAN
    PROVE  /\ NewJob(b) \in JobRecord /\ NewJob(b).placeholder = b
           /\ NewJob(b).result = "none" /\ NewJob(b).timedOut = FALSE /\ NewJob(b).runner = FALSE
           /\ NewJob(b).ready = "none" /\ NewJob(b).reason = "none"
BY DEF NewJob, JobRecord, Reasons

LEMMA ReadyUpdate ==
    ASSUME NEW r \in JobRecord, NEW v \in {"true", "unknown"}
    PROVE  LET n == [r EXCEPT !.ready = v] IN
           /\ n \in JobRecord /\ n.ready = v /\ n.result = r.result /\ n.timedOut = r.timedOut
           /\ n.runner = r.runner /\ n.reason = r.reason /\ n.placeholder = r.placeholder
BY DEF JobRecord

LEMMA StopUpdate ==
    ASSUME NEW r \in JobRecord, NEW v \in {"no", "cancel", "failfast"}
    PROVE  LET n == [r EXCEPT !.stop = v] IN
           /\ n \in JobRecord /\ n.ready = r.ready /\ n.result = r.result /\ n.timedOut = r.timedOut
           /\ n.runner = r.runner /\ n.reason = r.reason /\ n.placeholder = r.placeholder
BY DEF JobRecord

LEMMA CompletedUpdate ==
    ASSUME NEW r \in JobRecord, NEW result \in Results, NEW reason \in Reasons
    PROVE  LET n == Completed(r, result, reason) IN
           /\ n \in JobRecord /\ n.ready = "false" /\ n.result = result /\ n.timedOut = r.timedOut
           /\ n.runner = r.runner /\ n.reason = reason /\ n.placeholder = r.placeholder
BY DEF JobRecord, Completed

LEMMA RunnerUpdate ==
    ASSUME NEW r \in JobRecord
    PROVE  LET n == [r EXCEPT !.runner = TRUE] IN
           /\ n \in JobRecord /\ n.ready = r.ready /\ n.result = r.result /\ n.timedOut = r.timedOut
           /\ n.runner = TRUE /\ n.reason = r.reason /\ n.placeholder = r.placeholder
BY DEF JobRecord

LEMMA ResultUpdate ==
    ASSUME NEW r \in JobRecord, NEW result \in Results, NEW timedOut \in BOOLEAN
    PROVE  LET n == [r EXCEPT !.result = result, !.timedOut = timedOut]
               c == [r EXCEPT !.result = result] IN
           /\ n \in JobRecord /\ n.ready = r.ready /\ n.result = result /\ n.timedOut = timedOut
           /\ n.runner = r.runner /\ n.reason = r.reason /\ n.placeholder = r.placeholder
           /\ c \in JobRecord /\ c.ready = r.ready /\ c.result = result /\ c.timedOut = r.timedOut
           /\ c.runner = r.runner /\ c.reason = r.reason /\ c.placeholder = r.placeholder
BY DEF JobRecord

LEMMA MapUpdate ==
    ASSUME NEW f, JobMap(f), NEW j \in Jobs, NEW r \in JobRecord
    PROVE  /\ JobMap(With(f, j, r)) /\ DOMAIN With(f, j, r) = DOMAIN f \cup {j}
           /\ With(f, j, r)[j] = r /\ \A k \in DOMAIN f \ {j} : With(f, j, r)[k] = f[k]
           /\ JobMap([f EXCEPT ![j] = r]) /\ DOMAIN [f EXCEPT ![j] = r] = DOMAIN f
           /\ j \in DOMAIN f => [f EXCEPT ![j] = r][j] = r
           /\ \A k \in DOMAIN f \ {j} : [f EXCEPT ![j] = r][k] = f[k]
<1>1. IsFiniteSet(DOMAIN f \cup {j})
  BY FS_AddElement DEF JobMap
<1> QED
  BY <1>1 DEF JobMap, With

-----------------------------------------------------------------------------
(* What a write does.                                                      *)

Dropped == Advance /\ UNCHANGED <<job, plan, needs, snap>>

Taken(j, b) ==
    /\ j \in DOMAIN job /\ job[j].placeholder = b
    /\ snap' = With(snap, j, job[j]) /\ Advance /\ UNCHANGED <<job, plan, needs>>

Added(j, b) ==
    /\ j \notin DOMAIN job
    /\ job' = With(job, j, NewJob(b)) /\ snap' = With(snap, j, NewJob(b))
    /\ Advance /\ UNCHANGED <<plan, needs>>

Updated(j, new) ==
    /\ j \in DOMAIN job /\ job[j] = snap[j]
    /\ job' = [job EXCEPT ![j] = new] /\ snap' = [snap EXCEPT ![j] = new]
    /\ Advance /\ UNCHANGED <<plan, needs>>

Written(c) ==
    LET j == c[2] IN
    \/ Refused
    \/ /\ Dropped /\ c[1] \notin {"create", "reserve", "plan", "needs"}
       /\ c[1] \in Results /\ j \in DOMAIN snap => Terminal(snap[j])
    \/ \E b \in BOOLEAN : c[1] = (IF b THEN "reserve" ELSE "create") /\ (Taken(j, b) \/ Added(j, b))
    \/ c[1] = "plan" /\ CreatePlan(j)
    \/ c[1] = "needs" /\ CreateNeeds(j)
    \/ c[1] = "ready" /\ c[3] \in {"true", "unknown"} /\ Updated(j, [job[j] EXCEPT !.ready = c[3]])
    \/ c[1] = "stop" /\ c[3] \in {"no", "cancel", "failfast"} /\ Updated(j, [job[j] EXCEPT !.stop = c[3]])
    \/ /\ c[1] \in Results /\ c[3] \in Reasons /\ ~Terminal(job[j])
       /\ Updated(j, Completed(job[j], c[1], c[3]))

LEMMA CallFacts ==
    ASSUME NEW c \in Calls
    PROVE  /\ c[2] \in Jobs
           /\ c[1] \in {"create", "reserve", "plan", "needs", "error", "ready", "stop"} \cup Results
           /\ c[1] = "ready" => c[3] \in {"true", "unknown"}
           /\ c[1] = "stop" => c[3] \in {"no", "cancel", "failfast"}
           /\ c[1] \in Results => c[3] \in Reasons
BY DEF Calls, Results

LEMMA UpdateCases ==
    ASSUME NEW j, NEW new, UpdateJob(j, new)
    PROVE  (Dropped /\ new = snap[j]) \/ Refused \/ Updated(j, new)
BY DEF UpdateJob, Dropped, Updated, Current

LEMMA WriteCases ==
    ASSUME Types, Write
    PROVE  /\ pc = "write" /\ todo # <<>> /\ Head(todo) \in Calls /\ Head(todo)[2] \in Jobs
           /\ Written(Head(todo))
           /\ UNCHANGED <<wf, run, rcache, rc, work, newer, gone, faults>>
<1> DEFINE c == Head(todo)
           j == c[2]
<1>1. pc = "write" /\ todo # <<>> /\ UNCHANGED <<wf, run, rcache, work, newer, gone, faults>>
  BY DEF Write
<1>2. c \in Calls
  BY <1>1, TailFacts DEF Types
<1>3. j \in Jobs /\ (c[1] \in Results => c[3] \in Reasons)
      /\ (c[1] = "ready" => c[3] \in {"true", "unknown"})
      /\ (c[1] = "stop" => c[3] \in {"no", "cancel", "failfast"})
  BY <1>2, CallFacts
<1> HIDE DEF c
<1>4. \/ c[1] = "create" /\ CreateJob(j, FALSE)
      \/ c[1] = "reserve" /\ CreateJob(j, TRUE)
      \/ c[1] = "plan"    /\ CreatePlan(j)
      \/ c[1] = "needs"   /\ CreateNeeds(j)
      \/ c[1] = "ready"   /\ UpdateJob(j, [snap[j] EXCEPT !.ready = c[3]])
      \/ c[1] = "stop"    /\ UpdateJob(j, [snap[j] EXCEPT !.stop = c[3]])
      \/ c[1] = "error"   /\ Refused
      \/ c[1] \in Results /\ Complete(j, c[1], c[3])
  BY DEF Write, c
<1>5. \A b \in BOOLEAN : CreateJob(j, b) => Refused \/ Taken(j, b) \/ Added(j, b)
  <2>1. \A b \in BOOLEAN : With(job, j, NewJob(b))[j] = NewJob(b)
    BY DEF With
  <2> QED
    BY <2>1 DEF CreateJob, Taken, Added
<1>6. ASSUME Complete(j, c[1], c[3]), c[1] \in Results
      PROVE  Written(c)
  <2>1. CASE Terminal(snap[j])
    <3>1. UpdateJob(j, snap[j])
      BY <1>6, <2>1 DEF Complete
    <3>2. Dropped
      BY <3>1 DEF UpdateJob, Dropped
    <3> QED
      BY <1>6, <2>1, <3>2 DEF Written, Results
  <2>2. CASE ~Terminal(snap[j])
    <3> DEFINE new == Completed(snap[j], c[1], c[3])
    <3>1. UpdateJob(j, new)
      BY <1>6, <2>2 DEF Complete
    <3>2. j \in DOMAIN snap => new # snap[j]
      <4>1. j \in DOMAIN snap => snap[j] \in JobRecord
        BY DEF Types, JobMap
      <4>2. j \in DOMAIN snap => new.result = c[1]
        BY <1>3, <1>6, <4>1, CompletedUpdate
      <4>3. c[1] # "none" /\ snap[j].result = "none"
        BY <1>6, <2>2 DEF Terminal, Results
      <4> HIDE DEF new
      <4> QED
        BY <4>2, <4>3
    <3> HIDE DEF new
    <3>3. (Dropped /\ new = snap[j]) \/ Refused \/ Updated(j, new)
      BY <3>1, UpdateCases
    <3>4. CASE Updated(j, new)
      <4>1. job[j] = snap[j]
        BY <3>4 DEF Updated
      <4>2. ~Terminal(job[j]) /\ Updated(j, Completed(job[j], c[1], c[3]))
        BY <2>2, <3>4, <4>1 DEF new
      <4> QED
        BY <1>3, <1>6, <4>2 DEF Written
    <3> QED
      BY <1>6, <3>2, <3>3, <3>4 DEF Written, Results
  <2> QED
    BY <2>1, <2>2
<1>7. ASSUME c[1] = "ready", UpdateJob(j, [snap[j] EXCEPT !.ready = c[3]])
      PROVE  Written(c)
  <2>1. Dropped \/ Refused \/ Updated(j, [snap[j] EXCEPT !.ready = c[3]])
    BY <1>7, UpdateCases
  <2>2. Updated(j, [snap[j] EXCEPT !.ready = c[3]]) => Updated(j, [job[j] EXCEPT !.ready = c[3]])
    BY DEF Updated
  <2> QED
    BY <1>3, <1>7, <2>1, <2>2 DEF Written, Results
<1>8. ASSUME c[1] = "stop", UpdateJob(j, [snap[j] EXCEPT !.stop = c[3]])
      PROVE  Written(c)
  <2>1. Dropped \/ Refused \/ Updated(j, [snap[j] EXCEPT !.stop = c[3]])
    BY <1>8, UpdateCases
  <2>2. Updated(j, [snap[j] EXCEPT !.stop = c[3]]) => Updated(j, [job[j] EXCEPT !.stop = c[3]])
    BY DEF Updated
  <2> QED
    BY <1>3, <1>8, <2>1, <2>2 DEF Written, Results
<1>9. Written(c)
  BY <1>4, <1>5, <1>6, <1>7, <1>8 DEF Written
<1>10. UNCHANGED rc
  BY <1>9 DEF Written, Refused, EndPass, Dropped, Advance, Taken, Added, Updated, CreatePlan, CreateNeeds
<1> QED
  BY <1>1, <1>2, <1>3, <1>9, <1>10 DEF c

-----------------------------------------------------------------------------
(* What a reconcile reads, and the calls that follow.                      *)

LEMMA EmptyMap == JobMap(<<>>) /\ <<>> \in Seq(Calls)
<1>1. DOMAIN <<>> = {}
  OBVIOUS
<1>2. IsFiniteSet({})
  BY FS_EmptySet
<1>3. <<>> \in [DOMAIN <<>> -> JobRecord]
  BY <1>1
<1> QED
  BY <1>1, <1>2, <1>3 DEF JobMap

(* The deferred job visited next.                                          *)
Visited == Logical(First({<<i, 0>> : i \in visit}))

LEMMA VisitedFacts ==
    ASSUME wf \in Workflows, visit \subseteq wf.deferred, visit # {}
    PROVE  Visited \in visit /\ Visited \in wf.deferred /\ Visited \in Ids
<1> DEFINE S == {<<i, 0>> : i \in visit}
           at == [i \in visit |-> <<i, 0>>]
<1>1. visit \subseteq Ids
  BY WorkflowFacts
<1>2. at \in Surjection(visit, S)
  BY DEF Surjection
<1>3. IsFiniteSet(visit)
  BY <1>1, IdsFinite, FS_Subset
<1>4. IsFiniteSet(S)
  BY <1>2, <1>3, FS_Surjection
<1>5. S \in SUBSET Jobs /\ S # {}
  <2>1. \A i \in visit : <<i, 0>> \in Jobs
    BY <1>1 DEF Jobs
  <2>2. PICK i \in visit : TRUE
    OBVIOUS
  <2>3. <<i, 0>> \in S
    OBVIOUS
  <2> QED
    BY <2>1, <2>3
<1>6. First(S) \in S
  BY <1>4, <1>5, FirstIsThere
<1> QED
  BY <1>1, <1>6 DEF Visited, Logical

Concluding(id) ==
    \/ CancelledBeforeConcurrency /\ Conclude(id, "cancelled", "cancel")
    \/ /\ ~CancelledBeforeConcurrency /\ DependenciesDone(id)
       /\ ~MayRun(id) \/ id \in wf.unplannable
       /\ \E c \in {<<"failure", "condition">>, <<"cancelled", "cancel">>, <<"skipped", "condition">>, <<"failure", "planning">>} :
            Conclude(id, c[1], c[2])

Planning(id) ==
    /\ ~CancelledBeforeConcurrency /\ DependenciesDone(id) /\ MayRun(id) /\ id \notin wf.unplannable
    /\ expd' = expd \cup Expanded(id)
    /\ Then(Creation(Expanded(id)), IF Expanded(id) \subseteq DOMAIN snap THEN "deferred" ELSE "idle")
    /\ UNCHANGED pend

LEMMA DeferredCases ==
    ASSUME Types, ReconcileDeferred
    PROVE  /\ pc = "deferred" /\ Visited \in visit /\ Visited \in wf.deferred /\ Visited \in Ids
           /\ visit' = visit \ {Visited}
           /\ UNCHANGED <<wf, run, rcache, job, plan, needs, work, newer, gone, rc, snap, faults>>
           /\ \/ /\ Settled(Visited) # {} /\ expd' = expd \cup Settled(Visited)
                 /\ UNCHANGED <<pc, todo, goal, pend>>
              \/ Settled(Visited) = {} /\ Concluding(Visited)
              \/ /\ Settled(Visited) = {} /\ ~CancelledBeforeConcurrency /\ ~DependenciesDone(Visited)
                 /\ pend' = pend \cup {Visited} /\ UNCHANGED <<pc, todo, goal, expd>>
              \/ Settled(Visited) = {} /\ Planning(Visited)
<1> DEFINE id == Visited
<1>1. pc = "deferred" /\ visit # {} /\ visit' = visit \ {id}
      /\ UNCHANGED <<wf, run, rcache, job, plan, needs, work, newer, gone, rc, snap, faults>>
  BY DEF ReconcileDeferred, Visited, store
<1>2. visit \subseteq wf.deferred
  BY <1>1 DEF Types, Deferring
<1>3. id \in visit /\ id \in wf.deferred /\ id \in Ids
  BY <1>1, <1>2, VisitedFacts DEF Types
<1>4. IF Settled(id) # {} THEN expd' = expd \cup Settled(id) /\ UNCHANGED <<pc, todo, goal, pend>>
      ELSE IF CancelledBeforeConcurrency THEN Conclude(id, "cancelled", "cancel")
      ELSE IF ~DependenciesDone(id) THEN pend' = pend \cup {id} /\ UNCHANGED <<pc, todo, goal, expd>>
      ELSE PlanDeferred(id)
  BY DEF ReconcileDeferred, Visited
<1> HIDE DEF id
<1>5. ASSUME Settled(id) = {}, ~CancelledBeforeConcurrency, DependenciesDone(id), PlanDeferred(id)
      PROVE  Concluding(id) \/ Planning(id)
  BY <1>5 DEF PlanDeferred, Concluding, Planning
<1>6. CancelledBeforeConcurrency /\ Conclude(id, "cancelled", "cancel") => Concluding(id)
  BY DEF Concluding
<1>7. \/ Settled(id) # {} /\ expd' = expd \cup Settled(id) /\ UNCHANGED <<pc, todo, goal, pend>>
      \/ Settled(id) = {} /\ Concluding(id)
      \/ /\ Settled(id) = {} /\ ~CancelledBeforeConcurrency /\ ~DependenciesDone(id)
         /\ pend' = pend \cup {id} /\ UNCHANGED <<pc, todo, goal, expd>>
      \/ Settled(id) = {} /\ Planning(id)
  BY <1>4, <1>5, <1>6
<1> QED
  BY <1>1, <1>3, <1>7 DEF id

LEMMA ConcludeFacts ==
    ASSUME wf \in Workflows, NEW id \in Ids, NEW result \in {"failure", "cancelled", "skipped"},
           NEW reason \in {"condition", "cancel", "planning"}, Conclude(id, result, reason)
    PROVE  /\ pc' = "write" /\ goal' = "idle" /\ UNCHANGED <<pend, expd>>
           /\ todo' \in Seq(Calls)
           /\ \A c \in Outstanding' : c = <<"reserve", <<id, 0>>>> \/ c = <<result, <<id, 0>>, reason>>
<1>1. todo' = <<<<"reserve", <<id, 0>>>>, <<result, <<id, 0>>, reason>>>> /\ goal' = "idle" /\ UNCHANGED <<pend, expd>>
  BY DEF Conclude, Then
<1>2. <<<<"reserve", <<id, 0>>>>, <<result, <<id, 0>>, reason>>>> # <<>>
  OBVIOUS
<1>3. pc' = "write"
  BY <1>1, <1>2 DEF Conclude, Then
<1>4. <<id, 0>> \in Jobs
  BY DEF Jobs
<1>5. <<"reserve", <<id, 0>>>> \in Calls /\ <<result, <<id, 0>>, reason>> \in Calls
  BY <1>4 DEF Calls, Results, Reasons
<1>6. todo' \in Seq(Calls)
  BY <1>1, <1>5
<1>7. \A c \in Outstanding' : c = <<"reserve", <<id, 0>>>> \/ c = <<result, <<id, 0>>, reason>>
  BY <1>1 DEF Outstanding
<1> QED
  BY <1>1, <1>3, <1>6, <1>7

LEMMA ConcludingFacts ==
    ASSUME wf \in Workflows, NEW id \in Ids, Concluding(id)
    PROVE  /\ pc' = "write" /\ goal' = "idle" /\ UNCHANGED <<pend, expd>>
           /\ todo' \in Seq(Calls)
           /\ \A c \in Outstanding' :
                \/ c = <<"reserve", <<id, 0>>>>
                \/ /\ c[1] \in {"cancelled", "skipped", "failure"} /\ c[2] = <<id, 0>>
                   /\ c[3] \in {"condition", "cancel", "planning"}
                   /\ c[1] = "failure" => ~CancelledBeforeConcurrency
           /\ CancelledBeforeConcurrency \/ (DependenciesDone(id) /\ (~MayRun(id) \/ id \in wf.unplannable))
<1>1. CASE CancelledBeforeConcurrency /\ Conclude(id, "cancelled", "cancel")
  BY <1>1, ConcludeFacts
<1>2. ASSUME NEW c \in {<<"failure", "condition">>, <<"cancelled", "cancel">>, <<"skipped", "condition">>, <<"failure", "planning">>},
             Conclude(id, c[1], c[2]), ~CancelledBeforeConcurrency, DependenciesDone(id), ~MayRun(id) \/ id \in wf.unplannable
      PROVE  /\ pc' = "write" /\ goal' = "idle" /\ UNCHANGED <<pend, expd>>
             /\ todo' \in Seq(Calls)
             /\ \A e \in Outstanding' :
                  \/ e = <<"reserve", <<id, 0>>>>
                  \/ /\ e[1] \in {"cancelled", "skipped", "failure"} /\ e[2] = <<id, 0>>
                     /\ e[3] \in {"condition", "cancel", "planning"}
  <2>1. c[1] \in {"failure", "cancelled", "skipped"} /\ c[2] \in {"condition", "cancel", "planning"}
    OBVIOUS
  <2> QED
    BY <1>2, <2>1, ConcludeFacts
<1> QED
  BY <1>1, <1>2 DEF Concluding

(* All that job j needs shows a result in the list.                        *)
Shown(j) == \A d \in wf.needs[Logical(j)] :
               d \notin pend /\ Group(snap, d) # {} /\ \A k \in Group(snap, d) : Terminal(snap[k])

GraphCall(j, c) ==
    \/ c[1] = "stop" /\ c[3] \in {"no", "cancel"}
    \/ c[1] = "error"
    \/ c[1] = "ready" /\ c[3] = "unknown"
    \/ c[1] = "ready" /\ c[3] = "true" /\ Shown(j) /\ Runnable(snap, Logical(j), rc.cancel)
    \/ c[1] = "needs" /\ Shown(j)
    \/ c[1] = "failure" /\ c[3] = "condition" /\ Shown(j)
    \/ c[1] \in {"cancelled", "skipped"} /\ c[3] \in {"cancel", "condition", "superseded"}

LEMMA GraphCallsFacts ==
    ASSUME NEW j \in Jobs, NEW outcome \in GateOutcomes(j)
    PROVE  /\ GraphCalls(j, outcome) \in Seq(Calls)
           /\ \A i \in DOMAIN GraphCalls(j, outcome) :
                GraphCalls(j, outcome)[i][2] = j /\ GraphCall(j, GraphCalls(j, outcome)[i])
<1> DEFINE calls == GraphCalls(j, outcome)
           Sound(s) == s \in Seq(Calls) /\ \A i \in DOMAIN s : s[i][2] = j /\ GraphCall(j, s[i])
<1>1. ASSUME NEW c \in Calls, c[2] = j, GraphCall(j, c)
      PROVE  Sound(<<c>>)
  BY <1>1
<1>2. ASSUME NEW s, NEW t, Sound(s), Sound(t)
      PROVE  Sound(s \o t)
  <2>1. s \in Seq(Calls) /\ t \in Seq(Calls)
    BY <1>2
  <2>2. /\ s \o t \in Seq(Calls) /\ Len(s \o t) = Len(s) + Len(t)
        /\ \A i \in 1..(Len(s) + Len(t)) : (s \o t)[i] = IF i <= Len(s) THEN s[i] ELSE t[i - Len(s)]
    BY <2>1, ConcatProperties
  <2>3. /\ Len(s) \in Nat /\ Len(t) \in Nat /\ DOMAIN s = 1..Len(s) /\ DOMAIN t = 1..Len(t)
        /\ DOMAIN (s \o t) = 1..(Len(s) + Len(t))
    BY <2>1, <2>2, LenProperties
  <2>4. ASSUME NEW i \in 1..(Len(s) + Len(t))
        PROVE  (s \o t)[i][2] = j /\ GraphCall(j, (s \o t)[i])
    <3>1. CASE i <= Len(s)
      <4>1. i \in DOMAIN s /\ (s \o t)[i] = s[i]
        BY <2>2, <2>3, <3>1
      <4> QED
        BY <1>2, <4>1
    <3>2. CASE ~(i <= Len(s))
      <4>1. i - Len(s) \in DOMAIN t /\ (s \o t)[i] = t[i - Len(s)]
        BY <2>2, <2>3, <3>2
      <4> QED
        BY <1>2, <4>1
    <3> QED
      BY <3>1, <3>2
  <2> QED
    BY <2>2, <2>3, <2>4
<1>3. Sound(<<>>)
  OBVIOUS
<1> HIDE DEF Sound
<1>4. ASSUME NEW v \in {"no", "cancel"}
      PROVE  Sound(<<<<"stop", j, v>>>>)
  <2>1. <<"stop", j, v>> \in Calls
    BY DEF Calls
  <2> QED
    BY <1>1, <2>1 DEF GraphCall
<1>5. StopRequest(j) \in {"no", "cancel"}
  BY DEF StopRequest
<1>6. Sound(<<<<"error", j>>>>) /\ Sound(<<<<"ready", j, "unknown">>>>)
  <2>1. <<"error", j>> \in Calls /\ <<"ready", j, "unknown">> \in Calls
    BY DEF Calls
  <2> QED
    BY <1>1, <2>1 DEF GraphCall
<1>7. ASSUME NEW result \in {"cancelled", "skipped"}, NEW reason \in {"cancel", "condition", "superseded"}
      PROVE  <<result, j, reason>> \in Calls /\ GraphCall(j, <<result, j, reason>>) /\ Sound(<<<<result, j, reason>>>>)
  <2>1. <<result, j, reason>> \in Calls
    BY DEF Calls, Results, Reasons
  <2>2. GraphCall(j, <<result, j, reason>>)
    BY DEF GraphCall
  <2> QED
    BY <1>1, <2>1, <2>2
<1>8. ASSUME Shown(j)
      PROVE  Sound(Admission(j, outcome))
  <2> DEFINE id == Logical(j)
             first == IF wf.needs[id] = {} THEN <<>> ELSE <<<<"needs", j>>>>
  <2>1. CASE Broken(id)
    <3>1. <<"failure", j, "condition">> \in Calls /\ GraphCall(j, <<"failure", j, "condition">>)
      BY <1>8 DEF Calls, Results, Reasons, GraphCall
    <3>2. Admission(j, outcome) = <<<<"failure", j, "condition">>>>
      BY <2>1 DEF Admission
    <3> QED
      BY <1>1, <3>1, <3>2
  <2>2. CASE ~Broken(id) /\ ~Runnable(snap, id, rc.cancel)
    <3>1. Admission(j, outcome) = IF rc.cancel THEN <<<<"cancelled", j, "cancel">>>> ELSE <<<<"skipped", j, "condition">>>>
      BY <2>2 DEF Admission
    <3> QED
      BY <1>7, <3>1
  <2>3. CASE ~Broken(id) /\ Runnable(snap, id, rc.cancel)
    <3> DEFINE last == CASE outcome = "acquired"   -> <<"ready", j, "true">>
                         [] outcome = "waiting"    -> <<"ready", j, "unknown">>
                         [] outcome = "superseded" -> <<"cancelled", j, "superseded">>
    <3>1. outcome \in {"acquired", "waiting", "superseded"}
      BY DEF GateOutcomes
    <3>2. <<"ready", j, "true">> \in Calls /\ <<"ready", j, "unknown">> \in Calls /\ <<"needs", j>> \in Calls
      BY DEF Calls
    <3>3. GraphCall(j, <<"ready", j, "true">>) /\ GraphCall(j, <<"ready", j, "unknown">>) /\ GraphCall(j, <<"needs", j>>)
      BY <1>8, <2>3 DEF GraphCall
    <3>4. last \in Calls /\ last[2] = j /\ GraphCall(j, last)
      BY <1>7, <3>1, <3>2, <3>3
    <3>5. Admission(j, outcome) = first \o <<last>>
      BY <2>3, <3>1 DEF Admission
    <3> HIDE DEF last
    <3>6. CASE wf.needs[id] = {}
      <4>1. Admission(j, outcome) = <<last>>
        BY <3>5, <3>6
      <4> QED
        BY <1>1, <3>4, <4>1
    <3>7. CASE wf.needs[id] # {}
      <4>1. first = <<<<"needs", j>>>>
        BY <3>7
      <4>2. Sound(first) /\ Sound(<<last>>)
        BY <1>1, <3>2, <3>3, <3>4, <4>1
      <4> HIDE DEF first
      <4> QED
        BY <1>2, <3>5, <4>2
    <3> QED
      BY <3>6, <3>7
  <2> QED
    BY <2>1, <2>2, <2>3
<1>9. \/ calls = <<>>
      \/ calls = <<<<"stop", j, StopRequest(j)>>>>
      \/ calls = <<<<"error", j>>>>
      \/ calls = <<<<"ready", j, "unknown">>>>
      \/ /\ calls = Admission(j, outcome)
         /\ ~\E d \in wf.needs[Logical(j)] \ pend : Group(snap, d) = {}
         /\ ~\E d \in wf.needs[Logical(j)] : d \in pend \/ \E k \in Group(snap, d) : ~Terminal(snap[k])
  BY DEF GraphCalls
<1>10. Sound(calls)
  <2>1. CASE calls = Admission(j, outcome)
             /\ ~(\E d \in wf.needs[Logical(j)] \ pend : Group(snap, d) = {})
             /\ ~(\E d \in wf.needs[Logical(j)] : d \in pend \/ \E k \in Group(snap, d) : ~Terminal(snap[k]))
    <3>1. Shown(j)
      BY <2>1 DEF Shown
    <3> QED
      BY <1>8, <2>1, <3>1
  <2> QED
    BY <1>3, <1>4, <1>5, <1>6, <1>9, <2>1
<1> QED
  BY <1>10 DEF Sound

-----------------------------------------------------------------------------
(* Types holds in every state.                                             *)

LEMMA RunUpdates ==
    ASSUME NEW r \in RunRecord
    PROVE  /\ \A p \in {"new", "awaiting", "waiting", "true", "false"},
                 q \in {"none", "cancelled", "superseded", "invalid", "lost", "timedout", "failure", "success"} :
                LET n == [r EXCEPT !.planned = p, !.result = q] IN
                /\ n \in RunRecord /\ n.planned = p /\ n.result = q /\ n.cancel = r.cancel
           /\ \A p \in {"new", "awaiting", "waiting", "true", "false"} :
                LET n == [r EXCEPT !.planned = p] IN
                /\ n \in RunRecord /\ n.planned = p /\ n.result = r.result /\ n.cancel = r.cancel
           /\ LET n == [r EXCEPT !.recorded = TRUE] IN
                n \in RunRecord /\ n.planned = r.planned /\ n.result = r.result /\ n.cancel = r.cancel
           /\ LET n == [r EXCEPT !.approved = TRUE] IN
                n \in RunRecord /\ n.planned = r.planned /\ n.result = r.result /\ n.cancel = r.cancel
           /\ LET n == [r EXCEPT !.cancel = TRUE] IN
                n \in RunRecord /\ n.planned = r.planned /\ n.result = r.result /\ n.cancel = TRUE
BY DEF RunRecord

LEMMA SameJobs ==
    ASSUME wf' = wf
    PROVE  /\ Ids' = Ids /\ Jobs' = Jobs /\ Calls' = Calls
           /\ JobMap(job)' = JobMap(job') /\ JobMap(snap)' = JobMap(snap')
<1>1. Ids' = Ids
  BY DEF Ids
<1>2. Jobs' = Jobs
  BY <1>1 DEF Jobs
<1>3. Calls' = Calls
  BY <1>2 DEF Calls
<1> QED
  BY <1>1, <1>2, <1>3 DEF JobMap

LEMMA TypesNext ==
    ASSUME wf \in Workflows, wf' = wf, run' \in RunRecord, rcache' \in RunRecord, rc' \in RunRecord,
           JobMap(job'), JobMap(snap'), todo' \in Seq(Calls),
           pc' \in {"idle", "approval", "plan", "gate", "list", "deferred", "graph", "write"},
           goal' \in {"idle", "gate", "deferred", "graph"},
           pc' # "idle" => rc'.result = "none", pc' # "write" => todo' = <<>>,
           pc' \in {"approval", "plan"} => rc'.planned \notin {"waiting", "true"},
           Deferring' => visit' \subseteq wf.deferred, Graphing' => visit' \subseteq DOMAIN snap'
    PROVE  Types'
BY SameJobs DEF Types

LEMMA TypesEnd ==
    ASSUME Types, EndPass, wf' = wf, run' \in RunRecord, rcache' \in RunRecord, JobMap(job')
    PROVE  Types'
<1>1. pc' = "idle" /\ snap' = <<>> /\ todo' = <<>> /\ goal' = "idle" /\ rc' = rc
  BY DEF EndPass
<1>2. ~Deferring' /\ ~Graphing'
  BY <1>1 DEF Deferring, Graphing
<1> QED
  BY <1>1, <1>2, EmptyMap, TypesNext DEF Types

LEMMA TypesStart ==
    ASSUME Types, StartPass
    PROVE  Types'
<1>1. pc' \in {"list", "gate", "approval"} /\ (pc' = "approval" => rcache.planned \notin {"waiting", "true"})
  BY DEF StartPass, Types, RunRecord
<1>2. rc' = rcache /\ rcache.result = "none" /\ UNCHANGED <<wf, job, run, rcache, snap, todo, goal, visit>> /\ todo = <<>>
  BY DEF StartPass, Types, store
<1>3. ~Deferring' /\ ~Graphing'
  BY <1>1 DEF Deferring, Graphing
<1> QED
  BY <1>1, <1>2, <1>3, TypesNext DEF Types

LEMMA TypesEnvironment ==
    ASSUME Types, Environment
    PROVE  Types'
<1>1. ASSUME UNCHANGED <<wf, snap, pc, todo, goal, visit, rc>>, run' \in RunRecord, rcache' \in RunRecord, JobMap(job')
      PROVE  Types'
  <2>1. (Deferring' <=> Deferring) /\ (Graphing' <=> Graphing)
    BY <1>1 DEF Deferring, Graphing
  <2> QED
    BY <1>1, <2>1, TypesNext DEF Types
<1>2. ASSUME UNCHANGED <<wf, run, rcache, local>>, JobMap(job')
      PROVE  Types'
  <2>1. UNCHANGED <<wf, snap, pc, todo, goal, visit, rc>>
    BY <1>2 DEF local
  <2> QED
    BY <1>1, <1>2, <2>1 DEF Types
<1>3. CASE Sync \/ Cancel \/ Approve \/ NewRevision
  <2>1. run \in RunRecord /\ rcache \in RunRecord /\ JobMap(job)
    BY DEF Types
  <2>2. UNCHANGED <<wf, job, snap, pc, todo, goal, visit, rc>>
    BY <1>3 DEF Sync, Cancel, Approve, NewRevision, store, local
  <2>3. run' \in RunRecord /\ rcache' \in RunRecord
    <3>1. [run EXCEPT !.cancel = TRUE] \in RunRecord /\ [run EXCEPT !.approved = TRUE] \in RunRecord
      BY <2>1 DEF RunRecord
    <3> QED
      BY <1>3, <2>1, <3>1 DEF Sync, Cancel, Approve, NewRevision
  <2> QED
    BY <1>1, <2>1, <2>2, <2>3
<1>4. ASSUME NEW j, Assign(j)
      PROVE  Types'
  <2>1. j \in Jobs /\ job[j] \in JobRecord
    BY <1>4 DEF Assign, Types, JobMap
  <2>2. job' = [job EXCEPT ![j] = [job[j] EXCEPT !.runner = TRUE]] /\ UNCHANGED <<wf, run, rcache, local>>
    BY <1>4 DEF Assign
  <2>3. [job[j] EXCEPT !.runner = TRUE] \in JobRecord
    BY <2>1, RunnerUpdate
  <2>4. JobMap(job')
    BY <2>1, <2>2, <2>3, MapUpdate DEF Types
  <2> QED
    BY <1>2, <2>2, <2>4
<1>5. ASSUME NEW j, Finish(j)
      PROVE  Types'
  <2>1. j \in Jobs /\ job[j] \in JobRecord /\ wf.outcomes \subseteq {"success", "failure", "cancelled", "skipped", "timeout"}
    BY <1>5, WorkflowFacts DEF Finish, Types, JobMap
  <2>2. UNCHANGED <<wf, run, rcache, local>>
    BY <1>5 DEF Finish
  <2>3. \/ \E r \in wf.outcomes :
             job' = [job EXCEPT ![j] = [job[j] EXCEPT !.result = IF r = "timeout" THEN "failure" ELSE r, !.timedOut = (r = "timeout")]]
        \/ job' = [job EXCEPT ![j] = [job[j] EXCEPT !.result = "cancelled"]]
    BY <1>5 DEF Finish
  <2>4. \E r \in JobRecord : job' = [job EXCEPT ![j] = r]
    <3>1. \A r \in wf.outcomes : (IF r = "timeout" THEN "failure" ELSE r) \in Results
      BY <2>1 DEF Results
    <3>2. "cancelled" \in Results
      BY DEF Results
    <3> QED
      BY <2>1, <2>3, <3>1, <3>2, ResultUpdate
  <2>5. JobMap(job)
    BY DEF Types
  <2>6. PICK r \in JobRecord : job' = [job EXCEPT ![j] = r]
    BY <2>4
  <2>7. JobMap(job')
    BY <2>1, <2>5, <2>6, MapUpdate
  <2> QED
    BY <1>2, <2>2, <2>7
<1>6. ASSUME NEW j, StopPod(j)
      PROVE  Types'
  BY <1>2, <1>6 DEF StopPod, Types, local
<1>7. ASSUME NEW j, DeleteJob(j)
      PROVE  Types'
  <2>1. job' = [k \in DOMAIN job \ {j} |-> job[k]] /\ UNCHANGED <<wf, run, rcache, local>>
    BY <1>7 DEF DeleteJob
  <2>2. IsFiniteSet(DOMAIN job \ {j})
    BY FS_RemoveElement DEF Types, JobMap
  <2>3. JobMap(job')
    BY <2>1, <2>2 DEF Types, JobMap
  <2> QED
    BY <1>2, <2>1, <2>3
<1> QED
  BY <1>3, <1>4, <1>5, <1>6, <1>7 DEF Environment

LEMMA TypesWrite ==
    ASSUME Types, Write
    PROVE  Types'
<1> DEFINE c == Head(todo)
           j == c[2]
<1>1. pc = "write" /\ todo # <<>> /\ c \in Calls /\ j \in Jobs /\ Written(c) /\ Tail(todo) \in Seq(Calls)
      /\ (Len(todo) = 1 => Tail(todo) = <<>>)
      /\ UNCHANGED <<wf, run, rcache, rc, work, newer, gone, faults>>
  BY WriteCases, TailFacts DEF Types
<1>14. JobMap(job) /\ JobMap(snap)
  BY DEF Types
<1>2. ASSUME Advance, JobMap(job'), JobMap(snap'), DOMAIN snap \subseteq DOMAIN snap'
      PROVE  Types'
  <2>1. todo' = Tail(todo) /\ pc' = (IF Len(todo) = 1 THEN goal ELSE "write") /\ UNCHANGED <<rc, goal, visit, pend, expd>>
    BY <1>2 DEF Advance
  <2>2. /\ wf' \in Workflows /\ run' \in RunRecord /\ rcache' \in RunRecord /\ rc' \in RunRecord
        /\ JobMap(job') /\ JobMap(snap') /\ todo' \in Seq(Calls)
        /\ goal' \in {"idle", "gate", "deferred", "graph"} /\ rc'.result = "none"
        /\ (pc' # "write" => todo' = <<>>)
    BY <1>1, <1>2, <2>1 DEF Types
  <2>3. pc' \in {"idle", "gate", "deferred", "graph", "write"}
    BY <2>1 DEF Types
  <2>4. (Deferring' => Deferring) /\ (Graphing' => Graphing)
    BY <1>1, <2>1 DEF Deferring, Graphing
  <2>5. (Deferring' => visit' \subseteq wf.deferred) /\ (Graphing' => visit' \subseteq DOMAIN snap')
    BY <1>1, <1>2, <2>1, <2>4 DEF Types
  <2> QED
    BY <1>1, <2>2, <2>3, <2>5, TypesNext DEF Types
<1>3. CASE Refused
  <2>1. JobMap(job')
    BY <1>3 DEF Refused, Types
  <2> QED
    BY <1>1, <1>3, <2>1, TypesEnd DEF Refused, Types
<1>4. CASE Dropped
  BY <1>2, <1>4 DEF Dropped, Types
<1>5. ASSUME NEW b \in BOOLEAN, Taken(j, b)
      PROVE  Types'
  <2>1. job[j] \in JobRecord /\ snap' = With(snap, j, job[j]) /\ Advance /\ job' = job
    BY <1>5 DEF Taken, Types, JobMap
  <2>2. JobMap(With(snap, j, job[j])) /\ DOMAIN With(snap, j, job[j]) = DOMAIN snap \cup {j}
    <3>1. JobMap(snap) /\ j \in Jobs /\ job[j] \in JobRecord
      BY <1>1, <1>14, <2>1
    <3>2. JobMap(With(snap, j, job[j]))
      BY <3>1, MapUpdate
    <3> QED
      BY <3>2 DEF With
  <2> QED
    BY <1>2, <1>14, <2>1, <2>2
<1>6. ASSUME NEW b \in BOOLEAN, Added(j, b)
      PROVE  Types'
  <2>1. job' = With(job, j, NewJob(b)) /\ snap' = With(snap, j, NewJob(b)) /\ Advance
    BY <1>6 DEF Added
  <2>2. NewJob(b) \in JobRecord
    BY NewJobFacts
  <2>3. /\ JobMap(With(snap, j, NewJob(b))) /\ DOMAIN With(snap, j, NewJob(b)) = DOMAIN snap \cup {j}
        /\ JobMap(With(job, j, NewJob(b)))
    <3>1. JobMap(snap) /\ JobMap(job) /\ j \in Jobs
      BY <1>1, <1>14
    <3>2. JobMap(With(snap, j, NewJob(b))) /\ JobMap(With(job, j, NewJob(b)))
      BY <2>2, <3>1, MapUpdate
    <3> QED
      BY <3>2 DEF With
  <2> QED
    BY <1>2, <2>1, <2>3
<1>7. CASE CreatePlan(j)
  BY <1>2, <1>7 DEF CreatePlan, Types
<1>8. CASE CreateNeeds(j)
  <2>1. CASE Advance
    BY <1>2, <1>8, <2>1 DEF CreateNeeds, Types
  <2>2. CASE todo' = <<<<"failure", j, "PlanUnavailable">>>> /\ UNCHANGED <<pc, rc, goal, visit, pend, expd>>
    <3>1. <<"failure", j, "PlanUnavailable">> \in Calls
      BY <1>1 DEF Calls, Results, Reasons
    <3>2. todo' \in Seq(Calls)
      BY <2>2, <3>1
    <3>3. UNCHANGED <<job, snap>>
      BY <1>8 DEF CreateNeeds
    <3>4. (Deferring' <=> Deferring) /\ (Graphing' <=> Graphing)
      BY <2>2 DEF Deferring, Graphing
    <3> QED
      BY <1>1, <2>2, <3>2, <3>3, <3>4, TypesNext DEF Types
  <2> QED
    BY <1>8, <2>1, <2>2 DEF CreateNeeds
<1>9. ASSUME NEW new \in JobRecord, Updated(j, new)
      PROVE  Types'
  <2>1. job' = [job EXCEPT ![j] = new] /\ snap' = [snap EXCEPT ![j] = new] /\ Advance
    BY <1>9 DEF Updated
  <2>2. JobMap(snap') /\ DOMAIN snap' = DOMAIN snap /\ JobMap(job')
    BY <1>1, <2>1, MapUpdate DEF Types
  <2> QED
    BY <1>2, <2>1, <2>2
<1>10. ASSUME NEW new, Updated(j, new)
       PROVE  job[j] \in JobRecord
  BY <1>10 DEF Updated, Types, JobMap
<1>11. ASSUME c[1] = "ready" /\ c[3] \in {"true", "unknown"} /\ Updated(j, [job[j] EXCEPT !.ready = c[3]])
       PROVE  Types'
  BY <1>9, <1>10, <1>11, ReadyUpdate
<1>12. ASSUME c[1] = "stop" /\ c[3] \in {"no", "cancel", "failfast"} /\ Updated(j, [job[j] EXCEPT !.stop = c[3]])
       PROVE  Types'
  BY <1>9, <1>10, <1>12, StopUpdate
<1>13. ASSUME c[1] \in Results, c[3] \in Reasons, Updated(j, Completed(job[j], c[1], c[3]))
       PROVE  Types'
  BY <1>9, <1>10, <1>13, CompletedUpdate
<1> QED
  BY <1>1, <1>3, <1>4, <1>5, <1>6, <1>7, <1>8, <1>11, <1>12, <1>13 DEF Written

(* A step that leaves the run alone or updates it, and ends the pass.      *)
Updating(new) == UpdateRun(new) /\ EndPass

LEMMA ConclusionValues == Conclusion \in {"cancelled", "timedout", "failure", "success"}
BY DEF Conclusion

RunSteps == Approval \/ PlanningFailed \/ HandleConcurrency \/ FinishPass

(* What a step does that may update the run.                               *)
LEMMA RunStepCases ==
    ASSUME Types, RunSteps
    PROVE  /\ pc \in {"approval", "plan", "gate", "graph"} /\ UNCHANGED <<store, rcache, faults>>
           /\ \/ pc = "approval" /\ pc' = "plan" /\ UNCHANGED <<run, rc, snap, todo, goal, visit, pend, expd>>
              \/ pc = "gate" /\ pc' = "list" /\ UNCHANGED <<run, rc, snap, todo, goal, visit, pend, expd>>
              \/ /\ pc \in {"approval", "plan"}
                 /\ \E q \in {"cancelled", "superseded", "invalid"} : Updating([rc EXCEPT !.planned = "false", !.result = q])
              \/ pc = "approval" /\ Updating([rc EXCEPT !.planned = "awaiting"])
              \/ pc = "approval" /\ Updating([rc EXCEPT !.recorded = TRUE])
              \/ pc = "gate" /\ rc.planned # "true" /\ Updating([rc EXCEPT !.planned = "waiting"])
              \/ pc = "gate" /\ rc.planned = "waiting" /\ Updating([rc EXCEPT !.cancel = TRUE])
              \/ /\ pc = "graph" /\ visit = {} /\ StateMissing /\ work = {}
                 /\ Updating([rc EXCEPT !.planned = "false", !.result = "lost"])
              \/ /\ pc = "graph" /\ visit = {} /\ RunDone
                 /\ Updating([rc EXCEPT !.planned = "true", !.result = Conclusion])
              \/ pc = "graph" /\ visit = {} /\ ~RunDone /\ Updating([rc EXCEPT !.planned = "true"])
<1>1. CASE Approval
  BY <1>1 DEF Approval, CompleteUnplanned, Updating
<1>2. CASE PlanningFailed
  BY <1>2 DEF PlanningFailed, FailPlanning, Updating
<1>3. CASE HandleConcurrency
  BY <1>3 DEF HandleConcurrency, Updating
<1>4. CASE FinishPass
  <2>1. pc = "graph" /\ visit = {} /\ EndPass /\ UNCHANGED <<store, rcache, faults>>
    BY <1>4 DEF FinishPass
  <2>2. \/ StateMissing /\ work = {} /\ UpdateRun([rc EXCEPT !.planned = "false", !.result = "lost"])
        \/ RunDone /\ UpdateRun([rc EXCEPT !.planned = "true", !.result = Conclusion])
        \/ ~RunDone /\ UpdateRun([rc EXCEPT !.planned = "true"])
    <3>1. RunDone => ~StateMissing
      BY DEF RunDone
    <3> QED
      BY <1>4, <3>1 DEF FinishPass
  <2> QED
    BY <2>1, <2>2 DEF Updating
<1> QED
  BY <1>1, <1>2, <1>3, <1>4 DEF RunSteps

LEMMA TypesRunSteps ==
    ASSUME Types, RunSteps
    PROVE  Types'
<1>1. UNCHANGED <<wf, job, rcache>> /\ rcache \in RunRecord /\ JobMap(job) /\ run \in RunRecord /\ rc \in RunRecord
  BY RunStepCases DEF store, Types
<1>2. ASSUME NEW new \in RunRecord, Updating(new)
      PROVE  Types'
  <2>1. run' \in RunRecord
    BY <1>1, <1>2 DEF Updating, UpdateRun
  <2> QED
    BY <1>1, <1>2, <2>1, TypesEnd DEF Updating
<1>3. /\ \A q \in {"cancelled", "superseded", "invalid"} : [rc EXCEPT !.planned = "false", !.result = q] \in RunRecord
      /\ [rc EXCEPT !.planned = "awaiting"] \in RunRecord
      /\ [rc EXCEPT !.recorded = TRUE] \in RunRecord
      /\ [rc EXCEPT !.planned = "waiting"] \in RunRecord
      /\ [rc EXCEPT !.cancel = TRUE] \in RunRecord
      /\ [rc EXCEPT !.planned = "false", !.result = "lost"] \in RunRecord
      /\ [rc EXCEPT !.planned = "true", !.result = Conclusion] \in RunRecord
      /\ [rc EXCEPT !.planned = "true"] \in RunRecord
  BY <1>1, ConclusionValues DEF RunRecord
<1>4. ASSUME pc \in {"approval", "gate"}, pc' = (IF pc = "approval" THEN "plan" ELSE "list"),
             UNCHANGED <<run, rc, snap, todo, goal, visit, pend, expd>>
      PROVE  Types'
  <2>1. ~Deferring' /\ ~Graphing'
    BY <1>4 DEF Deferring, Graphing
  <2> QED
    BY <1>1, <1>4, <2>1, TypesNext DEF Types
<1> QED
  BY <1>2, <1>3, <1>4, RunStepCases

LEMMA TypesPlanRun ==
    ASSUME Types, PlanRun
    PROVE  Types'
<1>1. /\ todo' = Creation(ExpectedAtFirst) /\ goal' = "gate" /\ pc' = "write" /\ pc = "plan"
      /\ UNCHANGED <<wf, job, run, rcache, rc, snap, visit, pend, expd, faults>>
  BY DEF PlanRun, ExpectedAtFirst, store
<1>2. todo' \in Seq(Calls)
  BY <1>1, ExpectedFacts, CreationFacts DEF Types
<1>3. ~Deferring' /\ ~Graphing'
  BY <1>1 DEF Deferring, Graphing
<1> QED
  BY <1>1, <1>2, <1>3, TypesNext DEF Types

LEMMA ListJobsFacts ==
    ASSUME Types, ListJobs
    PROVE  /\ pc = "list" /\ snap' = job /\ goal' = "deferred" /\ pc' \in {"deferred", "write"}
           /\ todo' \in Seq(Calls) /\ (pc' # "write" => todo' = <<>>)
           /\ \A c \in Outstanding' : \E j \in DOMAIN job : c = <<"cancelled", j, "cancel">>
           /\ CancelledBeforeConcurrency =>
                \A j \in DOMAIN job : Terminal(job[j]) \/ <<"cancelled", j, "cancel">> \in Outstanding'
           /\ visit' = wf.deferred /\ pend' = {} /\ expd' = ExpectedAtFirst
           /\ UNCHANGED <<wf, job, plan, needs, work, newer, gone, run, rcache, rc, faults>>
<1> DEFINE S == {j \in DOMAIN job : ~Terminal(job[j])}
           open == Sorted(S)
           calls == IF CancelledBeforeConcurrency THEN [i \in DOMAIN open |-> <<"cancelled", open[i], "cancel">>] ELSE <<>>
<1>1. S \in SUBSET Jobs /\ IsFiniteSet(S)
  BY FS_Subset DEF Types, JobMap
<1>2. /\ Len(open) \in Nat /\ DOMAIN open = 1..Len(open) /\ \A i \in DOMAIN open : open[i] \in S
      /\ \A j \in S : \E i \in DOMAIN open : open[i] = j
  BY <1>1, SortedFacts DEF Types
<1>3. /\ pc = "list" /\ snap' = job /\ Then(calls, "deferred")
      /\ visit' = wf.deferred /\ pend' = {} /\ expd' = ExpectedAtFirst
      /\ UNCHANGED <<wf, job, plan, needs, work, newer, gone, run, rcache, rc, faults>>
  BY DEF ListJobs, store
<1> HIDE DEF open
<1>4. \A j \in S : <<"cancelled", j, "cancel">> \in Calls
  BY <1>1 DEF Calls, Results, Reasons
<1>5. calls \in Seq(Calls)
  <2>1. CASE CancelledBeforeConcurrency
    <3>1. calls \in [1..Len(open) -> Calls]
      BY <1>2, <1>4, <2>1
    <3> QED
      BY <1>2, <3>1
  <2> QED
    BY <2>1, EmptyMap
<1>6. \A i \in DOMAIN calls : \E j \in S : calls[i] = <<"cancelled", j, "cancel">>
  BY <1>2
<1>7. CancelledBeforeConcurrency => \A j \in S : \E i \in DOMAIN calls : calls[i] = <<"cancelled", j, "cancel">>
  BY <1>2
<1> HIDE DEF calls
<1>8. todo' = calls /\ goal' = "deferred" /\ pc' = (IF calls = <<>> THEN "deferred" ELSE "write")
  BY <1>3 DEF Then
<1>9. Outstanding' = {calls[i] : i \in DOMAIN calls}
  BY <1>8 DEF Outstanding
<1> QED
  BY <1>3, <1>5, <1>6, <1>7, <1>8, <1>9

LEMMA FailFastFacts ==
    ASSUME Types, FailFast
    PROVE  /\ pc = "deferred" /\ visit = {} /\ goal' = "graph" /\ pc' \in {"graph", "write"}
           /\ todo' \in Seq(Calls) /\ (pc' # "write" => todo' = <<>>)
           /\ \A c \in Outstanding' : c[1] \in {"stop", "cancelled"} /\ c[3] = "failfast"
           /\ visit' = (IF Cardinality(DOMAIN snap) = Cardinality(expd) THEN DOMAIN snap ELSE {})
           /\ UNCHANGED <<wf, job, plan, needs, work, newer, gone, run, rcache, rc, snap, pend, expd, faults>>
<1> DEFINE S == {j \in DOMAIN snap : j[2] > 0 /\ ~Terminal(snap[j]) /\ MatrixFailed(snap, Logical(j))}
           open == Sorted(S)
           calls == [i \in DOMAIN open |-> IF snap[open[i]].runner
                                           THEN <<"stop", open[i], "failfast">>
                                           ELSE <<"cancelled", open[i], "failfast">>]
<1>1. S \in SUBSET Jobs /\ IsFiniteSet(S)
  BY FS_Subset DEF Types, JobMap
<1>2. Len(open) \in Nat /\ DOMAIN open = 1..Len(open) /\ \A i \in DOMAIN open : open[i] \in Jobs
  BY <1>1, SortedFacts DEF Types
<1>3. /\ pc = "deferred" /\ visit = {} /\ Then(calls, "graph")
      /\ visit' = (IF Cardinality(DOMAIN snap) = Cardinality(expd) THEN DOMAIN snap ELSE {})
      /\ UNCHANGED <<wf, job, plan, needs, work, newer, gone, run, rcache, rc, snap, pend, expd, faults>>
  BY DEF FailFast, store
<1> HIDE DEF open
<1>4. \A j \in Jobs : <<"cancelled", j, "failfast">> \in Calls /\ <<"stop", j, "failfast">> \in Calls
  BY DEF Calls, Results, Reasons
<1>5. calls \in Seq(Calls)
  <2>1. calls \in [1..Len(open) -> Calls]
    BY <1>2, <1>4
  <2> QED
    BY <1>2, <2>1
<1>6. \A i \in DOMAIN calls : calls[i][1] \in {"stop", "cancelled"} /\ calls[i][3] = "failfast"
  BY <1>2
<1> HIDE DEF calls
<1>7. todo' = calls /\ goal' = "graph" /\ pc' = (IF calls = <<>> THEN "graph" ELSE "write")
  BY <1>3 DEF Then
<1>8. Outstanding' = {calls[i] : i \in DOMAIN calls}
  BY <1>7 DEF Outstanding
<1> QED
  BY <1>3, <1>5, <1>6, <1>7, <1>8

LEMMA GraphFacts ==
    ASSUME Types, Graph
    PROVE  /\ pc = "graph" /\ goal' = "graph" /\ pc' \in {"graph", "write"} /\ visit # {}
           /\ todo' \in Seq(Calls) /\ (pc' # "write" => todo' = <<>>)
           /\ \E j \in visit : visit' = visit \ {j} /\ j \in DOMAIN snap
                               /\ \A c \in Outstanding' : c[2] = j /\ GraphCall(j, c)
           /\ UNCHANGED <<wf, job, plan, needs, work, newer, gone, run, rcache, rc, snap, pend, expd, faults>>
<1> DEFINE j == First(visit)
<1>1. /\ pc = "graph" /\ visit # {} /\ visit' = visit \ {j}
      /\ UNCHANGED <<wf, job, plan, needs, work, newer, gone, run, rcache, rc, snap, pend, expd, faults>>
  BY DEF Graph, store
<1>2. visit \subseteq DOMAIN snap /\ visit \in SUBSET Jobs /\ IsFiniteSet(visit)
  BY <1>1, FS_Subset DEF Types, JobMap, Graphing
<1>3. j \in visit
  BY <1>1, <1>2, FirstIsThere DEF Types
<1>4. PICK outcome \in GateOutcomes(j) : Then(GraphCalls(j, outcome), "graph")
  BY DEF Graph
<1> HIDE DEF j
<1>5. /\ GraphCalls(j, outcome) \in Seq(Calls)
      /\ \A i \in DOMAIN GraphCalls(j, outcome) :
           GraphCalls(j, outcome)[i][2] = j /\ GraphCall(j, GraphCalls(j, outcome)[i])
  BY <1>2, <1>3, GraphCallsFacts
<1>6. todo' = GraphCalls(j, outcome) /\ goal' = "graph"
      /\ pc' = (IF GraphCalls(j, outcome) = <<>> THEN "graph" ELSE "write")
  BY <1>4 DEF Then
<1>7. \A c \in Outstanding' : c[2] = j /\ GraphCall(j, c)
  BY <1>5, <1>6 DEF Outstanding
<1> QED
  BY <1>1, <1>2, <1>3, <1>5, <1>6, <1>7

LEMMA PlanningFacts ==
    ASSUME wf \in Workflows, NEW id \in Ids, Planning(id)
    PROVE  /\ pc' = "write" /\ goal' = (IF Expanded(id) \subseteq DOMAIN snap THEN "deferred" ELSE "idle")
           /\ expd' = expd \cup Expanded(id) /\ pend' = pend
           /\ todo' \in Seq(Calls)
           /\ \A c \in Outstanding' : \E j \in Expanded(id) : c = <<"create", j>> \/ c = <<"plan", j>>
           /\ \A j \in Expanded(id) : <<"create", j>> \in Outstanding' /\ <<"plan", j>> \in Outstanding'
<1> DEFINE calls == Creation(Expanded(id))
           next == IF Expanded(id) \subseteq DOMAIN snap THEN "deferred" ELSE "idle"
<1>1. Expanded(id) \in SUBSET Jobs /\ IsFiniteSet(Expanded(id)) /\ Expanded(id) # {}
  BY ExpandedFacts
<1>2. /\ calls \in Seq(Calls)
      /\ \A i \in DOMAIN calls : \E j \in Expanded(id) : calls[i] = <<"create", j>> \/ calls[i] = <<"plan", j>>
      /\ \A j \in Expanded(id) : /\ \E i \in DOMAIN calls : calls[i] = <<"create", j>>
                                 /\ \E i \in DOMAIN calls : calls[i] = <<"plan", j>>
  BY <1>1, CreationFacts
<1> HIDE DEF calls
<1>3. calls # <<>>
  <2>1. PICK j \in Expanded(id) : TRUE
    BY <1>1
  <2>2. \E i \in DOMAIN calls : TRUE
    BY <1>2, <2>1
  <2> QED
    BY <2>2
<1>4. todo' = calls /\ goal' = next /\ pc' = "write" /\ expd' = expd \cup Expanded(id) /\ pend' = pend
  BY <1>3 DEF Planning, Then, calls
<1>5. Outstanding' = {calls[i] : i \in DOMAIN calls}
  BY <1>4 DEF Outstanding
<1> QED
  BY <1>2, <1>4, <1>5, ZenonT(40)

LEMMA TypesDeferred ==
    ASSUME Types, ReconcileDeferred
    PROVE  Types'
<1>1. /\ pc = "deferred" /\ Visited \in wf.deferred /\ Visited \in Ids /\ visit' = visit \ {Visited}
      /\ UNCHANGED <<wf, run, rcache, job, rc, snap>>
  BY DeferredCases
<1>2. todo = <<>> /\ visit \subseteq wf.deferred
  BY <1>1 DEF Types, Deferring
<1>3. ASSUME UNCHANGED <<pc, todo, goal>>
      PROVE  Types'
  <2>1. ~Graphing'
    BY <1>1, <1>3 DEF Graphing
  <2> QED
    BY <1>1, <1>2, <1>3, <2>1, TypesNext DEF Types
<1>4. ASSUME pc' = "write", goal' \in {"idle", "deferred"}, todo' \in Seq(Calls)
      PROVE  Types'
  <2>1. ~Graphing'
    BY <1>4 DEF Graphing
  <2> QED
    BY <1>1, <1>2, <1>4, <2>1, TypesNext DEF Types
<1>5. ASSUME Concluding(Visited)
      PROVE  Types'
  BY <1>1, <1>4, <1>5, ConcludingFacts DEF Types
<1>6. ASSUME Planning(Visited)
      PROVE  Types'
  BY <1>1, <1>4, <1>6, PlanningFacts DEF Types
<1> QED
  BY <1>3, <1>5, <1>6, DeferredCases

LEMMA TypesListJobs ==
    ASSUME Types, ListJobs
    PROVE  Types'
<1>1. ~Graphing'
  BY ListJobsFacts DEF Graphing
<1> QED
  BY <1>1, ListJobsFacts, TypesNext DEF Types

LEMMA TypesFailFast ==
    ASSUME Types, FailFast
    PROVE  Types'
<1>1. ~Deferring' /\ visit' \subseteq DOMAIN snap
  BY FailFastFacts DEF Deferring
<1> QED
  BY <1>1, FailFastFacts, TypesNext DEF Types

LEMMA TypesGraph ==
    ASSUME Types, Graph
    PROVE  Types'
<1>1. pc = "graph" /\ goal' = "graph" /\ pc' \in {"graph", "write"} /\ visit' \subseteq visit
  BY GraphFacts
<1>2. ~Deferring' /\ visit \subseteq DOMAIN snap
  BY <1>1 DEF Deferring, Types, Graphing
<1> QED
  BY <1>1, <1>2, GraphFacts, TypesNext DEF Types

(* Every step is one of these.                                             *)
LEMMA NextCases ==
    ASSUME Next
    PROVE  \/ StartPass \/ RunSteps \/ PlanRun \/ Write \/ ListJobs \/ ReconcileDeferred \/ FailFast \/ Graph
           \/ Abort \/ Environment
BY DEF Next, Step, RunSteps

LEMMA TypesInductive == (Init => Types) /\ (Types /\ [Next]_vars => Types')
<1>1. Init => Types
  <2> SUFFICES ASSUME Init PROVE Types
    OBVIOUS
  <2>1. run \in RunRecord /\ rcache = run /\ rc = run
    BY DEF Init, RunRecord
  <2>2. job = <<>> /\ snap = <<>> /\ todo = <<>> /\ pc = "idle" /\ goal = "idle" /\ wf \in Workflows
    BY DEF Init
  <2> QED
    BY <2>1, <2>2, EmptyMap DEF Types, Deferring, Graphing
<1>2. ASSUME Types, Next
      PROVE  Types'
  <2>1. CASE Abort
    <3>1. EndPass /\ UNCHANGED <<wf, run, rcache, job>>
      BY <2>1 DEF Abort, store
    <3> QED
      BY <1>2, <3>1, TypesEnd DEF Types
  <2> QED
    BY <1>2, <2>1, NextCases, TypesStart, TypesRunSteps, TypesPlanRun, TypesWrite, TypesListJobs,
       TypesDeferred, TypesFailFast, TypesGraph, TypesEnvironment
<1>3. ASSUME Types, UNCHANGED vars
      PROVE  Types'
  <2>1. (Deferring' <=> Deferring) /\ (Graphing' <=> Graphing)
    BY <1>3 DEF Deferring, Graphing, vars
  <2> QED
    BY <1>3, <2>1, TypesNext DEF Types, vars
<1> QED
  BY <1>1, <1>2, <1>3

-----------------------------------------------------------------------------
(* The definition never changes.                                           *)

LEMMA SameExpanded ==
    ASSUME wf' = wf
    PROVE  /\ \A id : Expanded(id)' = Expanded(id)
           /\ ExpectedAtFirst' = ExpectedAtFirst
           /\ \A id : Ancestors(id)' = Ancestors(id)
           /\ Ids' = Ids
<1>1. \A id : Expanded(id)' = Expanded(id)
  BY DEF Expanded
<1>2. Ids' = Ids
  BY SameJobs
<1>3. ExpectedAtFirst' = ExpectedAtFirst
  BY <1>1, <1>2 DEF ExpectedAtFirst
<1>4. \A id : Ancestors(id)' = Ancestors(id)
  BY <1>2 DEF Ancestors
<1> QED
  BY <1>1, <1>2, <1>3, <1>4

LEMMA SameForJob ==
    ASSUME wf' = wf
    PROVE  /\ \A id : ClosedIn(job, id)' <=> ClosedIn(job', id)
           /\ \A id : NeedsClosed(job, id)' <=> NeedsClosed(job', id)
           /\ AllClosed(job)' <=> AllClosed(job')
           /\ \A id : JustifiedIn(job, id)' <=> JustifiedIn(job', id)
           /\ EndedIn(job)' <=> EndedIn(job')
           /\ \A id : NeedsContext(job, id)' = NeedsContext(job', id)
           /\ \A k : Effective(job, k)' = Effective(job', k)
<1>1. /\ \A id : Expanded(id)' = Expanded(id) /\ Ancestors(id)' = Ancestors(id)
      /\ Ids' = Ids
  BY SameExpanded
<1>2. \A id : Group(job, id)' = Group(job', id)
  BY DEF Group, Logical
<1>3. \A k : Effective(job, k)' = Effective(job', k)
  BY DEF Effective, Logical
<1>4. \A id : ClosedIn(job, id)' <=> ClosedIn(job', id)
  BY <1>1, <1>2 DEF ClosedIn, Terminal
<1>5. \A id : NeedsClosed(job, id)' <=> NeedsClosed(job', id)
  BY <1>4 DEF NeedsClosed
<1>6. AllClosed(job)' <=> AllClosed(job')
  BY <1>1, <1>4 DEF AllClosed
<1>7. \A id : JustifiedIn(job, id)' <=> JustifiedIn(job', id)
  BY <1>1, <1>2, <1>3, <1>4, <1>5 DEF JustifiedIn
<1>8. EndedIn(job)' <=> EndedIn(job')
  BY <1>5 DEF EndedIn
<1>9. \A id : GroupResult(job, id)' = GroupResult(job', id)
  BY <1>2, <1>3 DEF GroupResult
<1>10. \A id : NeedsContext(job, id)' = NeedsContext(job', id)
  BY <1>9 DEF NeedsContext
<1> QED
  BY <1>3, <1>4, <1>5, <1>6, <1>7, <1>8, <1>10

LEMMA SameForList ==
    ASSUME wf' = wf
    PROVE  /\ \A id : ClosedIn(snap, id)' <=> ClosedIn(snap', id)
           /\ \A id : NeedsClosed(snap, id)' <=> NeedsClosed(snap', id)
           /\ \A id : JustifiedIn(snap, id)' <=> JustifiedIn(snap', id)
           /\ EndedIn(snap)' <=> EndedIn(snap')
           /\ Grows(snap, job)' <=> Grows(snap', job')
<1>1. /\ \A id : Expanded(id)' = Expanded(id) /\ Ancestors(id)' = Ancestors(id)
      /\ Ids' = Ids
  BY SameExpanded
<1>2. \A id : Group(snap, id)' = Group(snap', id)
  BY DEF Group, Logical
<1>3. \A k : Effective(snap, k)' = Effective(snap', k)
  BY DEF Effective, Logical
<1>4. \A id : ClosedIn(snap, id)' <=> ClosedIn(snap', id)
  BY <1>1, <1>2 DEF ClosedIn, Terminal
<1>5. \A id : NeedsClosed(snap, id)' <=> NeedsClosed(snap', id)
  BY <1>4 DEF NeedsClosed
<1>6. \A id : JustifiedIn(snap, id)' <=> JustifiedIn(snap', id)
  BY <1>1, <1>2, <1>3, <1>4, <1>5 DEF JustifiedIn
<1>7. EndedIn(snap)' <=> EndedIn(snap')
  BY <1>5 DEF EndedIn
<1>8. Grows(snap, job)' <=> Grows(snap', job')
  BY <1>4 DEF Grows, Terminal
<1> QED
  BY <1>4, <1>5, <1>6, <1>7, <1>8

-----------------------------------------------------------------------------
(* What growing keeps.                                                     *)

LEMMA GrowsKeepsClosed ==
    ASSUME NEW f, NEW g, Grows(f, g), NEW id, ClosedIn(f, id)
    PROVE  /\ ClosedIn(g, id) /\ Group(g, id) = Group(f, id)
           /\ \A k \in Group(f, id) : Effective(g, k) = Effective(f, k)
           /\ GroupResult(g, id) = GroupResult(f, id)
<1>1. \A j \in DOMAIN g : j[1] = id => j \in DOMAIN f
  BY DEF Grows
<1>2. Group(g, id) = Group(f, id)
  BY <1>1 DEF Group, Grows, Logical
<1>3. \A k \in Group(f, id) : k \in DOMAIN f /\ Terminal(f[k]) /\ g[k].result = f[k].result /\ g[k].timedOut = f[k].timedOut
  BY DEF Grows, ClosedIn, Group
<1>4. \A k \in Group(f, id) : Effective(g, k) = Effective(f, k)
  BY <1>3 DEF Effective
<1>5. ClosedIn(g, id)
  BY <1>2, <1>3 DEF ClosedIn, Grows, Terminal
<1>6. {Effective(g, j) : j \in Group(g, id)} = {Effective(f, j) : j \in Group(f, id)}
  BY <1>2, <1>4
<1>7. GroupResult(g, id) = GroupResult(f, id)
  BY <1>6 DEF GroupResult
<1> QED
  BY <1>2, <1>4, <1>5, <1>7

LEMMA GrowsKeeps ==
    ASSUME NEW f, NEW g, Grows(f, g)
    PROVE  /\ \A id : ClosedIn(f, id) => ClosedIn(g, id)
           /\ \A id : NeedsClosed(f, id) => NeedsClosed(g, id) /\ NeedsContext(g, id) = NeedsContext(f, id)
           /\ AllClosed(f) => AllClosed(g)
           /\ \A id : JustifiedIn(f, id) => JustifiedIn(g, id)
<1>1. \A id : ClosedIn(f, id) => ClosedIn(g, id)
  BY GrowsKeepsClosed
<1>2. ASSUME NEW id, NeedsClosed(f, id)
      PROVE  NeedsClosed(g, id) /\ NeedsContext(g, id) = NeedsContext(f, id)
  <2>1. \A d \in wf.needs[id] : ClosedIn(g, d) /\ GroupResult(g, d) = GroupResult(f, d)
    BY <1>2, GrowsKeepsClosed DEF NeedsClosed
  <2> QED
    BY <2>1 DEF NeedsClosed, NeedsContext
<1>3. AllClosed(f) => AllClosed(g)
  BY <1>1 DEF AllClosed
<1>4. ASSUME NEW id, JustifiedIn(f, id)
      PROVE  JustifiedIn(g, id)
  <2>1. NeedsClosed(g, id)
    BY <1>2, <1>4 DEF JustifiedIn
  <2>2. ASSUME wf.cond[id] = "none", NEW d \in Ancestors(id)
        PROVE  ClosedIn(g, d) /\ \A k \in Group(g, d) : Effective(g, k) = "success"
    <3>1. ClosedIn(f, d) /\ \A k \in Group(f, d) : Effective(f, k) = "success"
      BY <1>4, <2>2 DEF JustifiedIn
    <3> QED
      BY <3>1, GrowsKeepsClosed
  <2>3. ASSUME NEW d, NEW k \in Group(f, d), Effective(f, k) = "failure"
        PROVE  k \in Group(g, d) /\ Effective(g, k) = "failure"
    <3>1. k \in DOMAIN f /\ f[k].result # "none"
      BY <2>3 DEF Effective, Group
    <3>2. g[k].result = f[k].result /\ g[k].timedOut = f[k].timedOut /\ k \in DOMAIN g
      BY <3>1 DEF Grows, Terminal
    <3> QED
      BY <2>3, <3>2 DEF Effective, Group
  <2> QED
    BY <1>4, <2>1, <2>2, <2>3 DEF JustifiedIn
<1> QED
  BY <1>1, <1>2, <1>3, <1>4

LEMMA GrowsSelf == \A f : Grows(f, f)
BY DEF Grows

LEMMA GrowsByAdd ==
    ASSUME NEW f, NEW j \in Jobs, NEW r, j \notin DOMAIN f, ~ClosedIn(f, j[1])
    PROVE  Grows(f, With(f, j, r))
BY DEF Grows, With

LEMMA GrowsByUpdate ==
    ASSUME NEW f, JobMap(f), NEW j \in DOMAIN f, NEW r, r.placeholder = f[j].placeholder,
           Terminal(f[j]) => r.result = f[j].result /\ r.timedOut = f[j].timedOut
    PROVE  Grows(f, [f EXCEPT ![j] = r])
BY DEF Grows, JobMap

-----------------------------------------------------------------------------
(* What the list shows.                                                    *)

Facts == JobsTrue /\ ExpectedThere /\ SnapTrue /\ CallsSound /\ Accounted

LEMMA ListShape ==
    ASSUME Types, Facts, Listed
    PROVE  /\ DOMAIN snap = DOMAIN job /\ Grows(snap, job)
           /\ \A j \in DOMAIN snap :
                /\ j[1] \in Ids /\ j[2] \in Nat /\ j = <<j[1], j[2]>>
                /\ snap[j].placeholder = job[j].placeholder
                /\ snap[j].placeholder => j = <<j[1], 0>> /\ j[1] \in wf.deferred /\ snap[j].result = job[j].result
                /\ ~snap[j].placeholder => j \in Expanded(j[1]) /\ ~(j[1] \in wf.deferred /\ j[1] \in wf.unplannable)
           /\ \A id \in Ids : Group(snap, id) \in SUBSET Jobs /\ IsFiniteSet(Group(snap, id)) /\ Group(snap, id) \subseteq DOMAIN snap
<1>1. DOMAIN snap = DOMAIN job /\ Grows(snap, job)
      /\ \A j \in DOMAIN snap : snap[j].placeholder => snap[j].result = job[j].result
  BY DEF Facts, SnapTrue
<1>2. \A j \in DOMAIN snap : j[1] \in Ids /\ j[2] \in Nat /\ j = <<j[1], j[2]>> /\ snap[j].placeholder = job[j].placeholder
  BY <1>1 DEF Grows, Types, JobMap, Jobs
<1>3. Shaped
  BY DEF Facts, JobsTrue
<1>4. \A j \in DOMAIN snap :
         /\ snap[j].placeholder => j = <<j[1], 0>> /\ j[1] \in wf.deferred
         /\ ~snap[j].placeholder => j \in Expanded(j[1]) /\ ~(j[1] \in wf.deferred /\ j[1] \in wf.unplannable)
  BY <1>1, <1>2, <1>3 DEF Shaped
<1>5. \A id \in Ids : Group(snap, id) \subseteq DOMAIN snap
  BY DEF Group
<1>6. \A id \in Ids : Group(snap, id) \in SUBSET Jobs /\ IsFiniteSet(Group(snap, id))
  BY <1>5, FS_Subset DEF Types, JobMap
<1> QED
  BY <1>1, <1>2, <1>4, <1>5, <1>6

(* All jobs of id but a placeholder are combinations of its matrix.        *)
LEMMA GroupShape ==
    ASSUME Types, Facts, Listed, NEW id \in Ids
    PROVE  /\ \A j \in Group(snap, id) : j \in DOMAIN snap /\ j[1] = id /\ j[2] \in Nat /\ (j[2] = 0 <=> j = <<id, 0>>)
           /\ <<id, 0>> \in DOMAIN snap => <<id, 0>> \in Group(snap, id)
           /\ <<id, 0>> \notin Group(snap, id) =>
                /\ Group(snap, id) \subseteq Expanded(id)
                /\ \A j \in Group(snap, id) : ~snap[j].placeholder /\ j[2] > 0
                /\ Group(snap, id) # {} => wf.width[id] # 0 /\ Cardinality(Expanded(id)) = wf.width[id]
           /\ <<id, 0>> \in Group(snap, id) =>
                snap[<<id, 0>>].placeholder \/ Expanded(id) = {<<id, 0>>}
           /\ Expanded(id) \subseteq DOMAIN snap => Expanded(id) \subseteq Group(snap, id)
<1> DEFINE G == Group(snap, id)
<1>1. \A j \in G : j \in DOMAIN snap /\ j[1] = id /\ j[2] \in Nat /\ j = <<id, j[2]>>
  BY ListShape DEF Group, Logical
<1>2. \A j \in G : (snap[j].placeholder => j = <<id, 0>>) /\ (~snap[j].placeholder => j \in Expanded(id))
  BY <1>1, ListShape
<1>3. <<id, 0>> \in DOMAIN snap => <<id, 0>> \in G
  BY DEF Group, Logical
<1>4. \A j \in Expanded(id) : j[1] = id /\ (j[2] = 0 <=> wf.width[id] = 0)
  BY ExpandedFacts DEF Types
<1>5. Cardinality(Expanded(id)) = (IF wf.width[id] = 0 THEN 1 ELSE wf.width[id])
      /\ (wf.width[id] = 0 => Expanded(id) = {<<id, 0>>})
  BY ExpandedFacts DEF Types
<1>6. \A j \in G : j[2] = 0 <=> j = <<id, 0>>
  BY <1>1
<1> HIDE DEF G
<1>7. ASSUME <<id, 0>> \notin G
      PROVE  /\ G \subseteq Expanded(id)
             /\ \A j \in G : ~snap[j].placeholder /\ j[2] > 0
             /\ G # {} => wf.width[id] # 0 /\ Cardinality(Expanded(id)) = wf.width[id]
  <2>1. \A j \in G : ~snap[j].placeholder /\ j \in Expanded(id) /\ j[2] # 0
    BY <1>2, <1>6, <1>7
  <2>2. G # {} => wf.width[id] # 0
    BY <1>4, <2>1
  <2> QED
    BY <1>1, <1>5, <2>1, <2>2
<1>8. ASSUME <<id, 0>> \in G
      PROVE  snap[<<id, 0>>].placeholder \/ Expanded(id) = {<<id, 0>>}
  <2>1. CASE ~snap[<<id, 0>>].placeholder
    <3>1. <<id, 0>> \in Expanded(id)
      BY <1>2, <1>8, <2>1
    <3>2. wf.width[id] = 0
      BY <1>4, <3>1
    <3> QED
      BY <1>5, <3>2
  <2> QED
    BY <2>1
<1>9. Expanded(id) \subseteq DOMAIN snap => Expanded(id) \subseteq Group(snap, id)
  BY <1>4 DEF Group, Logical
<1> QED
  BY <1>1, <1>3, <1>6, <1>7, <1>8, <1>9 DEF G

LEMMA WholeClosed ==
    ASSUME Types, Facts, Listed, NEW id \in Ids, Whole(id), Group(snap, id) # {},
           \A j \in Group(snap, id) : Terminal(snap[j])
    PROVE  ClosedIn(snap, id)
<1> DEFINE G == Group(snap, id)
<1>1. CASE <<id, 0>> \in G
  <2>1. <<id, 0>> \in DOMAIN snap
    BY <1>1 DEF Group
  <2> QED
    BY <1>1, <2>1, GroupShape DEF ClosedIn
<1>2. CASE <<id, 0>> \notin G
  <2>1. G \subseteq Expanded(id) /\ Cardinality(Expanded(id)) = wf.width[id] /\ \A j \in G : j[2] > 0
    BY <1>2, GroupShape
  <2>2. Cardinality(G) = wf.width[id]
    BY <1>2, <2>1 DEF Whole
  <2>3. IsFiniteSet(Expanded(id))
    BY ExpandedFacts DEF Types
  <2>4. G = Expanded(id)
    BY <2>1, <2>2, <2>3, FS_Subset
  <2>5. G \subseteq DOMAIN snap
    BY DEF Group
  <2> HIDE DEF G
  <2>6. Expanded(id) \subseteq DOMAIN snap
    BY <2>4, <2>5
  <2> QED
    BY <2>6 DEF ClosedIn
<1> QED
  BY <1>1, <1>2

(* Every logical job that does not wait for others is there.               *)
LEMMA ThereInList ==
    ASSUME Types, Facts, Deferring \/ Graphing, NEW id \in Ids, id \notin pend, Deferring => id \notin visit
    PROVE  /\ Expanded(id) \subseteq DOMAIN snap \/ (<<id, 0>> \in DOMAIN snap /\ snap[<<id, 0>>].placeholder)
<1>1. ExpectedAtFirst \subseteq expd /\ expd \subseteq DOMAIN snap /\ \A i \in wf.deferred : Covered(i)
  BY DEF Facts, Accounted
<1>2. CASE id \in wf.deferred
  BY <1>1, <1>2 DEF Covered
<1>3. CASE id \notin wf.deferred
  <2>1. Expanded(id) \subseteq ExpectedAtFirst
    BY <1>3, ExpectedFacts DEF Types
  <2> QED
    BY <1>1, <2>1
<1> QED
  BY <1>2, <1>3

LEMMA DependenciesClosed ==
    ASSUME Types, Facts, Deferring, NEW id \in Ids, DependenciesDone(id)
    PROVE  NeedsClosed(snap, id)
<1>1. Listed /\ ExpectedAtFirst \subseteq DOMAIN snap
  BY DEF Listed, Facts, Accounted
<1>2. ASSUME NEW d \in wf.needs[id]
      PROVE  ClosedIn(snap, d)
  <2>1. d \in Ids
    BY WorkflowFacts DEF Types
  <2>2. Group(snap, d) # {} /\ (\A j \in Group(snap, d) : Terminal(snap[j])) /\ (d \in wf.deferred => Whole(d))
    BY DEF DependenciesDone
  <2>3. CASE d \in wf.deferred
    BY <1>1, <2>1, <2>2, <2>3, WholeClosed
  <2>4. CASE d \notin wf.deferred
    <3>1. Expanded(d) \subseteq DOMAIN snap
      BY <1>1, <2>1, <2>4, ExpectedFacts DEF Types
    <3> QED
      BY <2>2, <3>1 DEF ClosedIn
  <2> QED
    BY <2>3, <2>4
<1> QED
  BY <1>2 DEF NeedsClosed

LEMMA ClosedDependencies ==
    ASSUME Types, Facts, Listed, NEW id \in Ids, NeedsClosed(snap, id)
    PROVE  DependenciesDone(id)
<1>1. ASSUME NEW d \in wf.needs[id]
      PROVE  Group(snap, d) # {} /\ (\A j \in Group(snap, d) : Terminal(snap[j])) /\ Whole(d)
  <2> DEFINE G == Group(snap, d)
  <2>1. d \in Ids /\ ClosedIn(snap, d)
    BY WorkflowFacts DEF Types, NeedsClosed
  <2>2. \A j \in G : Terminal(snap[j])
    BY <2>1 DEF ClosedIn
  <2>3. CASE <<d, 0>> \in G
    BY <2>2, <2>3 DEF Whole
  <2>4. CASE <<d, 0>> \notin G
    <3>1. Expanded(d) \subseteq DOMAIN snap
      BY <2>1, <2>4, GroupShape DEF ClosedIn
    <3>2. G \subseteq Expanded(d) /\ Expanded(d) \subseteq G
      BY <2>1, <2>4, <3>1, GroupShape
    <3>3. Expanded(d) # {}
      BY <2>1, ExpandedFacts DEF Types
    <3>4. G = Expanded(d) /\ G # {}
      BY <3>2, <3>3
    <3>5. PICK j \in G : TRUE
      BY <3>4
    <3>6. j[2] > 0 /\ Cardinality(G) = wf.width[d]
      BY <2>1, <2>4, <3>4, GroupShape
    <3> QED
      BY <2>2, <3>4, <3>6 DEF Whole
  <2> QED
    BY <2>2, <2>3, <2>4
<1> QED
  BY <1>1 DEF DependenciesDone

LEMMA ShownClosed ==
    ASSUME Types, Facts, Graphing, NEW j \in DOMAIN snap, Shown(j)
    PROVE  NeedsClosed(snap, j[1])
<1>1. ~Deferring /\ j[1] \in Ids
  BY DEF Graphing, Deferring, Types, JobMap, Jobs
<1>2. ASSUME NEW d \in wf.needs[j[1]]
      PROVE  ClosedIn(snap, d)
  <2>1. d \in Ids
    BY <1>1, WorkflowFacts DEF Types
  <2>2. d \notin pend /\ \A k \in Group(snap, d) : Terminal(snap[k])
    BY DEF Shown, Logical
  <2> QED
    BY <1>1, <2>1, <2>2, ThereInList DEF ClosedIn
<1> QED
  BY <1>2 DEF NeedsClosed

LEMMA ListClosed ==
    ASSUME Types, Facts, Graphing, pend = {}, \A j \in DOMAIN snap : Terminal(snap[j])
    PROVE  AllClosed(snap)
<1>1. ~Deferring
  BY DEF Graphing, Deferring
<1>2. ASSUME NEW id \in Ids
      PROVE  ClosedIn(snap, id)
  <2>1. \A j \in Group(snap, id) : Terminal(snap[j])
    BY DEF Group
  <2> QED
    BY <1>1, <2>1, ThereInList DEF ClosedIn
<1> QED
  BY <1>2 DEF AllClosed

LEMMA SettledFacts ==
    ASSUME Types, Facts, Deferring, NEW id \in Ids
    PROVE  /\ Settled(id) \subseteq DOMAIN snap
           /\ Settled(id) # {} =>
                \/ Expanded(id) \subseteq Settled(id) /\ \A j \in Expanded(id) : Terminal(snap[j])
                \/ <<id, 0>> \in Settled(id) /\ snap[<<id, 0>>].placeholder /\ Terminal(snap[<<id, 0>>])
           /\ Settled(id) = {} =>
                /\ <<id, 0>> \in DOMAIN snap => ~Terminal(snap[<<id, 0>>])
                /\ Expanded(id) \subseteq DOMAIN snap /\ <<id, 0>> \notin DOMAIN snap =>
                     \E j \in Group(snap, id) : ~snap[j].placeholder /\ \E k \in Group(snap, id) : ~Terminal(snap[k])
<1> DEFINE G == Group(snap, id)
           one == <<id, 0>>
<1>1. Listed /\ G \in SUBSET Jobs /\ IsFiniteSet(G) /\ G \subseteq DOMAIN snap
  BY ListShape DEF Listed
<1>2. (one \in DOMAIN snap => one \in G) /\ (one \in G => one \in DOMAIN snap)
  BY <1>1, GroupShape
<1>3. CASE one \in G /\ Terminal(snap[one])
  <2>1. Settled(id) = {one}
    BY <1>3 DEF Settled
  <2> QED
    BY <1>1, <1>2, <1>3, <2>1, GroupShape
<1>4. CASE ~(one \in G /\ Terminal(snap[one]))
  <2>1. Settled(id) = IF G # {} /\ First(G)[2] > 0 /\ Cardinality(G) = wf.width[id] /\ \A j \in G : Terminal(snap[j])
                      THEN G ELSE {}
    BY <1>4 DEF Settled
  <2>2. ASSUME Settled(id) # {}
        PROVE  Expanded(id) \subseteq Settled(id) /\ \A j \in Expanded(id) : Terminal(snap[j])
    <3>1. G # {} /\ First(G)[2] > 0 /\ Cardinality(G) = wf.width[id] /\ (\A j \in G : Terminal(snap[j])) /\ Settled(id) = G
      BY <2>1, <2>2
    <3>2. First(G) \in G /\ \A k \in G : ~Before(k, First(G))
      BY <1>1, <3>1, FirstIsThere DEF Types
    <3>3. one \notin G
      BY <1>4, <3>1
    <3>4. G \subseteq Expanded(id) /\ Cardinality(Expanded(id)) = wf.width[id]
      BY <1>1, <3>1, <3>3, GroupShape
    <3>5. IsFiniteSet(Expanded(id))
      BY ExpandedFacts DEF Types
    <3> HIDE DEF G
    <3>6. G = Expanded(id)
      BY <3>1, <3>4, <3>5, FS_Subset
    <3> QED
      BY <3>1, <3>6
  <2>3. ASSUME Settled(id) = {}, Expanded(id) \subseteq DOMAIN snap, one \notin DOMAIN snap
        PROVE  \E j \in G : ~snap[j].placeholder /\ \E k \in G : ~Terminal(snap[k])
    <3>1. /\ G \subseteq Expanded(id) /\ Expanded(id) \subseteq G
          /\ \A j \in G : ~snap[j].placeholder /\ j[2] > 0
          /\ G # {} => Cardinality(Expanded(id)) = wf.width[id]
      BY <1>1, <1>2, <2>3, GroupShape
    <3>2. Expanded(id) # {}
      BY ExpandedFacts DEF Types
    <3>3. G # {} /\ Cardinality(G) = wf.width[id]
      <4> HIDE DEF G
      <4>1. G = Expanded(id)
        BY <3>1
      <4> QED
        BY <3>1, <3>2, <4>1
    <3>4. First(G) \in G
      BY <1>1, <3>3, FirstIsThere DEF Types
    <3>5. First(G)[2] > 0
      BY <3>1, <3>4
    <3>6. ~\A j \in G : Terminal(snap[j])
      BY <2>1, <2>3, <3>3, <3>5
    <3> QED
      BY <3>1, <3>6
  <2> QED
    BY <1>1, <1>2, <1>4, <2>1, <2>2, <2>3
<1> QED
  BY <1>3, <1>4

(* A job that is concluded without being planned lacks a combination, or   *)
(* has its placeholder already.                                            *)
LEMMA ConcludedLacks ==
    ASSUME Types, Facts, pc = "deferred", NEW id \in wf.deferred, Settled(id) = {}, <<id, 0>> \notin DOMAIN snap,
           CancelledBeforeConcurrency \/ ~MayRun(id) \/ id \in wf.unplannable
    PROVE  ~(Expanded(id) \subseteq DOMAIN snap)
<1>1. Deferring /\ Listed /\ id \in Ids /\ todo = <<>>
  BY WorkflowFacts DEF Deferring, Listed, Types
<1> SUFFICES ASSUME Expanded(id) \subseteq DOMAIN snap PROVE FALSE
  OBVIOUS
<1>2. PICK j \in Group(snap, id) : ~snap[j].placeholder
  BY <1>1, SettledFacts
<1>3. PICK k \in Group(snap, id) : ~Terminal(snap[k])
  BY <1>1, SettledFacts
<1>4. Group(snap, id) \subseteq DOMAIN snap /\ j[1] = id
  BY <1>1, GroupShape
<1>5. CASE CancelledBeforeConcurrency
  <2>1. Outstanding = {}
    BY <1>1 DEF Outstanding
  <2>2. \A i \in DOMAIN snap : Terminal(snap[i])
    BY <1>1, <1>5, <2>1 DEF Facts, Accounted
  <2> QED
    BY <1>3, <1>4, <2>2
<1>6. CASE ~MayRun(id)
  BY <1>2, <1>6 DEF MayRun, Planned
<1>7. CASE id \in wf.unplannable
  BY <1>1, <1>2, <1>4, <1>7, ListShape
<1> QED
  BY <1>5, <1>6, <1>7
-----------------------------------------------------------------------------
(* While nobody deletes a job, jobs only grow, and so does the list.       *)

LEMMA CreatedNotClosed ==
    ASSUME Types, Facts, NEW c \in Outstanding, c \in Calls, c[2] \notin DOMAIN job,
           c[1] \in {"create", "reserve"}
    PROVE  ~ClosedIn(job, c[2][1])
<1> DEFINE j == c[2]
<1>1. CallSound(c) /\ j \in Jobs
  BY CallFacts DEF Facts, CallsSound
<1>2. j[1] \in Ids /\ j[2] \in Nat /\ j = <<j[1], j[2]>>
  BY <1>1 DEF Jobs
<1>3. CASE c[1] = "create"
  <2>1. /\ j \in Expanded(j[1])
        /\ <<j[1], 0>> \in DOMAIN job /\ job[<<j[1], 0>>].placeholder => ~Terminal(job[<<j[1], 0>>])
    BY <1>1, <1>3 DEF CallSound, CreateSound
  <2>2. <<j[1], 0>> \in DOMAIN job => <<j[1], 0>> \in Group(job, j[1])
    BY DEF Group, Logical
  <2> QED
    BY <2>1, <2>2 DEF ClosedIn
<1>4. CASE c[1] = "reserve"
  <2>1. j = <<j[1], 0>> /\ ~(Expanded(j[1]) \subseteq DOMAIN job)
    BY <1>1, <1>2, <1>4 DEF CallSound, ReserveSound
  <2> QED
    BY <2>1 DEF ClosedIn
<1> QED
  BY <1>3, <1>4

LEMMA WriteGrows ==
    ASSUME Types, Facts, Write
    PROVE  /\ Grows(job, job')
           /\ Listed => Refused \/ (Grows(snap, snap') /\ DOMAIN snap' = DOMAIN job' /\ Grows(snap', job'))
<1> DEFINE c == Head(todo)
           j == c[2]
<1>1. c \in Calls /\ j \in Jobs /\ Written(c) /\ c \in Outstanding
  BY WriteCases, TailFacts DEF Types
<1>2. JobMap(job) /\ JobMap(snap)
  BY DEF Types
<1>3. Listed => DOMAIN snap = DOMAIN job /\ Grows(snap, job)
  BY DEF Facts, SnapTrue
<1> HIDE DEF c
<1>4. CASE Refused
  BY <1>4, GrowsSelf DEF Refused
<1>5. CASE Dropped \/ CreatePlan(j)
  BY <1>3, <1>5, GrowsSelf DEF Dropped, CreatePlan
<1>6. CASE CreateNeeds(j)
  BY <1>3, <1>6, GrowsSelf DEF CreateNeeds
<1>7. ASSUME NEW b \in BOOLEAN, Taken(j, b)
      PROVE  Grows(job, job') /\ (Listed => Grows(snap, snap') /\ DOMAIN snap' = DOMAIN job' /\ Grows(snap', job'))
  <2>1. job' = job /\ snap' = With(snap, j, job[j]) /\ j \in DOMAIN job
    BY <1>7 DEF Taken
  <2>2. ASSUME Listed
        PROVE  Grows(snap, snap') /\ DOMAIN snap' = DOMAIN job'
    BY <1>3, <2>1, <2>2 DEF Grows, With
  <2>3. ASSUME Listed
        PROVE  Grows(snap', job')
    BY <1>3, <2>1, <2>3 DEF Grows, With
  <2> QED
    BY <2>1, <2>2, <2>3, GrowsSelf
<1>8. ASSUME NEW b \in BOOLEAN, c[1] = (IF b THEN "reserve" ELSE "create"), Added(j, b)
      PROVE  Grows(job, job') /\ (Listed => Grows(snap, snap') /\ DOMAIN snap' = DOMAIN job' /\ Grows(snap', job'))
  <2>1. job' = With(job, j, NewJob(b)) /\ snap' = With(snap, j, NewJob(b)) /\ j \notin DOMAIN job
    BY <1>8 DEF Added
  <2>2. ~ClosedIn(job, j[1])
    BY <1>1, <1>8, <2>1, CreatedNotClosed
  <2>3. Grows(job, job')
    BY <1>1, <2>1, <2>2, GrowsByAdd
  <2>4. ASSUME Listed
        PROVE  Grows(snap, snap') /\ DOMAIN snap' = DOMAIN job'
    <3>1. ~ClosedIn(snap, j[1])
      BY <1>3, <2>2, <2>4, GrowsKeeps
    <3>2. Grows(snap, snap')
      BY <1>1, <1>3, <2>1, <2>4, <3>1, GrowsByAdd
    <3> QED
      BY <1>3, <2>1, <2>4, <3>2 DEF With
  <2>5. ASSUME Listed
        PROVE  Grows(snap', job')
    BY <1>3, <2>1, <2>5 DEF Grows, With
  <2> QED
    BY <2>3, <2>4, <2>5
<1>9. ASSUME NEW new \in JobRecord, Updated(j, new), new.placeholder = job[j].placeholder,
             Terminal(job[j]) => new.result = job[j].result /\ new.timedOut = job[j].timedOut
      PROVE  Grows(job, job') /\ (Listed => Grows(snap, snap') /\ DOMAIN snap' = DOMAIN job' /\ Grows(snap', job'))
  <2>1. j \in DOMAIN job /\ job[j] = snap[j] /\ job' = [job EXCEPT ![j] = new] /\ snap' = [snap EXCEPT ![j] = new]
    BY <1>9 DEF Updated
  <2>2. Grows(job, job')
    BY <1>2, <1>9, <2>1, GrowsByUpdate
  <2>3. ASSUME Listed
        PROVE  Grows(snap, snap') /\ DOMAIN snap' = DOMAIN job'
    BY <1>2, <1>3, <1>9, <2>1, <2>3, GrowsByUpdate
  <2>4. ASSUME Listed
        PROVE  Grows(snap', job')
    BY <1>2, <1>3, <1>9, <2>1, <2>4 DEF Grows, JobMap
  <2> QED
    BY <2>2, <2>3, <2>4
<1>10. CASE c[1] = "ready" /\ c[3] \in {"true", "unknown"} /\ Updated(j, [job[j] EXCEPT !.ready = c[3]])
  <2>1. job[j] \in JobRecord
    BY <1>2, <1>10 DEF Updated, JobMap
  <2> QED
    BY <1>9, <1>10, <2>1, ReadyUpdate
<1>11. CASE c[1] = "stop" /\ c[3] \in {"no", "cancel", "failfast"} /\ Updated(j, [job[j] EXCEPT !.stop = c[3]])
  <2>1. job[j] \in JobRecord
    BY <1>2, <1>11 DEF Updated, JobMap
  <2> QED
    BY <1>9, <1>11, <2>1, StopUpdate
<1>12. CASE c[1] \in Results /\ c[3] \in Reasons /\ ~Terminal(job[j]) /\ Updated(j, Completed(job[j], c[1], c[3]))
  <2>1. job[j] \in JobRecord
    BY <1>2, <1>12 DEF Updated, JobMap
  <2> QED
    BY <1>9, <1>12, <2>1, CompletedUpdate
<1> QED
  BY <1>1, <1>4, <1>5, <1>6, <1>7, <1>8, <1>10, <1>11, <1>12 DEF Written

-----------------------------------------------------------------------------
(* What Runners, users and the API server do between two calls.            *)

Taking(j) ==
    /\ run.planned = "true" /\ j \in DOMAIN job
    /\ ~Terminal(job[j]) /\ ~job[j].placeholder /\ Ready(job, j)
    /\ job' = [job EXCEPT ![j] = [job[j] EXCEPT !.runner = TRUE]]
    /\ work' = work \cup {j} /\ run' = run /\ rcache' = rcache

Ended(j, new) ==
    /\ j \in DOMAIN job /\ job[j].runner /\ ~Terminal(job[j])
    /\ new \in JobRecord /\ new.result \in Results
    /\ new.ready = job[j].ready /\ new.runner = job[j].runner /\ new.reason = job[j].reason
    /\ new.placeholder = job[j].placeholder
    /\ job' = [job EXCEPT ![j] = new]
    /\ work' \subseteq work /\ run' = run /\ rcache' = rcache

LEMMA EnvironmentCases ==
    ASSUME Types, Environment, gone' = {}
    PROVE  /\ gone = {} /\ UNCHANGED <<wf, plan, needs, pc, rc, snap, todo, goal, visit, pend, expd>>
           /\ run'.planned = run.planned /\ run'.result = run.result /\ (run.cancel => run'.cancel)
           /\ run' # run => run.result = "none"
           /\ rcache' = rcache \/ rcache' = run
           /\ \/ job' = job /\ work' \subseteq work
              \/ \E j : Taking(j)
              \/ \E j, new : Ended(j, new)
<1>1. CASE Sync \/ Cancel \/ Approve \/ NewRevision
  <2>1. run \in RunRecord
    BY DEF Types
  <2>2. /\ [run EXCEPT !.cancel = TRUE].planned = run.planned /\ [run EXCEPT !.cancel = TRUE].result = run.result
        /\ [run EXCEPT !.cancel = TRUE].cancel
        /\ [run EXCEPT !.approved = TRUE].planned = run.planned /\ [run EXCEPT !.approved = TRUE].result = run.result
        /\ [run EXCEPT !.approved = TRUE].cancel = run.cancel
    BY <2>1 DEF RunRecord
  <2>3. UNCHANGED <<wf, job, plan, needs, work, gone, pc, rc, snap, todo, goal, visit, pend, expd>>
    BY <1>1 DEF Sync, Cancel, Approve, NewRevision, store, local
  <2>4. \/ run' = run
        \/ run' = [run EXCEPT !.cancel = TRUE] /\ run.result = "none"
        \/ run' = [run EXCEPT !.approved = TRUE] /\ run.result = "none"
    BY <1>1 DEF Sync, Cancel, Approve, NewRevision
  <2>5. rcache' = rcache \/ rcache' = run
    BY <1>1 DEF Sync, Cancel, Approve, NewRevision
  <2> QED
    BY <2>2, <2>3, <2>4, <2>5
<1>2. ASSUME NEW j, Assign(j)
      PROVE  Taking(j) /\ UNCHANGED <<wf, run, rcache, plan, needs, gone, pc, rc, snap, todo, goal, visit, pend, expd>>
  BY <1>2 DEF Assign, Taking, local
<1>3. ASSUME NEW j, Finish(j)
      PROVE  /\ \E new : Ended(j, new)
             /\ UNCHANGED <<wf, run, rcache, plan, needs, gone, pc, rc, snap, todo, goal, visit, pend, expd>>
  <2>1. j \in DOMAIN job /\ job[j] \in JobRecord /\ job[j].runner /\ ~Terminal(job[j])
        /\ wf.outcomes \subseteq {"success", "failure", "cancelled", "skipped", "timeout"}
    BY <1>3, WorkflowFacts DEF Finish, Types, JobMap
  <2>2. UNCHANGED <<wf, run, rcache, plan, needs, gone, pc, rc, snap, todo, goal, visit, pend, expd>> /\ work' \subseteq work
    BY <1>3 DEF Finish, local
  <2> DEFINE timed(r) == [job[j] EXCEPT !.result = IF r = "timeout" THEN "failure" ELSE r, !.timedOut = (r = "timeout")]
             stopped  == [job[j] EXCEPT !.result = "cancelled"]
  <2>3. (\E r \in wf.outcomes : job' = [job EXCEPT ![j] = timed(r)]) \/ job' = [job EXCEPT ![j] = stopped]
    BY <1>3, ZenonT(40) DEF Finish
  <2>4. ASSUME NEW new, new \in JobRecord, new.result \in Results, new.ready = job[j].ready, new.runner = job[j].runner,
               new.reason = job[j].reason, new.placeholder = job[j].placeholder, job' = [job EXCEPT ![j] = new]
        PROVE  Ended(j, new)
    BY <2>1, <2>2, <2>4 DEF Ended
  <2>5. ASSUME NEW r \in wf.outcomes
        PROVE  timed(r) \in JobRecord /\ timed(r).result \in Results /\ timed(r).ready = job[j].ready
               /\ timed(r).runner = job[j].runner /\ timed(r).reason = job[j].reason /\ timed(r).placeholder = job[j].placeholder
    <3>1. (IF r = "timeout" THEN "failure" ELSE r) \in Results /\ (r = "timeout") \in BOOLEAN
      BY <2>1 DEF Results
    <3>2. ASSUME NEW q \in Results, NEW b \in BOOLEAN
          PROVE  LET n == [job[j] EXCEPT !.result = q, !.timedOut = b] IN
                 n \in JobRecord /\ n.result \in Results /\ n.ready = job[j].ready
                 /\ n.runner = job[j].runner /\ n.reason = job[j].reason /\ n.placeholder = job[j].placeholder
      BY <2>1 DEF JobRecord
    <3> QED
      BY <3>1, <3>2
  <2>6. stopped \in JobRecord /\ stopped.result \in Results /\ stopped.ready = job[j].ready
        /\ stopped.runner = job[j].runner /\ stopped.reason = job[j].reason /\ stopped.placeholder = job[j].placeholder
    <3>1. "cancelled" \in Results
      BY DEF Results
    <3> QED
      BY <2>1, <3>1 DEF JobRecord
  <2> HIDE DEF timed, stopped
  <2>7. \E new : Ended(j, new)
    BY <2>3, <2>4, <2>5, <2>6
  <2> QED
    BY <2>2, <2>7
<1>4. ASSUME NEW j, StopPod(j)
      PROVE  /\ job' = job /\ work' \subseteq work
             /\ UNCHANGED <<wf, run, rcache, plan, needs, gone, pc, rc, snap, todo, goal, visit, pend, expd>>
  BY <1>4 DEF StopPod, local
<1>5. ASSUME NEW j
      PROVE  ~DeleteJob(j)
  BY DEF DeleteJob
<1> QED
  BY <1>1, <1>2, <1>3, <1>4, <1>5 DEF Environment

LEMMA EnvironmentGrows ==
    ASSUME Types, Environment, gone' = {}
    PROVE  Grows(job, job')
<1>1. JobMap(job)
  BY DEF Types
<1>2. ASSUME NEW j, Taking(j)
      PROVE  Grows(job, job')
  <2>1. j \in DOMAIN job /\ job[j] \in JobRecord /\ job' = [job EXCEPT ![j] = [job[j] EXCEPT !.runner = TRUE]]
    BY <1>1, <1>2 DEF Taking, JobMap
  <2> QED
    BY <1>1, <2>1, RunnerUpdate, GrowsByUpdate
<1>3. ASSUME NEW j, NEW new, Ended(j, new)
      PROVE  Grows(job, job')
  BY <1>1, <1>3, GrowsByUpdate DEF Ended
<1> QED
  BY <1>2, <1>3, EnvironmentCases, GrowsSelf

-----------------------------------------------------------------------------
(* What the reconcile writes to the run, which has not changed then.       *)

RunWritten ==
    /\ run = rc /\ run.result = "none"
    /\ \/ /\ pc \in {"approval", "plan"} /\ run'.planned \notin {"waiting", "true"}
          /\ run.planned \notin {"waiting", "true"}
          /\ run'.result \in {"none", "cancelled", "superseded", "invalid"}
       \/ pc = "gate" /\ run'.planned = "waiting" /\ run'.result = "none" /\ (run.cancel => run'.cancel)
       \/ /\ pc = "graph" /\ visit = {} /\ run'.cancel = run.cancel
          /\ \/ StateMissing /\ work = {} /\ run'.planned = "false" /\ run'.result = "lost"
             \/ RunDone /\ run'.planned = "true" /\ run'.result = Conclusion
             \/ ~RunDone /\ run'.planned = "true" /\ run'.result = "none"

LEMMA RunStepMeans ==
    ASSUME Types, RunSteps
    PROVE  /\ pc \in {"approval", "plan", "gate", "graph"}
           /\ UNCHANGED <<wf, job, plan, needs, work, gone, rcache, rc>>
           /\ \/ /\ (pc = "approval" /\ pc' = "plan") \/ (pc = "gate" /\ pc' = "list")
                 /\ UNCHANGED <<run, snap, todo, goal, visit, pend, expd>>
              \/ EndPass /\ run' = run
              \/ EndPass /\ RunWritten
<1>1. rc \in RunRecord /\ (pc # "idle" => rc.result = "none")
      /\ (pc \in {"approval", "plan"} => rc.planned \notin {"waiting", "true"})
  BY DEF Types
<1>2. pc \in {"approval", "plan", "gate", "graph"} /\ UNCHANGED <<wf, job, plan, needs, work, gone, rcache>>
  BY RunStepCases DEF store
<1>3. ASSUME NEW new, Updating(new)
      PROVE  EndPass /\ rc' = rc /\ (run' = run \/ (run = rc /\ run' = new))
  BY <1>3 DEF Updating, UpdateRun, EndPass
<1> DEFINE Means == \/ /\ (pc = "approval" /\ pc' = "plan") \/ (pc = "gate" /\ pc' = "list")
                       /\ UNCHANGED <<run, rc, snap, todo, goal, visit, pend, expd>>
                    \/ EndPass /\ run' = run
                    \/ EndPass /\ RunWritten
<1> SUFFICES Means
  BY <1>2 DEF EndPass
<1>4. CASE pc \in {"approval", "plan"} /\ \E q \in {"cancelled", "superseded", "invalid"} : Updating([rc EXCEPT !.planned = "false", !.result = q])
  <2>1. PICK q \in {"cancelled", "superseded", "invalid"} : Updating([rc EXCEPT !.planned = "false", !.result = q])
    BY <1>4
  <2> DEFINE new == [rc EXCEPT !.planned = "false", !.result = q]
  <2>2. new.planned = "false" /\ new.result = q
    BY <1>1 DEF RunRecord
  <2> HIDE DEF new
  <2>3. Updating(new)
    BY <2>1 DEF new
  <2> QED
    BY <1>1, <1>3, <1>4, <2>2, <2>3 DEF RunWritten
<1>5. CASE pc = "approval" /\ (Updating([rc EXCEPT !.planned = "awaiting"]) \/ Updating([rc EXCEPT !.recorded = TRUE]))
  <2>1. /\ [rc EXCEPT !.planned = "awaiting"].planned = "awaiting" /\ [rc EXCEPT !.planned = "awaiting"].result = rc.result
        /\ [rc EXCEPT !.recorded = TRUE].planned = rc.planned /\ [rc EXCEPT !.recorded = TRUE].result = rc.result
    BY <1>1 DEF RunRecord
  <2> QED
    BY <1>1, <1>3, <1>5, <2>1 DEF RunWritten
<1>6. CASE pc = "gate" /\ Updating([rc EXCEPT !.planned = "waiting"])
  <2>1. /\ [rc EXCEPT !.planned = "waiting"].planned = "waiting" /\ [rc EXCEPT !.planned = "waiting"].result = rc.result
        /\ [rc EXCEPT !.planned = "waiting"].cancel = rc.cancel
    BY <1>1 DEF RunRecord
  <2> QED
    BY <1>1, <1>3, <1>6, <2>1 DEF RunWritten
<1>7. CASE pc = "gate" /\ rc.planned = "waiting" /\ Updating([rc EXCEPT !.cancel = TRUE])
  <2>1. /\ [rc EXCEPT !.cancel = TRUE].planned = rc.planned /\ [rc EXCEPT !.cancel = TRUE].result = rc.result
        /\ [rc EXCEPT !.cancel = TRUE].cancel
    BY <1>1 DEF RunRecord
  <2> QED
    BY <1>1, <1>3, <1>7, <2>1 DEF RunWritten
<1>8. CASE pc = "graph" /\ visit = {} /\ StateMissing /\ work = {} /\ Updating([rc EXCEPT !.planned = "false", !.result = "lost"])
  <2>1. /\ [rc EXCEPT !.planned = "false", !.result = "lost"].planned = "false"
        /\ [rc EXCEPT !.planned = "false", !.result = "lost"].result = "lost"
        /\ [rc EXCEPT !.planned = "false", !.result = "lost"].cancel = rc.cancel
    BY <1>1 DEF RunRecord
  <2> QED
    BY <1>1, <1>3, <1>8, <2>1 DEF RunWritten
<1>9. CASE pc = "graph" /\ visit = {} /\ RunDone /\ Updating([rc EXCEPT !.planned = "true", !.result = Conclusion])
  <2>1. /\ [rc EXCEPT !.planned = "true", !.result = Conclusion].planned = "true"
        /\ [rc EXCEPT !.planned = "true", !.result = Conclusion].result = Conclusion
        /\ [rc EXCEPT !.planned = "true", !.result = Conclusion].cancel = rc.cancel
    BY <1>1 DEF RunRecord
  <2> QED
    BY <1>1, <1>3, <1>9, <2>1 DEF RunWritten
<1>10. CASE pc = "graph" /\ visit = {} /\ ~RunDone /\ Updating([rc EXCEPT !.planned = "true"])
  <2>1. /\ [rc EXCEPT !.planned = "true"].planned = "true" /\ [rc EXCEPT !.planned = "true"].result = rc.result
        /\ [rc EXCEPT !.planned = "true"].cancel = rc.cancel
    BY <1>1 DEF RunRecord
  <2> QED
    BY <1>1, <1>3, <1>10, <2>1 DEF RunWritten
<1> QED
  BY <1>4, <1>5, <1>6, <1>7, <1>8, <1>9, <1>10, RunStepCases

(* A run that was cancelled while it waited stays so until all its jobs    *)
(* have results, and for as long as the reconcile that saw it goes on.     *)
LEMMA EarlyStays ==
    ASSUME Types, Facts, Next, gone' = {}
    PROVE  /\ Early => Early' \/ (AllClosed(job) /\ job' = job)
           /\ Early /\ Listed' => Early'
<1>1. CASE UNCHANGED run
  BY <1>1 DEF Early
<1>2. CASE Environment
  BY <1>2, EnvironmentCases DEF Early
<1>3. CASE RunSteps
  <2>1. CASE UNCHANGED run
    BY <2>1 DEF Early
  <2>2. CASE EndPass /\ RunWritten
    <3>1. ~Listed' /\ job' = job
      BY <1>3, <2>2, RunStepMeans DEF EndPass, Listed, Deferring, Graphing, Ending
    <3>2. CASE Early /\ pc = "graph" /\ run'.planned = "true" /\ run'.result = "none"
      <4>1. CancelledBeforeConcurrency /\ Graphing /\ todo = <<>>
        BY <2>2, <3>2 DEF Early, RunWritten, CancelledBeforeConcurrency, Graphing, Types
      <4>2. Outstanding = {}
        BY <4>1 DEF Outstanding
      <4>3. pend = {} /\ \A j \in DOMAIN snap : Terminal(snap[j])
        BY <4>1, <4>2 DEF Facts, Accounted
      <4>4. AllClosed(snap) /\ Grows(snap, job)
        BY <4>1, <4>3, ListClosed DEF Facts, SnapTrue, Listed
      <4> QED
        BY <3>1, <4>4, GrowsKeeps
    <3>3. CASE ~(pc = "graph" /\ run'.planned = "true" /\ run'.result = "none")
      BY <2>2, <3>1, <3>3, ConclusionValues DEF Early, RunWritten
    <3> QED
      BY <3>1, <3>2, <3>3
  <2> QED
    BY <1>3, <2>1, <2>2, RunStepMeans
<1>4. CASE Write
  BY <1>1, <1>4, WriteCases
<1>5. CASE StartPass \/ PlanRun \/ ListJobs \/ ReconcileDeferred \/ FailFast \/ Graph \/ Abort
  BY <1>1, <1>5 DEF StartPass, PlanRun, ListJobs, ReconcileDeferred, FailFast, Graph, Abort
<1> QED
  BY <1>2, <1>3, <1>4, <1>5, NextCases

(* Every step but a deletion.                                              *)
LEMMA JobsGrow ==
    ASSUME Types, Facts, Next, gone' = {}
    PROVE  gone = {} /\ wf' = wf /\ Grows(job, job')
<1>1. CASE Environment
  BY <1>1, EnvironmentCases, EnvironmentGrows
<1>2. CASE Write
  BY <1>2, WriteCases, WriteGrows
<1>3. CASE RunSteps
  BY <1>3, RunStepMeans, GrowsSelf
<1>4. CASE StartPass \/ PlanRun \/ ListJobs \/ ReconcileDeferred \/ FailFast \/ Graph \/ Abort
  <2>1. UNCHANGED <<wf, job, gone>>
    BY <1>4 DEF StartPass, PlanRun, ListJobs, ReconcileDeferred, FailFast, Graph, Abort, store
  <2> QED
    BY <2>1, GrowsSelf
<1> QED
  BY <1>1, <1>2, <1>3, <1>4, NextCases

-----------------------------------------------------------------------------
(* What a call does to the jobs.                                           *)

Revised(c, new) ==
    LET j == c[2] IN
    /\ Updated(j, new) /\ new \in JobRecord
    /\ new.placeholder = job[j].placeholder /\ new.runner = job[j].runner
    /\ new.ready = "true" => job[j].ready = "true" \/ (c[1] = "ready" /\ c[3] = "true")
    /\ c[1] \notin Results => new.result = job[j].result /\ new.timedOut = job[j].timedOut /\ new.reason = job[j].reason
    /\ c[1] \in Results => new.result = c[1] /\ new.reason = c[3] /\ ~Terminal(job[j])

LEMMA WriteMeans ==
    ASSUME Types, Write
    PROVE  LET c == Head(todo) IN
           /\ pc = "write" /\ c \in Calls /\ c \in Outstanding /\ c[2] \in Jobs
           /\ UNCHANGED <<wf, run, rcache, rc, work, newer, gone>>
           /\ \/ Refused
              \/ Dropped /\ (c[1] \in Results /\ c[2] \in DOMAIN snap => Terminal(snap[c[2]]))
                         /\ c[1] \notin {"create", "reserve", "plan", "needs"}
              \/ \E b \in BOOLEAN : c[1] = (IF b THEN "reserve" ELSE "create") /\ (Taken(c[2], b) \/ Added(c[2], b))
              \/ c[1] = "plan" /\ CreatePlan(c[2])
              \/ c[1] = "needs" /\ CreateNeeds(c[2])
              \/ c[1] \in {"ready", "stop"} \cup Results /\ \E new : Revised(c, new)
<1> DEFINE c == Head(todo)
           j == c[2]
<1>1. /\ pc = "write" /\ c \in Calls /\ j \in Jobs /\ Written(c) /\ c \in Outstanding
      /\ UNCHANGED <<wf, run, rcache, rc, work, newer, gone>>
  BY WriteCases, TailFacts DEF Types
<1>2. JobMap(job)
  BY DEF Types
<1> SUFFICES
      \/ Refused
      \/ Dropped /\ (c[1] \in Results /\ j \in DOMAIN snap => Terminal(snap[j]))
                 /\ c[1] \notin {"create", "reserve", "plan", "needs"}
      \/ \E b \in BOOLEAN : c[1] = (IF b THEN "reserve" ELSE "create") /\ (Taken(j, b) \/ Added(j, b))
      \/ c[1] = "plan" /\ CreatePlan(j)
      \/ c[1] = "needs" /\ CreateNeeds(j)
      \/ c[1] \in {"ready", "stop"} \cup Results /\ \E new : Revised(c, new)
  BY <1>1
<1> HIDE DEF c
<1>3. CASE c[1] = "ready" /\ c[3] \in {"true", "unknown"} /\ Updated(j, [job[j] EXCEPT !.ready = c[3]])
  <2> DEFINE new == [job[j] EXCEPT !.ready = c[3]]
  <2>1. job[j] \in JobRecord
    BY <1>2, <1>3 DEF Updated, JobMap
  <2>2. /\ new \in JobRecord /\ new.ready = c[3] /\ new.result = job[j].result /\ new.timedOut = job[j].timedOut
        /\ new.runner = job[j].runner /\ new.reason = job[j].reason /\ new.placeholder = job[j].placeholder
    BY <1>3, <2>1, ReadyUpdate
  <2>3. Updated(j, new)
    BY <1>3
  <2> HIDE DEF new
  <2>4. Revised(c, new)
    BY <1>3, <2>2, <2>3 DEF Revised, Results
  <2> QED
    BY <1>3, <2>4
<1>4. CASE c[1] = "stop" /\ c[3] \in {"no", "cancel", "failfast"} /\ Updated(j, [job[j] EXCEPT !.stop = c[3]])
  <2> DEFINE new == [job[j] EXCEPT !.stop = c[3]]
  <2>1. job[j] \in JobRecord
    BY <1>2, <1>4 DEF Updated, JobMap
  <2>2. /\ new \in JobRecord /\ new.ready = job[j].ready /\ new.result = job[j].result /\ new.timedOut = job[j].timedOut
        /\ new.runner = job[j].runner /\ new.reason = job[j].reason /\ new.placeholder = job[j].placeholder
    BY <1>4, <2>1, StopUpdate
  <2>3. Updated(j, new)
    BY <1>4
  <2> HIDE DEF new
  <2>4. Revised(c, new)
    BY <1>4, <2>2, <2>3 DEF Revised, Results
  <2> QED
    BY <1>4, <2>4
<1>5. CASE c[1] \in Results /\ c[3] \in Reasons /\ ~Terminal(job[j]) /\ Updated(j, Completed(job[j], c[1], c[3]))
  <2> DEFINE new == Completed(job[j], c[1], c[3])
  <2>1. job[j] \in JobRecord
    BY <1>2, <1>5 DEF Updated, JobMap
  <2>2. /\ new \in JobRecord /\ new.ready = "false" /\ new.result = c[1]
        /\ new.runner = job[j].runner /\ new.reason = c[3] /\ new.placeholder = job[j].placeholder
    BY <1>5, <2>1, CompletedUpdate
  <2>3. Updated(j, new)
    BY <1>5
  <2> HIDE DEF new
  <2>4. Revised(c, new)
    BY <1>5, <2>2, <2>3 DEF Revised
  <2> QED
    BY <1>5, <2>4
<1> QED
  BY <1>1, <1>3, <1>4, <1>5 DEF Written

(* The ways a step changes the jobs, if it deletes none.                   *)
CallAdds(j, b) ==
    /\ Write /\ Head(todo)[2] = j /\ Head(todo)[1] = (IF b THEN "reserve" ELSE "create")
    /\ j \in Jobs /\ b \in BOOLEAN /\ Added(j, b)

CallRevises(new) == Write /\ Revised(Head(todo), new) /\ Head(todo)[1] \in {"ready", "stop"} \cup Results

LEMMA JobChanges ==
    ASSUME Types, Next, gone' = {}
    PROVE  \/ job' = job
           \/ \E j : Taking(j)
           \/ \E j, new : Ended(j, new)
           \/ \E j, b : CallAdds(j, b)
           \/ \E new : CallRevises(new)
<1>1. CASE Environment
  BY <1>1, EnvironmentCases
<1>2. CASE Write
  <2> DEFINE c == Head(todo)
  <2>1. \/ job' = job
        \/ \E b \in BOOLEAN : c[1] = (IF b THEN "reserve" ELSE "create") /\ c[2] \in Jobs /\ Added(c[2], b)
        \/ c[1] \in {"ready", "stop"} \cup Results /\ \E new : Revised(c, new)
    BY <1>2, WriteMeans DEF Refused, Dropped, Taken, CreatePlan, CreateNeeds
  <2>2. ASSUME NEW b \in BOOLEAN, c[1] = (IF b THEN "reserve" ELSE "create"), c[2] \in Jobs, Added(c[2], b)
        PROVE  CallAdds(c[2], b)
    BY <1>2, <2>2 DEF CallAdds
  <2>3. ASSUME NEW new, Revised(c, new), c[1] \in {"ready", "stop"} \cup Results
        PROVE  CallRevises(new)
    BY <1>2, <2>3 DEF CallRevises
  <2> QED
    BY <2>1, <2>2, <2>3
<1>3. CASE RunSteps
  BY <1>3, RunStepMeans
<1>4. CASE StartPass \/ PlanRun \/ ListJobs \/ ReconcileDeferred \/ FailFast \/ Graph \/ Abort
  BY <1>4 DEF StartPass, PlanRun, ListJobs, ReconcileDeferred, FailFast, Graph, Abort, store
<1> QED
  BY <1>1, <1>2, <1>3, <1>4, NextCases

(* What was known of the call.                                             *)
LEMMA AddedFacts ==
    ASSUME Types, Facts, NEW j, NEW b, CallAdds(j, b)
    PROVE  /\ j \in Jobs /\ j[1] \in Ids /\ j \notin DOMAIN job /\ DOMAIN job' = DOMAIN job \cup {j}
           /\ job'[j] = NewJob(b) /\ b \in BOOLEAN
           /\ \A k \in DOMAIN job : job'[k] = job[k]
           /\ b = FALSE => <<"create", j>> \in Outstanding
           /\ (b = TRUE => ReserveSound(j)) /\ (b = FALSE => CreateSound(j))
           /\ run' = run /\ snap' = With(snap, j, NewJob(b))
           /\ ~ClosedIn(job, j[1])
<1> DEFINE c == Head(todo)
<1>1. c \in Outstanding /\ c[2] = j /\ c \in Calls /\ CallSound(c) /\ run' = run
  BY WriteMeans DEF CallAdds, Facts, CallsSound
<1>2. j \in Jobs /\ Added(j, b) /\ b \in BOOLEAN /\ c[1] = (IF b THEN "reserve" ELSE "create")
  BY DEF CallAdds
<1>3. NewJob(b) \in JobRecord /\ JobMap(job)
  BY <1>2, NewJobFacts DEF Types
<1>4. j \notin DOMAIN job /\ job' = With(job, j, NewJob(b)) /\ snap' = With(snap, j, NewJob(b))
  BY <1>2 DEF Added
<1>5. DOMAIN job' = DOMAIN job \cup {j} /\ job'[j] = NewJob(b) /\ \A k \in DOMAIN job : job'[k] = job[k]
  BY <1>4 DEF With
<1>6. (b = TRUE => ReserveSound(j)) /\ (b = FALSE => CreateSound(j))
  BY <1>1, <1>2 DEF CallSound
<1>7. b = FALSE => <<"create", j>> \in Outstanding
  <2>1. c[1] = "create" => c = <<"create", j>>
    BY <1>1 DEF Calls, Results
  <2> QED
    BY <1>1, <1>2, <2>1
<1>8. ~ClosedIn(job, j[1])
  BY <1>1, <1>2, <1>4, CreatedNotClosed
<1> QED
  BY <1>1, <1>2, <1>4, <1>5, <1>6, <1>7, <1>8 DEF Jobs

LEMMA RevisedFacts ==
    ASSUME Types, Facts, NEW new, CallRevises(new)
    PROVE  LET c == Head(todo)
               j == c[2] IN
           /\ j \in DOMAIN job /\ job[j] = snap[j] /\ DOMAIN job' = DOMAIN job /\ job'[j] = new
           /\ \A k \in DOMAIN job \ {j} : job'[k] = job[k]
           /\ snap' = [snap EXCEPT ![j] = new]
           /\ Revised(c, new) /\ CallSound(c) /\ c \in Outstanding /\ c[1] \in {"ready", "stop"} \cup Results
           /\ run' = run
<1> DEFINE c == Head(todo)
           j == c[2]
<1>1. c \in Outstanding /\ CallSound(c) /\ run' = run /\ Revised(c, new) /\ Updated(j, new) /\ c[1] \in {"ready", "stop"} \cup Results
  BY WriteMeans DEF CallRevises, Facts, CallsSound, Revised
<1>2. j \in DOMAIN job /\ job[j] = snap[j] /\ job' = [job EXCEPT ![j] = new] /\ snap' = [snap EXCEPT ![j] = new]
  BY <1>1 DEF Updated
<1>3. job \in [DOMAIN job -> JobRecord]
  BY DEF Types, JobMap
<1> HIDE DEF c
<1>4. DOMAIN job' = DOMAIN job /\ job'[j] = new /\ \A k \in DOMAIN job \ {j} : job'[k] = job[k]
  BY <1>2, <1>3
<1> QED
  BY <1>1, <1>2, <1>4 DEF c

LEMMA TakingFacts ==
    ASSUME Types, NEW j, Taking(j)
    PROVE  /\ j \in DOMAIN job /\ DOMAIN job' = DOMAIN job /\ \A k \in DOMAIN job \ {j} : job'[k] = job[k]
           /\ job'[j].placeholder = FALSE /\ job[j].placeholder = FALSE /\ job'[j].result = "none" /\ job[j].result = "none"
           /\ job'[j].timedOut = job[j].timedOut
           /\ job'[j].ready = job[j].ready /\ job'[j].reason = job[j].reason /\ job'[j].runner
           /\ Ready(job, j) /\ run' = run /\ rcache' = rcache /\ run.planned = "true" /\ work' = work \cup {j}
<1>1. job \in [DOMAIN job -> JobRecord] /\ j \in DOMAIN job
  BY DEF Types, JobMap, Taking
<1>2. job[j].placeholder = FALSE /\ job[j].result = "none"
  BY <1>1 DEF Taking, Terminal, JobRecord
<1> DEFINE new == [job[j] EXCEPT !.runner = TRUE]
<1>3. new.ready = job[j].ready /\ new.result = job[j].result /\ new.timedOut = job[j].timedOut
      /\ new.runner /\ new.reason = job[j].reason /\ new.placeholder = job[j].placeholder
  BY <1>1, RunnerUpdate
<1>4. job' = [job EXCEPT ![j] = new]
  BY DEF Taking
<1> HIDE DEF new
<1>5. DOMAIN job' = DOMAIN job /\ job'[j] = new /\ \A k \in DOMAIN job \ {j} : job'[k] = job[k]
  BY <1>1, <1>4
<1> QED
  BY <1>1, <1>2, <1>3, <1>5 DEF Taking

LEMMA EndedFacts ==
    ASSUME Types, NEW j, NEW new, Ended(j, new)
    PROVE  /\ j \in DOMAIN job /\ DOMAIN job' = DOMAIN job /\ \A k \in DOMAIN job \ {j} : job'[k] = job[k]
           /\ job'[j] = new /\ ~Terminal(job[j]) /\ job[j].runner
           /\ new.ready = job[j].ready /\ new.runner = job[j].runner /\ new.reason = job[j].reason
           /\ new.placeholder = job[j].placeholder /\ Terminal(new)
           /\ run' = run /\ rcache' = rcache /\ work' \subseteq work
<1>1. job \in [DOMAIN job -> JobRecord] /\ j \in DOMAIN job /\ job' = [job EXCEPT ![j] = new]
  BY DEF Types, JobMap, Ended
<1>2. DOMAIN job' = DOMAIN job /\ job'[j] = new /\ \A k \in DOMAIN job \ {j} : job'[k] = job[k]
  BY <1>1
<1>3. Terminal(new)
  BY DEF Ended, Results, Terminal
<1> QED
  BY <1>1, <1>2, <1>3 DEF Ended

-----------------------------------------------------------------------------
(* The jobs keep what they say of one another.                             *)

LEMMA ShapedStays ==
    ASSUME Types, Facts, Next, gone' = {}
    PROVE  Shaped'
<1>1. wf' = wf /\ Shaped /\ \A id : Expanded(id)' = Expanded(id)
  BY JobsGrow, SameExpanded DEF Facts, JobsTrue
<1>2. CASE job' = job
  BY <1>1, <1>2 DEF Shaped
<1>3. ASSUME NEW j, Taking(j)
      PROVE  Shaped'
  BY <1>1, <1>3, TakingFacts DEF Shaped
<1>4. ASSUME NEW j, NEW new, Ended(j, new)
      PROVE  Shaped'
  BY <1>1, <1>4, EndedFacts DEF Shaped
<1>5. ASSUME NEW j, NEW b, CallAdds(j, b)
      PROVE  Shaped'
  <2>1. NewJob(b).placeholder = b /\ NewJob(b).runner = FALSE
    BY <1>5, AddedFacts, NewJobFacts
  <2>2. /\ b = TRUE => j[2] = 0 /\ j[1] \in wf.deferred
        /\ b = FALSE => j \in Expanded(j[1]) /\ ~(j[1] \in wf.deferred /\ j[1] \in wf.unplannable)
    BY <1>5, AddedFacts DEF ReserveSound, CreateSound
  <2>3. /\ DOMAIN job' = DOMAIN job \cup {j} /\ job'[j].placeholder = b /\ job'[j].runner = FALSE
        /\ b \in BOOLEAN /\ \A k \in DOMAIN job : job'[k] = job[k]
    BY <1>5, <2>1, AddedFacts
  <2> QED
    BY <1>1, <2>2, <2>3 DEF Shaped
<1>6. ASSUME NEW new, CallRevises(new)
      PROVE  Shaped'
  <2> DEFINE j == Head(todo)[2]
  <2>1. /\ j \in DOMAIN job /\ DOMAIN job' = DOMAIN job /\ job'[j] = new
        /\ \A k \in DOMAIN job \ {j} : job'[k] = job[k]
        /\ new.placeholder = job[j].placeholder /\ new.runner = job[j].runner
    BY <1>6, RevisedFacts DEF Revised
  <2> HIDE DEF j
  <2> QED
    BY <1>1, <2>1 DEF Shaped
<1> QED
  BY <1>2, <1>3, <1>4, <1>5, <1>6, JobChanges

(* The list, when there is one, is not newer than the jobs.                *)
LEMMA ListKeeps ==
    ASSUME Types, Facts, Next, gone' = {}, Listed
    PROVE  /\ \A id : NeedsClosed(snap, id) => NeedsClosed(job, id) /\ NeedsClosed(job', id)
           /\ \A id : JustifiedIn(snap, id) => JustifiedIn(job, id) /\ JustifiedIn(job', id)
BY JobsGrow, GrowsKeeps DEF Facts, SnapTrue

LEMMA EndedStays ==
    ASSUME Types, Facts, Next, gone' = {}
    PROVE  EndedIn(job')
<1>1. EndedIn(job) /\ AdmittedJustified
  BY DEF Facts, JobsTrue
<1>2. \A id : NeedsClosed(job, id) => NeedsClosed(job', id)
  BY JobsGrow, GrowsKeeps
<1>3. CASE job' = job
  BY <1>1, <1>3
<1>4. ASSUME NEW j, Taking(j)
      PROVE  EndedIn(job')
  BY <1>1, <1>2, <1>4, TakingFacts DEF EndedIn
<1>5. ASSUME NEW j, NEW new, Ended(j, new)
      PROVE  EndedIn(job')
  <2>1. NeedsClosed(job, j[1])
    BY <1>1, <1>5, EndedFacts DEF AdmittedJustified, Admitted, JustifiedIn
  <2> QED
    BY <1>1, <1>2, <1>5, <2>1, EndedFacts DEF EndedIn
<1>6. ASSUME NEW j, NEW b, CallAdds(j, b)
      PROVE  EndedIn(job')
  <2>1. NewJob(b).result = "none"
    BY <1>6, AddedFacts, NewJobFacts
  <2> QED
    BY <1>1, <1>2, <1>6, <2>1, AddedFacts DEF EndedIn
<1>7. ASSUME NEW new, CallRevises(new)
      PROVE  EndedIn(job')
  <2> DEFINE c == Head(todo)
             j == c[2]
  <2>1. /\ j \in DOMAIN job /\ DOMAIN job' = DOMAIN job /\ job'[j] = new
        /\ \A k \in DOMAIN job \ {j} : job'[k] = job[k]
        /\ CallSound(c) /\ (new.result = job[j].result \/ new.result = c[1])
    BY <1>7, RevisedFacts DEF Revised
  <2> HIDE DEF c
  <2>2. CASE new.result \in {"success", "failure"} /\ new.result = c[1]
    <3>1. Listed /\ NeedsClosed(snap, j[1])
      BY <2>1, <2>2 DEF CallSound
    <3>2. NeedsClosed(job', j[1])
      BY <3>1, ListKeeps
    <3> QED
      BY <1>1, <1>2, <2>1, <3>2 DEF EndedIn
  <2>3. CASE ~(new.result \in {"success", "failure"} /\ new.result = c[1])
    BY <1>1, <1>2, <2>1, <2>3 DEF EndedIn
  <2> QED
    BY <2>2, <2>3
<1> QED
  BY <1>3, <1>4, <1>5, <1>6, <1>7, JobChanges

LEMMA AllNeedsClosed ==
    ASSUME Types, NEW f, AllClosed(f), NEW id \in Ids
    PROVE  NeedsClosed(f, id)
BY WorkflowFacts DEF Types, AllClosed, NeedsClosed

LEMMA OpenedStays ==
    ASSUME Types, Facts, Next, gone' = {}
    PROVE  OpenedIn(job)'
<1>1. OpenedIn(job) /\ wf' = wf /\ CopyTrue(rc)
  BY JobsGrow DEF Facts, JobsTrue
<1>2. \A id : NeedsClosed(job, id) => NeedsClosed(job', id)
  BY JobsGrow, GrowsKeeps
<1>3. Early => Early' \/ (AllClosed(job) /\ job' = job)
  BY EarlyStays
<1>4. ASSUME NEW j \in DOMAIN job, j[1] \in wf.deferred
      PROVE  NeedsClosed(job', j[1]) \/ Early'
  <2>1. NeedsClosed(job, j[1]) \/ Early
    BY <1>1, <1>4 DEF OpenedIn
  <2>2. AllClosed(job) => NeedsClosed(job, j[1])
    BY <1>4, WorkflowFacts, AllNeedsClosed DEF Types
  <2> QED
    BY <1>2, <1>3, <2>1, <2>2
<1>5. ASSUME NEW j, NEW b, CallAdds(j, b), j[1] \in wf.deferred
      PROVE  NeedsClosed(job', j[1]) \/ Early'
  <2>1. Listed /\ run' = run /\ ~ClosedIn(job, j[1]) /\ j[1] \in Ids
        /\ (NeedsClosed(snap, j[1]) \/ CancelledBeforeConcurrency)
    BY <1>5, AddedFacts DEF ReserveSound, CreateSound, Listed
  <2>2. CancelledBeforeConcurrency => Early
    BY <1>1, <2>1 DEF CopyTrue, CancelledBeforeConcurrency, AllClosed
  <2>3. Early => Early'
    BY <2>1 DEF Early
  <2> QED
    BY <2>1, <2>2, <2>3, ListKeeps
<1>6. \A j \in DOMAIN job' \ DOMAIN job : \E b : CallAdds(j, b)
  <2>1. ASSUME NEW j, NEW b, CallAdds(j, b)
        PROVE  \A k \in DOMAIN job' \ DOMAIN job : \E a : CallAdds(k, a)
    <3>1. DOMAIN job' = DOMAIN job \cup {j}
      BY <2>1, AddedFacts
    <3>2. \A k \in DOMAIN job' \ DOMAIN job : k = j
      BY <3>1
    <3> QED
      BY <2>1, <3>2, Zenon
  <2>2. CASE \A j, b : ~CallAdds(j, b)
    BY <2>2, JobChanges, TakingFacts, EndedFacts, RevisedFacts
  <2> QED
    BY <2>1, <2>2
<1>7. \A j \in DOMAIN job' : j[1] \in wf.deferred => NeedsClosed(job', j[1]) \/ Early'
  BY <1>4, <1>5, <1>6
<1> QED
  BY <1>1, <1>7, SameForJob DEF OpenedIn

(* A job that needs nothing and has no condition is always justified.      *)
LEMMA FreeJustified ==
    ASSUME NEW f, NEW id, wf.needs[id] = {}, wf.cond[id] = "none"
    PROVE  JustifiedIn(f, id)
<1>1. Ancestors(id) = {}
  <2>1. {} \in SUBSET Ids /\ wf.needs[id] \subseteq {} /\ \A x \in {} : wf.needs[x] \subseteq {}
    OBVIOUS
  <2> QED
    BY <2>1 DEF Ancestors
<1> QED
  BY <1>1 DEF JustifiedIn, NeedsClosed

LEMMA AdmittedStays ==
    ASSUME Types, Facts, Next, gone' = {}
    PROVE  AdmittedJustified'
<1>1. AdmittedJustified /\ wf' = wf
  BY JobsGrow DEF Facts, JobsTrue
<1>2. \A id : JustifiedIn(job, id) => JustifiedIn(job', id)
  BY JobsGrow, GrowsKeeps
<1> DEFINE Good(j) == job'[j].runner \/ job'[j].ready = "true" => JustifiedIn(job', j[1])
<1>3. \A j \in DOMAIN job : job'[j].runner = job[j].runner /\ job'[j].ready = job[j].ready => Good(j)
  BY <1>1, <1>2 DEF AdmittedJustified, Admitted
<1>4. SUFFICES \A j \in DOMAIN job' : Good(j)
  BY <1>1, SameForJob DEF AdmittedJustified, Admitted
<1>5. CASE job' = job
  BY <1>3, <1>5
<1>6. ASSUME NEW j, Taking(j)
      PROVE  \A k \in DOMAIN job' : Good(k)
  <2>1. /\ j \in DOMAIN job /\ DOMAIN job' = DOMAIN job /\ Ready(job, j)
        /\ \A k \in DOMAIN job \ {j} : job'[k] = job[k]
    BY <1>6, TakingFacts
  <2>2. JustifiedIn(job, j[1])
    BY <1>1, <2>1, FreeJustified DEF Ready, AdmittedJustified, Admitted, Logical
  <2> QED
    BY <1>2, <1>3, <2>1, <2>2
<1>7. ASSUME NEW j, NEW new, Ended(j, new)
      PROVE  \A k \in DOMAIN job' : Good(k)
  BY <1>3, <1>7, EndedFacts
<1>8. ASSUME NEW j, NEW b, CallAdds(j, b)
      PROVE  \A k \in DOMAIN job' : Good(k)
  <2>1. NewJob(b).ready = "none" /\ NewJob(b).runner = FALSE
    BY <1>8, AddedFacts, NewJobFacts
  <2>2. DOMAIN job' = DOMAIN job \cup {j} /\ job'[j] = NewJob(b) /\ \A k \in DOMAIN job : job'[k] = job[k]
    BY <1>8, AddedFacts
  <2> QED
    BY <1>3, <2>1, <2>2
<1>9. ASSUME NEW new, CallRevises(new)
      PROVE  \A k \in DOMAIN job' : Good(k)
  <2> DEFINE c == Head(todo)
             j == c[2]
  <2>1. /\ j \in DOMAIN job /\ DOMAIN job' = DOMAIN job /\ job'[j] = new
        /\ \A k \in DOMAIN job \ {j} : job'[k] = job[k]
        /\ CallSound(c) /\ new.runner = job[j].runner
        /\ new.ready = "true" => job[j].ready = "true" \/ (c[1] = "ready" /\ c[3] = "true")
    BY <1>9, RevisedFacts DEF Revised
  <2> HIDE DEF c
  <2>2. c[1] = "ready" /\ c[3] = "true" => JustifiedIn(job', j[1])
    BY <2>1, ListKeeps DEF CallSound
  <2>3. job[j].runner \/ job[j].ready = "true" => JustifiedIn(job', j[1])
    BY <1>1, <1>2, <2>1 DEF AdmittedJustified, Admitted
  <2>4. Good(j)
    BY <2>1, <2>2, <2>3
  <2> QED
    BY <1>3, <2>1, <2>4
<1> QED
  BY <1>5, <1>6, <1>7, <1>8, <1>9, JobChanges

(* A call for the needs ConfigMap never finds another snapshot.            *)
LEMMA NeedsFound ==
    ASSUME Types, Facts, NEW j, CreateNeeds(j), CallSound(<<"needs", j>>), j \in Jobs
    PROVE  /\ Advance /\ UNCHANGED <<job, plan, snap>>
           /\ j[1] \in Ids /\ NeedsClosed(job, j[1])
           /\ needs' = IF j \in DOMAIN needs THEN needs ELSE With(needs, j, NeedsContext(job, j[1]))
<1>1. Listed /\ NeedsClosed(snap, j[1])
  BY DEF CallSound
<1>2. NeedsClosed(job, j[1]) /\ NeedsContext(job, j[1]) = NeedsContext(snap, j[1])
  BY <1>1, GrowsKeeps DEF Facts, SnapTrue
<1>3. needs' = IF j \in DOMAIN needs THEN needs ELSE With(needs, j, NeedsContext(job, j[1]))
  BY <1>2 DEF CreateNeeds, Logical
<1>4. j \in DOMAIN needs => needs[j] = NeedsContext(job, j[1])
  BY DEF Facts, JobsTrue, NeedsTrue
<1>5. needs'[j] = NeedsContext(snap, j[1])
  BY <1>2, <1>3, <1>4 DEF With
<1>6. Advance
  BY <1>5 DEF CreateNeeds, Logical
<1> QED
  BY <1>2, <1>3, <1>6 DEF CreateNeeds, Jobs

LEMMA NeedsStay ==
    ASSUME Types, Facts, Next, gone' = {}
    PROVE  NeedsTrue'
<1>1. NeedsTrue /\ wf' = wf /\ Ids' = Ids
  BY JobsGrow, SameJobs DEF Facts, JobsTrue
<1>2. \A id : NeedsClosed(job, id) => NeedsClosed(job', id) /\ NeedsContext(job', id) = NeedsContext(job, id)
  BY JobsGrow, GrowsKeeps
<1> DEFINE True(m) == \A j \in DOMAIN m : j[1] \in Ids /\ NeedsClosed(job', j[1]) /\ m[j] = NeedsContext(job', j[1])
<1>3. True(needs)
  BY <1>1, <1>2 DEF NeedsTrue
<1>4. True(needs')
  <2>1. CASE UNCHANGED needs
    BY <1>3, <2>1
  <2>2. ASSUME NEW j \in Jobs, Write, Head(todo) = <<"needs", j>>, CreateNeeds(j)
        PROVE  True(needs')
    <3>1. CallSound(<<"needs", j>>)
      BY <2>2, WriteMeans DEF Facts, CallsSound
    <3>2. j[1] \in Ids /\ NeedsClosed(job, j[1]) /\ needs' = IF j \in DOMAIN needs THEN needs ELSE With(needs, j, NeedsContext(job, j[1]))
      BY <2>2, <3>1, NeedsFound
    <3>3. NeedsClosed(job', j[1]) /\ NeedsContext(job', j[1]) = NeedsContext(job, j[1])
      BY <1>2, <3>2
    <3>4. DOMAIN With(needs, j, NeedsContext(job, j[1])) = DOMAIN needs \cup {j}
          /\ \A k \in DOMAIN needs \cup {j} :
               With(needs, j, NeedsContext(job, j[1]))[k] = IF k = j THEN NeedsContext(job, j[1]) ELSE needs[k]
      BY DEF With
    <3> QED
      BY <1>3, <3>2, <3>3, <3>4
  <2>3. CASE Write
    <3> DEFINE c == Head(todo)
    <3>1. c \in Calls /\ c[2] \in Jobs /\ (UNCHANGED needs \/ (c[1] = "needs" /\ CreateNeeds(c[2])))
      BY <2>3, WriteMeans DEF Refused, Dropped, Taken, Added, CreatePlan, Revised, Updated
    <3>2. c[1] = "needs" => c = <<"needs", c[2]>>
      BY <3>1 DEF Calls, Results
    <3> QED
      BY <2>1, <2>2, <2>3, <3>1, <3>2
  <2>4. CASE Environment
    BY <2>1, <2>4, EnvironmentCases
  <2>5. CASE RunSteps
    BY <2>1, <2>5, RunStepMeans
  <2>6. CASE StartPass \/ PlanRun \/ ListJobs \/ ReconcileDeferred \/ FailFast \/ Graph \/ Abort
    BY <2>1, <2>6 DEF StartPass, PlanRun, ListJobs, ReconcileDeferred, FailFast, Graph, Abort, store
  <2> QED
    BY <2>3, <2>4, <2>5, <2>6, NextCases
<1>5. \A j \in DOMAIN job' : job'[j].reason # "PlanUnavailable"
  <2>1. \A j \in DOMAIN job : job[j].reason # "PlanUnavailable"
    BY <1>1 DEF NeedsTrue
  <2>2. ASSUME NEW j, Taking(j)
        PROVE  \A k \in DOMAIN job' : job'[k].reason # "PlanUnavailable"
    <3>1. /\ j \in DOMAIN job /\ DOMAIN job' = DOMAIN job /\ job'[j].reason = job[j].reason
          /\ \A k \in DOMAIN job \ {j} : job'[k] = job[k]
      BY <2>2, TakingFacts
    <3> QED
      BY <2>1, <3>1
  <2>3. ASSUME NEW j, NEW new, Ended(j, new)
        PROVE  \A k \in DOMAIN job' : job'[k].reason # "PlanUnavailable"
    BY <2>1, <2>3, EndedFacts
  <2>4. ASSUME NEW j, NEW b, CallAdds(j, b)
        PROVE  \A k \in DOMAIN job' : job'[k].reason # "PlanUnavailable"
    <3>1. NewJob(b).reason = "none"
      BY <2>4, AddedFacts, NewJobFacts
    <3>2. DOMAIN job' = DOMAIN job \cup {j} /\ job'[j] = NewJob(b) /\ \A k \in DOMAIN job : job'[k] = job[k]
      BY <2>4, AddedFacts
    <3> QED
      BY <2>1, <3>1, <3>2
  <2>5. ASSUME NEW new, CallRevises(new)
        PROVE  \A k \in DOMAIN job' : job'[k].reason # "PlanUnavailable"
    <3> DEFINE c == Head(todo)
               j == c[2]
    <3>1. /\ j \in DOMAIN job /\ DOMAIN job' = DOMAIN job /\ job'[j] = new
          /\ \A k \in DOMAIN job \ {j} : job'[k] = job[k]
          /\ CallSound(c) /\ (new.reason = job[j].reason \/ (c[1] \in Results /\ new.reason = c[3]))
      BY <2>5, RevisedFacts DEF Revised
    <3> HIDE DEF c
    <3> QED
      BY <2>1, <3>1 DEF CallSound
  <2> QED
    BY <2>1, <2>2, <2>3, <2>4, <2>5, JobChanges
<1> QED
  BY <1>1, <1>4, <1>5, SameForJob DEF NeedsTrue

LEMMA CopiesStay ==
    ASSUME Types, Facts, Next, gone' = {}
    PROVE  CopyTrue(rcache)' /\ CopyTrue(rc)'
<1>1. CopyTrue(rcache) /\ CopyTrue(rc) /\ wf' = wf
  BY JobsGrow DEF Facts, JobsTrue
<1>2. rcache' \in {rcache, run} /\ rc' \in {rc, rcache}
  <2>1. CASE Environment
    BY <2>1, EnvironmentCases
  <2>2. CASE RunSteps
    BY <2>2, RunStepMeans
  <2>3. CASE Write
    BY <2>3, WriteMeans
  <2>4. CASE StartPass \/ PlanRun \/ ListJobs \/ ReconcileDeferred \/ FailFast \/ Graph \/ Abort
    BY <2>4 DEF StartPass, PlanRun, ListJobs, ReconcileDeferred, FailFast, Graph, Abort, EndPass
  <2> QED
    BY <2>1, <2>2, <2>3, <2>4, NextCases
<1>3. Early \/ AllClosed(job) => Early' \/ AllClosed(job')
  BY EarlyStays, JobsGrow, GrowsKeeps
<1>4. CopyTrue(run)
  BY DEF CopyTrue, Early
<1>5. \A r : CopyTrue(r) /\ r.cancel /\ r.planned = "waiting" => Early' \/ AllClosed(job)'
  BY <1>1, <1>3, SameForJob DEF CopyTrue
<1> QED
  BY <1>1, <1>2, <1>4, <1>5 DEF CopyTrue

LEMMA JobsTrueStays ==
    ASSUME Types, Facts, Next, gone' = {}
    PROVE  JobsTrue'
BY ShapedStays, EndedStays, OpenedStays, AdmittedStays, NeedsStay, CopiesStay, JobsGrow, SameForJob DEF JobsTrue

-----------------------------------------------------------------------------
(* Where a call leaves the reconcile.                                      *)

LEMMA AdvanceFacts ==
    ASSUME Types, pc = "write", todo # <<>>, Advance
    PROVE  /\ UNCHANGED <<rc, goal, visit, pend, expd>>
           /\ Outstanding' \subseteq Outstanding
           /\ \A c \in Outstanding : c = Head(todo) \/ c \in Outstanding'
           /\ pc' \in {"write", goal} /\ (pc' # "write" => Outstanding' = {})
           /\ (Deferring' <=> Deferring) /\ (Graphing' <=> Graphing) /\ (Ending' => Ending) /\ (Listed' => Listed)
           /\ Creating' => Creating
           /\ pc' = "gate" => Creating
<1>1. /\ todo' = Tail(todo) /\ pc' = (IF Len(todo) = 1 THEN goal ELSE "write")
      /\ UNCHANGED <<rc, goal, visit, pend, expd>>
  BY DEF Advance
<1>2. /\ \A c \in Outstanding : c = Head(todo) \/ \E i \in DOMAIN Tail(todo) : Tail(todo)[i] = c
      /\ \A i \in DOMAIN Tail(todo) : Tail(todo)[i] \in Outstanding
      /\ Len(todo) = 1 => Tail(todo) = <<>>
  BY TailFacts DEF Types
<1>3. Outstanding' = {Tail(todo)[i] : i \in DOMAIN Tail(todo)}
  BY <1>1 DEF Outstanding
<1>4. /\ Outstanding' \subseteq Outstanding
      /\ \A c \in Outstanding : c = Head(todo) \/ c \in Outstanding'
  BY <1>2, <1>3
<1>5. pc' # "write" => Outstanding' = {}
  <2>1. DOMAIN <<>> = {}
    OBVIOUS
  <2> QED
    BY <1>1, <1>2, <1>3, <2>1
<1>6. goal \in {"idle", "gate", "deferred", "graph"}
  BY DEF Types
<1>7. /\ (Deferring' <=> Deferring) /\ (Graphing' <=> Graphing) /\ (Ending' => Ending)
      /\ (Creating' => Creating) /\ (pc' = "gate" => Creating)
  BY <1>1, <1>6 DEF Deferring, Graphing, Ending, Creating
<1> QED
  BY <1>1, <1>4, <1>5, <1>7 DEF Listed

(* Each call, with what it leaves.                                         *)
LEMMA WriteSteps ==
    ASSUME Types, Facts, Write
    PROVE  LET c == Head(todo) IN
           \/ EndPass /\ UNCHANGED <<job, plan, needs>>
           \/ /\ Advance /\ todo # <<>> /\ pc = "write" /\ c \in Calls /\ c \in Outstanding /\ CallSound(c)
              /\ plan \subseteq plan'
              /\ c[1] \in {"create", "reserve"} => c[2] \in DOMAIN job' /\ c[2] \in DOMAIN snap'
              /\ c[1] = "plan" => c[2] \in plan'
<1> DEFINE c == Head(todo)
           j == c[2]
<1>1. /\ pc = "write" /\ c \in Calls /\ c \in Outstanding /\ todo # <<>> /\ CallSound(c) /\ j \in Jobs
  BY WriteMeans DEF Write, Facts, CallsSound
<1>2. c[1] = "needs" => c = <<"needs", j>>
  BY <1>1 DEF Calls, Results
<1> DEFINE Goal == /\ Advance /\ plan \subseteq plan'
                   /\ c[1] \in {"create", "reserve"} => j \in DOMAIN job' /\ j \in DOMAIN snap'
                   /\ c[1] = "plan" => j \in plan'
<1> SUFFICES (EndPass /\ UNCHANGED <<job, plan, needs>>) \/ Goal
  BY <1>1
<1>3. CASE Refused
  BY <1>3 DEF Refused
<1>4. CASE Dropped /\ c[1] \notin {"create", "reserve", "plan", "needs"}
  BY <1>4 DEF Dropped
<1>5. ASSUME NEW b \in BOOLEAN, c[1] = (IF b THEN "reserve" ELSE "create"), Taken(j, b)
      PROVE  Goal
  BY <1>5 DEF Taken, With
<1>6. ASSUME NEW b \in BOOLEAN, c[1] = (IF b THEN "reserve" ELSE "create"), Added(j, b)
      PROVE  Goal
  BY <1>6 DEF Added, With
<1>7. CASE c[1] = "plan" /\ CreatePlan(j)
  BY <1>7 DEF CreatePlan
<1>8. CASE c[1] = "needs" /\ CreateNeeds(j)
  BY <1>1, <1>2, <1>8, NeedsFound
<1>9. ASSUME NEW new, Revised(c, new), c[1] \in {"ready", "stop"} \cup Results
      PROVE  Goal
  BY <1>9 DEF Revised, Updated, Results
<1> QED
  BY <1>3, <1>4, <1>5, <1>6, <1>7, <1>8, <1>9, WriteMeans

-----------------------------------------------------------------------------
(* The jobs that do not wait for planning.                                 *)

LEMMA PlanRunFacts ==
    ASSUME Types, PlanRun
    PROVE  /\ pc = "plan" /\ pc' = "write" /\ goal' = "gate"
           /\ \A c \in Outstanding' : \E j \in ExpectedAtFirst : c = <<"create", j>> \/ c = <<"plan", j>>
           /\ \A j \in ExpectedAtFirst : <<"create", j>> \in Outstanding' /\ <<"plan", j>> \in Outstanding'
           /\ UNCHANGED <<wf, run, rcache, job, plan, needs, work, newer, gone, rc, snap, visit, pend, expd, faults>>
<1> DEFINE calls == Creation(ExpectedAtFirst)
<1>1. ExpectedAtFirst \in SUBSET Jobs /\ IsFiniteSet(ExpectedAtFirst)
  BY ExpectedFacts DEF Types
<1>2. /\ \A i \in DOMAIN calls : \E j \in ExpectedAtFirst : calls[i] = <<"create", j>> \/ calls[i] = <<"plan", j>>
      /\ \A j \in ExpectedAtFirst : /\ \E i \in DOMAIN calls : calls[i] = <<"create", j>>
                                    /\ \E i \in DOMAIN calls : calls[i] = <<"plan", j>>
  BY <1>1, CreationFacts DEF Types
<1>3. todo' = calls
  BY DEF PlanRun, ExpectedAtFirst
<1> HIDE DEF calls
<1>4. Outstanding' = {calls[i] : i \in DOMAIN calls}
  BY <1>3 DEF Outstanding
<1>5. /\ \A c \in Outstanding' : \E j \in ExpectedAtFirst : c = <<"create", j>> \/ c = <<"plan", j>>
      /\ \A j \in ExpectedAtFirst : <<"create", j>> \in Outstanding' /\ <<"plan", j>> \in Outstanding'
  BY <1>2, <1>4
<1> QED
  BY <1>5 DEF PlanRun, store

LEMMA ExpectedStays ==
    ASSUME Types, Facts, Next, gone' = {}
    PROVE  ExpectedThere'
<1>1. ExpectedThere /\ wf' = wf /\ DOMAIN job \subseteq DOMAIN job' /\ ExpectedAtFirst' = ExpectedAtFirst
  BY JobsGrow, SameExpanded DEF Facts, Grows
<1> DEFINE E == ExpectedAtFirst
           There == E \subseteq DOMAIN job /\ E \subseteq plan
<1>2. Created => There
  BY <1>1 DEF ExpectedThere
<1> HIDE DEF E
(* A step that makes no plan and starts no creation.                       *)
<1>3. ASSUME plan' = plan, Created' => Created, ~Creating'
      PROVE  ExpectedThere'
  BY <1>1, <1>2, <1>3 DEF ExpectedThere, E
<1>4. CASE Environment
  <2>1. UNCHANGED <<plan, pc, goal, todo, rc>> /\ run'.planned = run.planned /\ rcache' \in {rcache, run}
    BY <1>4, EnvironmentCases
  <2>2. (Created' => Created) /\ (Creating' <=> Creating) /\ Outstanding' = Outstanding
    BY <2>1 DEF Created, Creating, Listed, Deferring, Graphing, Ending, Outstanding
  <2> QED
    BY <1>1, <2>1, <2>2 DEF ExpectedThere
<1>5. CASE RunSteps
  <2>1. plan' = plan /\ rcache' = rcache /\ rc' = rc
    BY <1>5, RunStepMeans
  <2>2. CASE UNCHANGED run
    <3>1. (Created' => Created) /\ ~Creating'
      BY <1>5, <2>1, <2>2, RunStepMeans DEF Created, Creating, Listed, Deferring, Graphing, Ending, EndPass, RunWritten
    <3> QED
      BY <1>3, <2>1, <3>1
  <2>3. CASE EndPass /\ RunWritten
    <3>1. (Created' => Created) /\ ~Creating'
      BY <2>1, <2>3 DEF Created, Creating, Listed, Deferring, Graphing, Ending, EndPass, RunWritten
    <3> QED
      BY <1>3, <2>1, <3>1
  <2> QED
    BY <1>5, <2>2, <2>3, RunStepMeans
<1>6. CASE Abort
  <2>1. plan' = plan /\ UNCHANGED <<run, rcache, rc>> /\ pc' = "idle"
    BY <1>6 DEF Abort, EndPass, store
  <2> QED
    BY <1>3, <2>1 DEF Created, Creating, Listed, Deferring, Graphing, Ending
<1>7. CASE StartPass
  <2>1. plan' = plan /\ UNCHANGED <<run, rcache>> /\ rc' = rcache
        /\ (pc' = "approval" \/ (pc' \in {"list", "gate"} /\ rcache.planned \in {"waiting", "true"}))
    BY <1>7 DEF StartPass, store
  <2> QED
    BY <1>3, <2>1 DEF Created, Creating, Listed, Deferring, Graphing, Ending
<1>8. CASE PlanRun
  <2>1. UNCHANGED <<run, rcache, rc, plan, job>> /\ pc' = "write" /\ goal' = "gate"
        /\ \A j \in E : <<"create", j>> \in Outstanding' /\ <<"plan", j>> \in Outstanding'
    BY <1>8, PlanRunFacts DEF E
  <2>2. Created' => Created
    BY <2>1 DEF Created, Listed, Deferring, Graphing, Ending
  <2> QED
    BY <1>1, <1>2, <2>1, <2>2 DEF ExpectedThere, E
<1>9. CASE ListJobs \/ ReconcileDeferred \/ FailFast \/ Graph
  <2>1. plan' = plan /\ Created
    BY <1>9 DEF ListJobs, ReconcileDeferred, FailFast, Graph, store, Created, Listed, Deferring, Graphing
  <2>2. ~Creating'
    <3>1. CASE ListJobs
      BY <3>1, ListJobsFacts DEF Creating
    <3>2. CASE FailFast
      BY <3>2, FailFastFacts DEF Creating
    <3>3. CASE Graph
      BY <3>3, GraphFacts DEF Creating
    <3>4. CASE ReconcileDeferred
      BY <3>4, DeferredCases, ConcludingFacts, PlanningFacts DEF Creating, Types
    <3> QED
      BY <1>9, <3>1, <3>2, <3>3, <3>4
  <2> QED
    BY <1>3, <2>1, <2>2
<1>10. CASE Write
  <2>1. UNCHANGED <<run, rcache, rc>>
    BY <1>10, WriteMeans
  <2>2. CASE EndPass /\ UNCHANGED <<job, plan, needs>>
    BY <1>3, <2>1, <2>2 DEF EndPass, Created, Creating, Listed, Deferring, Graphing, Ending
  <2> DEFINE c == Head(todo)
  <2>3. CASE /\ Advance /\ todo # <<>> /\ pc = "write" /\ c \in Calls /\ plan \subseteq plan'
             /\ c[1] \in {"create", "reserve"} => c[2] \in DOMAIN job' /\ c[2] \in DOMAIN snap'
             /\ c[1] = "plan" => c[2] \in plan'
    <3>1. /\ \A d \in Outstanding : d = c \/ d \in Outstanding'
          /\ (pc' # "write" => Outstanding' = {}) /\ (Listed' => Listed) /\ (Creating' => Creating)
          /\ (pc' = "gate" => Creating) /\ pc' \in {"write", goal} /\ goal' = goal
      BY <2>3, AdvanceFacts
    <3>2. pc' # "list"
      BY <3>1 DEF Types
    <3>3. ASSUME NEW j \in E, Creating
          PROVE  /\ j \in DOMAIN job' \/ <<"create", j>> \in Outstanding'
                 /\ j \in plan' \/ <<"plan", j>> \in Outstanding'
      <4>1. /\ j \in DOMAIN job \/ <<"create", j>> \in Outstanding
            /\ j \in plan \/ <<"plan", j>> \in Outstanding
        BY <1>1, <3>3 DEF ExpectedThere, E
      <4>2. CASE c = <<"create", j>>
        BY <1>1, <2>3, <3>1, <4>1, <4>2
      <4>3. CASE c = <<"plan", j>>
        BY <1>1, <2>3, <3>1, <4>1, <4>3
      <4>4. CASE c # <<"create", j>> /\ c # <<"plan", j>>
        BY <1>1, <2>3, <3>1, <4>1, <4>4
      <4> QED
        BY <4>2, <4>3, <4>4
    <3>4. Created' => Created \/ (Creating /\ pc' # "write")
      BY <2>1, <3>1, <3>2 DEF Created
    <3>5. CASE Creating /\ pc' # "write"
      <4>1. E \subseteq DOMAIN job' /\ E \subseteq plan'
        BY <3>1, <3>3, <3>5
      <4> QED
        BY <1>1, <3>5, <4>1 DEF ExpectedThere, E, Creating
    <3>6. CASE Created
      <4>1. E \subseteq DOMAIN job' /\ E \subseteq plan'
        BY <1>1, <1>2, <2>3, <3>6
      <4> QED
        BY <1>1, <4>1 DEF ExpectedThere, E
    <3>7. CASE ~Created /\ ~(Creating /\ pc' # "write")
      BY <1>1, <3>1, <3>3, <3>4, <3>7 DEF ExpectedThere, E
    <3> QED
      BY <3>5, <3>6, <3>7
  <2> QED
    BY <1>10, <2>2, <2>3, WriteSteps
<1> QED
  BY <1>4, <1>5, <1>6, <1>7, <1>8, <1>9, <1>10, NextCases

-----------------------------------------------------------------------------
(* The list stays a list of the jobs.                                      *)

LEMMA GrowsOn ==
    ASSUME NEW f, NEW g, NEW h, Grows(f, g), Grows(g, h)
    PROVE  Grows(f, h)
<1>1. \A id : ClosedIn(f, id) => ClosedIn(g, id)
  BY GrowsKeeps
<1>2. \A j \in DOMAIN f : /\ h[j].placeholder = f[j].placeholder /\ j \in DOMAIN h
                          /\ Terminal(f[j]) => h[j].result = f[j].result /\ h[j].timedOut = f[j].timedOut
  BY DEF Grows, Terminal
<1>3. \A j \in DOMAIN h \ DOMAIN f : ~ClosedIn(f, j[1])
  BY <1>1 DEF Grows
<1> QED
  BY <1>2, <1>3 DEF Grows

(* Which steps there are while there is a list.                            *)
LEMMA ListedSteps ==
    ASSUME Types, Facts, Next, Listed'
    PROVE  \/ ListJobs
           \/ Listed /\ (ReconcileDeferred \/ FailFast \/ Graph)
           \/ Listed /\ Write /\ Advance /\ ~Refused
           \/ Listed /\ Environment
<1>1. CASE RunSteps \/ PlanRun \/ StartPass \/ Abort
  BY <1>1, RunStepMeans, PlanRunFacts DEF StartPass, Abort, EndPass, Listed, Deferring, Graphing, Ending
<1>2. CASE ReconcileDeferred \/ FailFast \/ Graph
  BY <1>2 DEF ReconcileDeferred, FailFast, Graph, Listed, Deferring, Graphing
<1>3. CASE Write
  <2>1. ~EndPass
    BY DEF EndPass, Listed, Deferring, Graphing, Ending
  <2>2. Advance /\ todo # <<>> /\ pc = "write"
    BY <1>3, <2>1, WriteSteps
  <2> QED
    BY <1>3, <2>1, <2>2, AdvanceFacts DEF Refused
<1>4. CASE Environment
  <2>1. UNCHANGED <<pc, goal>>
    BY <1>4 DEF Environment, Sync, Cancel, Approve, NewRevision, Assign, Finish, StopPod, DeleteJob, local
  <2> QED
    BY <1>4, <2>1 DEF Listed, Deferring, Graphing, Ending
<1> QED
  BY <1>1, <1>2, <1>3, <1>4, NextCases

LEMMA SnapStays ==
    ASSUME Types, Facts, Next, gone' = {}
    PROVE  SnapTrue'
<1> SUFFICES ASSUME Listed'
             PROVE  /\ DOMAIN snap' = DOMAIN job' /\ Grows(snap', job')
                    /\ \A j \in DOMAIN snap' : snap'[j].placeholder => snap'[j].result = job'[j].result
                    /\ EndedIn(snap')
                    /\ \A j \in DOMAIN snap' : j[1] \in wf.deferred => NeedsClosed(snap', j[1]) \/ Early'
  BY JobsGrow, SameForList DEF SnapTrue, OpenedIn
<1>1. /\ wf' = wf /\ JobsTrue /\ JobsTrue' /\ (Early => Early') /\ EndedIn(job') /\ Grows(job, job')
      /\ JobMap(job) /\ JobMap(snap)
  BY JobsGrow, JobsTrueStays, EarlyStays, EndedStays DEF Facts, Types
<1>2. Listed => SnapTrue
  BY DEF Facts
<1>3. CASE ListJobs
  <2>1. snap' = job /\ job' = job
    BY <1>3, ListJobsFacts
  <2>2. \A j \in DOMAIN job : j[1] \in wf.deferred => NeedsClosed(job, j[1]) \/ Early'
    BY <1>1 DEF JobsTrue, OpenedIn
  <2>3. EndedIn(job) /\ Grows(job, job)
    BY <1>1, GrowsSelf DEF JobsTrue
  <2> QED
    BY <2>1, <2>2, <2>3
<1>4. CASE Listed /\ (ReconcileDeferred \/ FailFast \/ Graph)
  <2>1. snap' = snap /\ job' = job
    BY <1>4 DEF ReconcileDeferred, FailFast, Graph, store
  <2> QED
    BY <1>1, <1>2, <1>4, <2>1 DEF SnapTrue, OpenedIn
<1>5. CASE Listed /\ Environment
  <2>1. snap' = snap
    BY <1>5, EnvironmentCases
  <2>2. DOMAIN job' = DOMAIN job
    BY <1>5, EnvironmentCases, TakingFacts, EndedFacts
  <2>3. \A j \in DOMAIN job : job[j].placeholder => job'[j].result = job[j].result
    <3>1. ASSUME NEW j, NEW new, Ended(j, new)
          PROVE  \A k \in DOMAIN job : job[k].placeholder => job'[k].result = job[k].result
      <4>1. ~job[j].placeholder
        BY <1>1, <3>1, EndedFacts DEF JobsTrue, Shaped
      <4> QED
        BY <3>1, <4>1, EndedFacts
    <3>2. ASSUME NEW j, Taking(j)
          PROVE  \A k \in DOMAIN job : job[k].placeholder => job'[k].result = job[k].result
      BY <3>2, TakingFacts
    <3> QED
      BY <1>5, <3>1, <3>2, EnvironmentCases
  <2>4. Grows(snap, job')
    BY <1>1, <1>2, <1>5, GrowsOn DEF SnapTrue
  <2>5. \A j \in DOMAIN snap : snap[j].placeholder = job[j].placeholder
    BY <1>2, <1>5 DEF SnapTrue, Grows
  <2> QED
    BY <1>1, <1>2, <1>5, <2>1, <2>2, <2>3, <2>4, <2>5 DEF SnapTrue, OpenedIn
<1>6. CASE Listed /\ Write /\ Advance /\ ~Refused
  <2> DEFINE c == Head(todo)
             j == c[2]
  <2>1. DOMAIN snap' = DOMAIN job' /\ Grows(snap, snap') /\ Grows(snap', job')
    BY <1>6, WriteGrows
  <2>2. \A id : NeedsClosed(snap, id) => NeedsClosed(snap', id)
    BY <2>1, GrowsKeeps
  <2>3. DOMAIN snap = DOMAIN job /\ Grows(snap, job) /\ EndedIn(snap) /\ EndedIn(job)
        /\ (\A k \in DOMAIN snap : snap[k].placeholder => snap[k].result = job[k].result)
        /\ \A k \in DOMAIN snap : k[1] \in wf.deferred => NeedsClosed(snap, k[1]) \/ Early
    BY <1>1, <1>2, <1>6 DEF SnapTrue, JobsTrue, OpenedIn
  <2>4. c \in Calls /\ CallSound(c) /\ run' = run
    BY <1>6, WriteMeans DEF Facts, CallsSound
  <2>5. CASE job' = job /\ snap' = snap
    BY <1>1, <2>1, <2>2, <2>3, <2>5
  <2>6. ASSUME NEW b \in BOOLEAN, c[1] = (IF b THEN "reserve" ELSE "create"), Taken(j, b)
        PROVE  /\ \A k \in DOMAIN snap' : snap'[k].placeholder => snap'[k].result = job'[k].result
               /\ \A k \in DOMAIN snap' : snap'[k].result \in {"success", "failure"} => NeedsClosed(snap', k[1])
               /\ \A k \in DOMAIN snap' : k[1] \in wf.deferred => NeedsClosed(snap', k[1]) \/ Early'
    <3>1. /\ j \in DOMAIN job /\ job[j].placeholder = b /\ snap' = With(snap, j, job[j]) /\ job' = job
          /\ DOMAIN snap' = DOMAIN snap /\ snap'[j] = job[j] /\ \A k \in DOMAIN snap \ {j} : snap'[k] = snap[k]
      BY <2>3, <2>6 DEF Taken, With
    <3>2. b = TRUE => snap[j].result = job[j].result
      BY <2>3, <3>1 DEF Grows
    <3>3. b = FALSE => NeedsClosed(snap, j[1])
      BY <1>6, <2>4, <2>6 DEF CallSound, CreateSound
    <3>4. job[j].result \in {"success", "failure"} => NeedsClosed(snap, j[1])
      BY <2>3, <3>1, <3>2, <3>3 DEF EndedIn
    <3>5. \A k \in DOMAIN snap : snap'[k].result \in {"success", "failure"} => NeedsClosed(snap, k[1])
      BY <2>3, <3>1, <3>4 DEF EndedIn
    <3>6. \A k \in DOMAIN snap' : snap'[k].placeholder => snap'[k].result = job'[k].result
      BY <2>3, <3>1
    <3> QED
      BY <1>1, <2>2, <2>3, <3>1, <3>5, <3>6
  <2>7. ASSUME NEW b, CallAdds(j, b)
        PROVE  /\ \A k \in DOMAIN snap' : snap'[k].placeholder => snap'[k].result = job'[k].result
               /\ \A k \in DOMAIN snap' : snap'[k].result \in {"success", "failure"} => NeedsClosed(snap', k[1])
               /\ \A k \in DOMAIN snap' : k[1] \in wf.deferred => NeedsClosed(snap', k[1]) \/ Early'
    <3>1. /\ j \notin DOMAIN job /\ job'[j] = NewJob(b) /\ snap' = With(snap, j, NewJob(b)) /\ b \in BOOLEAN
          /\ (b = TRUE => ReserveSound(j)) /\ (b = FALSE => CreateSound(j)) /\ ~ClosedIn(job, j[1]) /\ j[1] \in Ids
          /\ \A k \in DOMAIN job : job'[k] = job[k]
      BY <2>7, AddedFacts
    <3>2. /\ DOMAIN snap' = DOMAIN snap \cup {j} /\ snap'[j] = NewJob(b)
          /\ \A k \in DOMAIN snap : snap'[k] = snap[k]
      BY <2>3, <3>1 DEF With
    <3>3. NewJob(b).result = "none"
      BY <3>1, NewJobFacts
    <3>4. j[1] \in wf.deferred => NeedsClosed(snap, j[1]) \/ Early
      <4>1. CancelledBeforeConcurrency => Early \/ AllClosed(job)
        BY <1>1 DEF JobsTrue, CopyTrue, CancelledBeforeConcurrency
      <4>2. ~AllClosed(job)
        BY <3>1 DEF AllClosed
      <4> QED
        BY <1>6, <3>1, <4>1, <4>2 DEF ReserveSound, CreateSound
    <3>5. \A k \in DOMAIN snap' : snap'[k].placeholder => snap'[k].result = job'[k].result
      BY <2>3, <3>1, <3>2
    <3>6. \A k \in DOMAIN snap' : snap'[k].result \in {"success", "failure"} => NeedsClosed(snap', k[1])
      BY <2>2, <2>3, <3>2, <3>3 DEF EndedIn
    <3> QED
      BY <1>1, <2>2, <2>3, <3>2, <3>4, <3>5, <3>6
  <2>8. ASSUME NEW new, CallRevises(new)
        PROVE  /\ \A k \in DOMAIN snap' : snap'[k].placeholder => snap'[k].result = job'[k].result
               /\ \A k \in DOMAIN snap' : snap'[k].result \in {"success", "failure"} => NeedsClosed(snap', k[1])
               /\ \A k \in DOMAIN snap' : k[1] \in wf.deferred => NeedsClosed(snap', k[1]) \/ Early'
    <3>1. /\ j \in DOMAIN job /\ job[j] = snap[j] /\ job'[j] = new /\ \A k \in DOMAIN job \ {j} : job'[k] = job[k]
          /\ snap' = [snap EXCEPT ![j] = new] /\ (new.result = job[j].result \/ new.result = c[1])
      BY <2>8, RevisedFacts DEF Revised
    <3>2. DOMAIN snap' = DOMAIN snap /\ snap'[j] = new /\ \A k \in DOMAIN snap \ {j} : snap'[k] = snap[k]
      BY <1>1, <2>3, <3>1 DEF JobMap
    <3>3. c[1] \in {"success", "failure"} => NeedsClosed(snap, j[1])
      BY <2>4 DEF CallSound
    <3>4. \A k \in DOMAIN snap' : snap'[k].result \in {"success", "failure"} => NeedsClosed(snap, k[1])
      BY <2>3, <3>1, <3>2, <3>3 DEF EndedIn
    <3>5. \A k \in DOMAIN snap' : snap'[k].placeholder => snap'[k].result = job'[k].result
      BY <2>3, <3>1, <3>2
    <3> QED
      BY <1>1, <2>2, <2>3, <3>2, <3>4, <3>5
  <2>9. \/ job' = job /\ snap' = snap
        \/ \E b \in BOOLEAN : c[1] = (IF b THEN "reserve" ELSE "create") /\ Taken(j, b)
        \/ \E b : CallAdds(j, b)
        \/ \E new : CallRevises(new)
    BY <1>6, WriteMeans DEF Dropped, CreatePlan, CreateNeeds, CallAdds, CallRevises
  <2> HIDE DEF c
  <2> QED
    BY <1>1, <2>1, <2>5, <2>6, <2>7, <2>8, <2>9 DEF EndedIn
<1> QED
  BY <1>3, <1>4, <1>5, <1>6, ListedSteps

-----------------------------------------------------------------------------
(* A condition that holds on the list is justified by it: everything that  *)
(* counts has results, up to the first job that was skipped or cancelled.  *)

LEMMA EffectiveSuccess ==
    ASSUME NEW f, NEW k, f[k].result \in {"none"} \cup Results
    PROVE  /\ Effective(f, k) \in {"none"} \cup Results
           /\ Effective(f, k) = "success" => f[k].result \in {"success", "failure"}
           /\ Effective(f, k) = "none" => ~Terminal(f[k])
BY DEF Effective, Results, Terminal

LEMMA ClosedGroup ==
    ASSUME Types, NEW f, NEW id \in Ids, ClosedIn(f, id)
    PROVE  Group(f, id) # {}
<1>1. Expanded(id) # {} /\ \A j \in Expanded(id) : j[1] = id
  BY ExpandedFacts DEF Types
<1>2. CASE Expanded(id) \subseteq DOMAIN f
  BY <1>1, <1>2 DEF Group, Logical
<1>3. CASE <<id, 0>> \in DOMAIN f
  BY <1>3 DEF Group, Logical
<1> QED
  BY <1>2, <1>3 DEF ClosedIn

LEMMA RunnableJustified ==
    ASSUME Types, Facts, Listed, NEW id \in Ids, NeedsClosed(snap, id), Runnable(snap, id, rc.cancel)
    PROVE  JustifiedIn(snap, id)
<1>1. EndedIn(snap) /\ (\A d \in Ids : wf.needs[d] \subseteq Ids)
  BY WorkflowFacts DEF Types, Facts, SnapTrue
<1>2. \A k \in DOMAIN snap : snap[k].result \in {"none"} \cup Results
  BY DEF Types, JobMap, JobRecord
<1> DEFINE Walk(S) == wf.needs[id] \subseteq S /\ \A x \in S : Group(snap, x) # {} => wf.needs[x] \subseteq S
           Closure(S) == wf.needs[id] \subseteq S /\ \A x \in S : wf.needs[x] \subseteq S
           R == Reached(snap, id)
<1>3. R = {d \in Ids : \A S \in SUBSET Ids : Walk(S) => d \in S}
  BY DEF Reached
<1>4. Ancestors(id) = {d \in Ids : \A S \in SUBSET Ids : Closure(S) => d \in S}
  BY DEF Ancestors
<1>5. ASSUME wf.cond[id] = "none", NEW d \in Ancestors(id)
      PROVE  ClosedIn(snap, d) /\ \A k \in Group(snap, d) : Effective(snap, k) = "success"
  <2>1. ASSUME NEW x \in R, NEW k \in Group(snap, x)
        PROVE  Effective(snap, k) \notin {"failure", "cancelled", "skipped"}
    <3>1. AncestorStatus(snap, id, rc.cancel).success
      BY <1>5 DEF Runnable
    <3> QED
      BY <2>1, <3>1 DEF AncestorStatus
  <2>2. ASSUME NEW x \in R, ClosedIn(snap, x)
        PROVE  /\ \A k \in Group(snap, x) : Effective(snap, k) = "success"
               /\ NeedsClosed(snap, x) /\ Group(snap, x) # {}
    <3>1. \A k \in Group(snap, x) : k \in DOMAIN snap /\ k[1] = x /\ Terminal(snap[k])
      BY <2>2 DEF ClosedIn, Group, Logical
    <3>2. \A k \in Group(snap, x) : Effective(snap, k) = "success" /\ snap[k].result \in {"success", "failure"}
      BY <1>2, <2>1, <3>1, EffectiveSuccess DEF Results
    <3>3. Group(snap, x) # {}
      BY <2>2, ClosedGroup DEF Reached
    <3>4. NeedsClosed(snap, x)
      BY <1>1, <3>1, <3>2, <3>3 DEF EndedIn
    <3> QED
      BY <3>2, <3>3, <3>4
  <2> DEFINE S == {x \in R : ClosedIn(snap, x)}
  <2>3. S \in SUBSET Ids
    BY <1>3
  <2>4. wf.needs[id] \subseteq S
    <3>1. wf.needs[id] \subseteq R
      BY <1>1, <1>3
    <3> QED
      BY <3>1 DEF NeedsClosed
  <2>5. ASSUME NEW x \in S
        PROVE  wf.needs[x] \subseteq S
    <3>1. NeedsClosed(snap, x) /\ Group(snap, x) # {} /\ x \in Ids
      BY <1>3, <2>2
    <3>2. wf.needs[x] \subseteq R
      <4>1. ASSUME NEW e \in wf.needs[x], NEW T \in SUBSET Ids, Walk(T)
            PROVE  e \in T
        <5>1. x \in T
          BY <1>3, <4>1
        <5> QED
          BY <3>1, <4>1, <5>1
      <4> QED
        BY <1>1, <1>3, <3>1, <4>1
    <3> QED
      BY <3>1, <3>2 DEF NeedsClosed
  <2>6. d \in S
    BY <1>4, <2>3, <2>4, <2>5
  <2> QED
    BY <2>2, <2>6
<1>6. ASSUME wf.cond[id] = "failure"
      PROVE  \E d \in Ancestors(id) : \E k \in Group(snap, d) : Effective(snap, k) = "failure"
  <2>1. AncestorStatus(snap, id, rc.cancel).failure
    BY <1>6 DEF Runnable
  <2>2. PICK d \in R : \E k \in Group(snap, d) : Effective(snap, k) = "failure"
    BY <2>1 DEF AncestorStatus
  <2>3. \A S \in SUBSET Ids : Closure(S) => Walk(S)
    OBVIOUS
  <2>4. d \in Ancestors(id)
    BY <1>3, <1>4, <2>3
  <2> QED
    BY <2>2, <2>4
<1> QED
  BY <1>5, <1>6 DEF JustifiedIn

-----------------------------------------------------------------------------
(* The calls of a reconcile are sound when it decides on them.             *)

(* What a call must satisfy after a step, in terms of the new state.       *)
LEMMA SoundNext ==
    ASSUME wf' = wf, NEW c, NEW j, c[2] = j,
           c[1] = "create" =>
              /\ j[1] \in Ids /\ j \in Expanded(j[1]) /\ ~(j[1] \in wf.deferred /\ j[1] \in wf.unplannable)
              /\ \A e \in Outstanding' : e[1] \in {"create", "plan"}
              /\ <<j[1], 0>> \in DOMAIN job' /\ job'[<<j[1], 0>>].placeholder => ~Terminal(job'[<<j[1], 0>>])
              /\ j[1] \in wf.deferred <=> Listed'
              /\ Listed' => NeedsClosed(snap', j[1])
              /\ Deferring' \/ Graphing' => j \in DOMAIN snap',
           c[1] = "reserve" =>
              /\ Ending' /\ j[1] \in wf.deferred /\ j[2] = 0
              /\ j \notin DOMAIN job' => ~(Expanded(j[1]) \subseteq DOMAIN job')
              /\ NeedsClosed(snap', j[1]) \/ (rc'.cancel /\ rc'.planned = "waiting"),
           c[1] = "needs" => Listed' /\ NeedsClosed(snap', j[1]),
           c[1] = "ready" /\ c[3] = "true" => Listed' /\ JustifiedIn(snap', j[1]),
           c[1] \in {"success", "failure"} => Listed' /\ NeedsClosed(snap', j[1]),
           c[1] \in Results => c[3] # "PlanUnavailable"
    PROVE  CallSound(c)'
<1>1. /\ \A id : (Expanded(id)' = Expanded(id)) /\ (NeedsClosed(snap, id)' <=> NeedsClosed(snap', id))
                 /\ (JustifiedIn(snap, id)' <=> JustifiedIn(snap', id))
      /\ Ids' = Ids
  BY SameExpanded, SameForList
<1>2. c[1] = "create" => CreateSound(j)'
  BY <1>1 DEF CreateSound, Terminal
<1>3. c[1] = "reserve" => ReserveSound(j)'
  BY <1>1 DEF ReserveSound, CancelledBeforeConcurrency
<1> QED
  BY <1>1, <1>2, <1>3 DEF CallSound

LEMMA SoundEnvironment ==
    ASSUME Types, Facts, Environment, gone' = {}
    PROVE  CallsSound'
<1>1. /\ UNCHANGED <<wf, pc, goal, todo, snap, rc>> /\ DOMAIN job' = DOMAIN job
  BY EnvironmentCases, TakingFacts, EndedFacts
<1>2. /\ Outstanding' = Outstanding /\ (Listed' <=> Listed) /\ (Ending' <=> Ending)
      /\ (Deferring' <=> Deferring) /\ (Graphing' <=> Graphing)
  BY <1>1 DEF Outstanding, Listed, Ending, Deferring, Graphing
<1>3. \A j \in DOMAIN job : job'[j].placeholder => job[j].placeholder /\ job'[j].result = job[j].result
  <2>1. \A j \in DOMAIN job : job[j].placeholder => ~job[j].runner
    BY DEF Facts, JobsTrue, Shaped
  <2>2. ASSUME NEW j, NEW new, Ended(j, new)
        PROVE  \A k \in DOMAIN job : job'[k].placeholder => job[k].placeholder /\ job'[k].result = job[k].result
    BY <2>1, <2>2, EndedFacts
  <2>3. ASSUME NEW j, Taking(j)
        PROVE  \A k \in DOMAIN job : job'[k].placeholder => job[k].placeholder /\ job'[k].result = job[k].result
    BY <2>3, TakingFacts
  <2> QED
    BY <2>2, <2>3, EnvironmentCases
<1>4. ASSUME NEW c \in Outstanding
      PROVE  CallSound(c)'
  <2> DEFINE j == c[2]
  <2>1. CallSound(c)
    BY DEF Facts, CallsSound
  <2>2. c[1] = "create" =>
          /\ j[1] \in Ids /\ j \in Expanded(j[1]) /\ ~(j[1] \in wf.deferred /\ j[1] \in wf.unplannable)
          /\ \A e \in Outstanding' : e[1] \in {"create", "plan"}
          /\ <<j[1], 0>> \in DOMAIN job' /\ job'[<<j[1], 0>>].placeholder => ~Terminal(job'[<<j[1], 0>>])
          /\ j[1] \in wf.deferred <=> Listed'
          /\ Listed' => NeedsClosed(snap', j[1])
          /\ Deferring' \/ Graphing' => j \in DOMAIN snap'
    BY <1>1, <1>2, <1>3, <2>1 DEF CallSound, CreateSound, Terminal
  <2>3. c[1] = "reserve" =>
          /\ Ending' /\ j[1] \in wf.deferred /\ j[2] = 0
          /\ j \notin DOMAIN job' => ~(Expanded(j[1]) \subseteq DOMAIN job')
          /\ NeedsClosed(snap', j[1]) \/ (rc'.cancel /\ rc'.planned = "waiting")
    BY <1>1, <1>2, <2>1 DEF CallSound, ReserveSound, CancelledBeforeConcurrency
  <2>4. /\ c[1] = "needs" => Listed' /\ NeedsClosed(snap', j[1])
        /\ c[1] = "ready" /\ c[3] = "true" => Listed' /\ JustifiedIn(snap', j[1])
        /\ c[1] \in {"success", "failure"} => Listed' /\ NeedsClosed(snap', j[1])
        /\ c[1] \in Results => c[3] # "PlanUnavailable"
    BY <1>1, <1>2, <2>1 DEF CallSound
  <2> QED
    BY <1>1, <2>2, <2>3, <2>4, SoundNext
<1> QED
  BY <1>2, <1>4 DEF CallsSound

LEMMA SoundWrite ==
    ASSUME Types, Facts, Write
    PROVE  CallsSound'
<1> DEFINE h == Head(todo)
<1>1. wf' = wf /\ rc' = rc
  BY WriteMeans
<1>2. CASE EndPass
  <2>1. Outstanding' = {}
    BY <1>2 DEF EndPass, Outstanding
  <2> QED
    BY <2>1 DEF CallsSound
<1>3. CASE Advance /\ todo # <<>> /\ pc = "write" /\ ~EndPass
  <2>1. /\ Outstanding' \subseteq Outstanding /\ pc' \in {"write", goal} /\ (pc' # "write" => Outstanding' = {}) /\ goal' = goal
        /\ (Listed' => Listed) /\ (Deferring' <=> Deferring) /\ (Graphing' <=> Graphing)
    BY <1>3, AdvanceFacts
  <2>2. CASE pc' # "write"
    BY <2>1, <2>2 DEF CallsSound
  <2>3. CASE pc' = "write"
    <3>1. (Listed' <=> Listed) /\ (Ending => Ending')
      BY <1>3, <2>1, <2>3 DEF Listed, Ending, Deferring, Graphing
    <3>2. Listed => Grows(snap, snap') /\ DOMAIN snap' = DOMAIN job'
      BY <1>3, WriteGrows DEF Refused
    <3>3. /\ Listed => \A id : (NeedsClosed(snap, id) => NeedsClosed(snap', id)) /\ (JustifiedIn(snap, id) => JustifiedIn(snap', id))
          /\ Listed => DOMAIN snap \subseteq DOMAIN snap'
      BY <3>2, GrowsKeeps DEF Grows
    <3>4. h \in Outstanding /\ h \in Calls
      BY WriteMeans
    <3>5. h[1] \in {"create", "plan"} =>
            \A k \in DOMAIN job' : job'[k].placeholder => k \in DOMAIN job /\ job'[k] = job[k]
      <4>1. CASE job' = job
        BY <4>1
      <4>2. ASSUME NEW j, NEW b, CallAdds(j, b), h[1] \in {"create", "plan"}
            PROVE  \A k \in DOMAIN job' : job'[k].placeholder => k \in DOMAIN job /\ job'[k] = job[k]
        <5>1. b = FALSE
          BY <4>2 DEF CallAdds
        <5>2. DOMAIN job' = DOMAIN job \cup {j} /\ job'[j] = NewJob(b) /\ \A k \in DOMAIN job : job'[k] = job[k]
          BY <4>2, AddedFacts
        <5>3. NewJob(b).placeholder = FALSE
          BY <5>1, NewJobFacts
        <5> QED
          BY <5>2, <5>3
      <4>3. h[1] \in {"create", "plan"} => job' = job \/ \E j, b : CallAdds(j, b)
        BY WriteMeans DEF Refused, Dropped, Taken, CreatePlan, CallAdds, Results
      <4> QED
        BY <4>1, <4>2, <4>3
    <3>6. ASSUME NEW c \in Outstanding'
          PROVE  CallSound(c)'
      <4> DEFINE j == c[2]
      <4>1. CallSound(c) /\ c \in Outstanding
        BY <2>1 DEF Facts, CallsSound
      <4>2. ASSUME c[1] = "create"
            PROVE  /\ j[1] \in Ids /\ j \in Expanded(j[1]) /\ ~(j[1] \in wf.deferred /\ j[1] \in wf.unplannable)
                   /\ \A e \in Outstanding' : e[1] \in {"create", "plan"}
                   /\ <<j[1], 0>> \in DOMAIN job' /\ job'[<<j[1], 0>>].placeholder => ~Terminal(job'[<<j[1], 0>>])
                   /\ j[1] \in wf.deferred <=> Listed'
                   /\ Listed' => NeedsClosed(snap', j[1])
                   /\ Deferring' \/ Graphing' => j \in DOMAIN snap'
        <5>1. CreateSound(j)
          BY <4>1, <4>2 DEF CallSound
        <5>2. h[1] \in {"create", "plan"}
          BY <3>4, <5>1 DEF CreateSound
        <5>3. Deferring \/ Graphing => Listed
          BY DEF Listed
        <5> HIDE DEF h
        <5> QED
          BY <2>1, <3>1, <3>3, <3>5, <5>1, <5>2, <5>3 DEF CreateSound
      <4>3. ASSUME c[1] = "reserve"
            PROVE  /\ Ending' /\ j[1] \in wf.deferred /\ j[2] = 0
                   /\ j \notin DOMAIN job' => ~(Expanded(j[1]) \subseteq DOMAIN job')
                   /\ NeedsClosed(snap', j[1]) \/ (rc'.cancel /\ rc'.planned = "waiting")
        <5>1. ReserveSound(j)
          BY <4>1, <4>3 DEF CallSound
        <5>2. Listed
          BY <5>1 DEF ReserveSound, Listed
        <5>3. ASSUME j \notin DOMAIN job', Expanded(j[1]) \subseteq DOMAIN job'
              PROVE  FALSE
          <6>1. CASE DOMAIN job' = DOMAIN job
            BY <5>1, <5>3, <6>1 DEF ReserveSound
          <6>2. ASSUME NEW k, NEW b, CallAdds(k, b)
                PROVE  FALSE
            <7>1. /\ DOMAIN job' = DOMAIN job \cup {k} /\ k \in Jobs /\ k \notin DOMAIN job /\ b \in BOOLEAN
                  /\ (b = TRUE => ReserveSound(k)) /\ (b = FALSE => CreateSound(k))
              BY <6>2, AddedFacts
            <7>2. b = TRUE
              BY <4>1, <4>3, <7>1 DEF CreateSound
            <7>3. k = <<k[1], 0>> /\ k[2] = 0
              BY <7>1, <7>2 DEF ReserveSound, Jobs
            <7>4. j \in Jobs
              BY <4>1, CallFacts DEF Types, Outstanding
            <7>5. j = <<j[1], 0>> /\ j[1] \in Ids
              BY <5>1, <7>4 DEF ReserveSound, Jobs
            <7>6. k[1] # j[1]
              BY <5>3, <7>1, <7>3, <7>5
            <7>7. \A i \in Expanded(j[1]) : i[1] = j[1]
              BY <7>5, ExpandedFacts DEF Types
            <7>8. Expanded(j[1]) \subseteq DOMAIN job
              BY <5>3, <7>1, <7>6, <7>7
            <7> QED
              BY <5>1, <5>3, <7>1, <7>8 DEF ReserveSound
          <6>3. DOMAIN job' = DOMAIN job \/ \E k, b : CallAdds(k, b)
            <7>1. ASSUME NEW new, CallRevises(new)
                  PROVE  DOMAIN job' = DOMAIN job
              BY <7>1, RevisedFacts
            <7> QED
              BY <7>1, WriteMeans DEF Refused, Dropped, Taken, CreatePlan, CreateNeeds, CallAdds, CallRevises
          <6> QED
            BY <6>1, <6>2, <6>3
        <5> QED
          BY <1>1, <3>1, <3>3, <5>1, <5>2, <5>3 DEF ReserveSound, CancelledBeforeConcurrency
      <4>4. /\ c[1] = "needs" => Listed' /\ NeedsClosed(snap', j[1])
            /\ c[1] = "ready" /\ c[3] = "true" => Listed' /\ JustifiedIn(snap', j[1])
            /\ c[1] \in {"success", "failure"} => Listed' /\ NeedsClosed(snap', j[1])
            /\ c[1] \in Results => c[3] # "PlanUnavailable"
        BY <3>1, <3>3, <4>1 DEF CallSound
      <4> QED
        BY <1>1, <4>2, <4>3, <4>4, SoundNext
    <3> QED
      BY <3>6 DEF CallsSound
  <2> QED
    BY <2>2, <2>3
<1> QED
  BY <1>2, <1>3, WriteSteps

LEMMA SoundDeferred ==
    ASSUME Types, Facts, ReconcileDeferred
    PROVE  CallsSound'
<1> DEFINE id == Visited
           one == <<id, 0>>
<1>1. /\ pc = "deferred" /\ id \in wf.deferred /\ id \in Ids
      /\ UNCHANGED <<wf, run, job, rc, snap>>
      /\ \/ UNCHANGED <<pc, todo, goal>>
         \/ Settled(id) = {} /\ Concluding(id)
         \/ Settled(id) = {} /\ Planning(id)
  BY DeferredCases
<1>2. Deferring /\ Listed /\ todo = <<>>
  BY <1>1 DEF Deferring, Listed, Types
<1>3. DOMAIN snap = DOMAIN job
  BY <1>2, ListShape
<1> HIDE DEF id
<1>4. CASE UNCHANGED <<pc, todo, goal>>
  <2>1. Outstanding' = {}
    BY <1>2, <1>4 DEF Outstanding
  <2> QED
    BY <2>1 DEF CallsSound
<1>5. CASE Settled(id) = {} /\ Concluding(id)
  <2>1. /\ pc' = "write" /\ goal' = "idle"
        /\ \A c \in Outstanding' :
             \/ c = <<"reserve", one>>
             \/ /\ c[1] \in {"cancelled", "skipped", "failure"} /\ c[2] = one
                /\ c[3] \in {"condition", "cancel", "planning"}
                /\ c[1] = "failure" => ~CancelledBeforeConcurrency
        /\ CancelledBeforeConcurrency \/ (DependenciesDone(id) /\ (~MayRun(id) \/ id \in wf.unplannable))
    BY <1>1, <1>5, ConcludingFacts DEF Types
  <2>2. CancelledBeforeConcurrency \/ NeedsClosed(snap, id)
    BY <1>1, <1>2, <2>1, DependenciesClosed
  <2>3. one \notin DOMAIN job => ~(Expanded(id) \subseteq DOMAIN job)
    BY <1>1, <1>3, <1>5, <2>1, ConcludedLacks
  <2>4. Ending' /\ Listed'
    BY <2>1 DEF Ending, Listed
  <2>5. one[1] = id /\ one[2] = 0
    OBVIOUS
  <2>6. ASSUME NEW c \in Outstanding'
        PROVE  CallSound(c)'
    <3>1. c[2] = one
      BY <2>1
    <3>2. c[1] = "reserve" \/ (c[1] \in {"cancelled", "skipped", "failure"} /\ c[3] # "PlanUnavailable"
                               /\ (c[1] = "failure" => ~CancelledBeforeConcurrency))
      BY <2>1
    <3>3. /\ id \in wf.deferred /\ (one \notin DOMAIN job' => ~(Expanded(id) \subseteq DOMAIN job'))
          /\ NeedsClosed(snap', id) \/ (rc'.cancel /\ rc'.planned = "waiting")
      BY <1>1, <2>2, <2>3 DEF CancelledBeforeConcurrency
    <3>4. c[1] = "failure" => NeedsClosed(snap', id)
      BY <1>1, <2>2, <3>2
    <3> HIDE DEF one
    <3>5. CASE c[1] = "reserve"
      BY <1>1, <2>4, <2>5, <3>1, <3>3, <3>5, SoundNext DEF Results
    <3>6. CASE c[1] \in {"cancelled", "skipped", "failure"} /\ c[3] # "PlanUnavailable"
      BY <1>1, <2>4, <2>5, <3>1, <3>4, <3>6, SoundNext
    <3> QED
      BY <3>2, <3>5, <3>6
  <2> QED
    BY <2>6 DEF CallsSound
<1>6. CASE Settled(id) = {} /\ Planning(id)
  <2>1. /\ pc' = "write" /\ goal' = (IF Expanded(id) \subseteq DOMAIN snap THEN "deferred" ELSE "idle")
        /\ \A c \in Outstanding' : \E j \in Expanded(id) : c = <<"create", j>> \/ c = <<"plan", j>>
    BY <1>1, <1>6, PlanningFacts DEF Types
  <2>2. NeedsClosed(snap, id) /\ id \notin wf.unplannable
    BY <1>1, <1>2, <1>6, DependenciesClosed DEF Planning
  <2>3. Listed' /\ (Deferring' \/ Graphing' => Expanded(id) \subseteq DOMAIN snap)
    BY <2>1 DEF Listed, Deferring, Graphing, Ending
  <2>4. one \in DOMAIN job /\ job[one].placeholder => ~Terminal(job[one])
    <3>1. ASSUME one \in DOMAIN job, job[one].placeholder
          PROVE  ~Terminal(job[one])
      <4>1. ~Terminal(snap[one])
        BY <1>1, <1>2, <1>3, <1>6, <3>1, SettledFacts
      <4>2. snap[one].placeholder /\ snap[one].result = job[one].result
        BY <1>2, <1>3, <3>1, ListShape
      <4> QED
        BY <4>1, <4>2 DEF Terminal
    <3> QED
      BY <3>1
  <2>5. \A j \in Expanded(id) : j[1] = id
    BY <1>1, ExpandedFacts DEF Types
  <2>6. ASSUME NEW c \in Outstanding'
        PROVE  CallSound(c)'
    <3>1. PICK j \in Expanded(id) : c = <<"create", j>> \/ c = <<"plan", j>>
      BY <2>1
    <3>2. c[2] = j /\ c[1] \in {"create", "plan"} /\ j[1] = id
      BY <2>5, <3>1
    <3>3. /\ j[1] \in Ids /\ j \in Expanded(j[1]) /\ ~(j[1] \in wf.deferred /\ j[1] \in wf.unplannable)
          /\ \A e \in Outstanding' : e[1] \in {"create", "plan"}
          /\ <<j[1], 0>> \in DOMAIN job' /\ job'[<<j[1], 0>>].placeholder => ~Terminal(job'[<<j[1], 0>>])
          /\ j[1] \in wf.deferred <=> Listed'
          /\ Listed' => NeedsClosed(snap', j[1])
          /\ Deferring' \/ Graphing' => j \in DOMAIN snap'
      BY <1>1, <2>1, <2>2, <2>3, <2>4, <3>2
    <3> QED
      BY <1>1, <3>2, <3>3, SoundNext DEF Results
  <2> QED
    BY <2>6 DEF CallsSound
<1> QED
  BY <1>1, <1>4, <1>5, <1>6

LEMMA SoundGraph ==
    ASSUME Types, Facts, Graph
    PROVE  CallsSound'
<1>1. /\ pc = "graph" /\ goal' = "graph" /\ pc' \in {"graph", "write"} /\ UNCHANGED <<wf, job, rc, snap>>
  BY GraphFacts
<1>2. PICK j \in visit : j \in DOMAIN snap /\ \A c \in Outstanding' : c[2] = j /\ GraphCall(j, c)
  BY GraphFacts
<1>3. Graphing /\ Listed /\ Listed' /\ j[1] \in Ids
  BY <1>1, <1>2, ListShape DEF Graphing, Listed
<1>4. Shown(j) => NeedsClosed(snap, j[1])
  BY <1>2, <1>3, ShownClosed
<1>5. Shown(j) /\ Runnable(snap, j[1], rc.cancel) => JustifiedIn(snap, j[1])
  BY <1>3, <1>4, RunnableJustified
<1>6. ASSUME NEW c \in Outstanding'
      PROVE  CallSound(c)'
  <2>1. c[2] = j /\ GraphCall(j, c)
    BY <1>2
  <2>2. /\ c[1] \notin {"create", "reserve", "success"}
        /\ c[1] = "needs" => NeedsClosed(snap, j[1])
        /\ c[1] = "ready" /\ c[3] = "true" => JustifiedIn(snap, j[1])
        /\ c[1] = "failure" => NeedsClosed(snap, j[1])
        /\ c[1] \in Results => c[3] # "PlanUnavailable"
    BY <1>4, <1>5, <2>1 DEF GraphCall, Results, Logical
  <2> QED
    BY <1>1, <1>3, <2>1, <2>2, SoundNext
<1> QED
  BY <1>6 DEF CallsSound

LEMMA SoundStays ==
    ASSUME Types, Facts, Next, gone' = {}
    PROVE  CallsSound'
<1>1. wf' = wf
  BY JobsGrow
<1>2. CASE todo' = <<>>
  <2>1. Outstanding' = {}
    BY <1>2 DEF Outstanding
  <2> QED
    BY <2>1 DEF CallsSound
<1>3. CASE RunSteps \/ StartPass \/ Abort
  <2>1. todo' = <<>>
    BY <1>3, RunStepMeans DEF StartPass, Abort, EndPass, Types
  <2> QED
    BY <1>2, <2>1
<1>4. ASSUME \A c \in Outstanding' : c[1] \in {"stop", "cancelled"} /\ c[3] # "PlanUnavailable"
      PROVE  CallsSound'
  <2>1. ASSUME NEW c \in Outstanding'
        PROVE  CallSound(c)'
    BY <1>1, <1>4, SoundNext
  <2> QED
    BY <2>1 DEF CallsSound
<1>5. CASE ListJobs
  BY <1>4, <1>5, ListJobsFacts
<1>6. CASE FailFast
  BY <1>4, <1>6, FailFastFacts
<1>7. CASE PlanRun
  <2>1. pc' = "write" /\ goal' = "gate" /\ job' = job
        /\ \A c \in Outstanding' : \E j \in ExpectedAtFirst : c = <<"create", j>> \/ c = <<"plan", j>>
    BY <1>7, PlanRunFacts
  <2>2. ~Listed' /\ ~Deferring' /\ ~Graphing'
    BY <2>1 DEF Listed, Deferring, Graphing, Ending
  <2>3. ASSUME NEW c \in Outstanding'
        PROVE  CallSound(c)'
    <3>1. PICK j \in ExpectedAtFirst : c = <<"create", j>> \/ c = <<"plan", j>>
      BY <2>1
    <3>2. c[2] = j /\ c[1] \in {"create", "plan"} /\ j[1] \in Ids /\ j[1] \notin wf.deferred /\ j \in Expanded(j[1])
      BY <3>1, ExpectedFacts DEF Types
    <3>3. <<j[1], 0>> \in DOMAIN job => ~job[<<j[1], 0>>].placeholder
      BY <3>2 DEF Facts, JobsTrue, Shaped
    <3>4. \A e \in Outstanding' : e[1] \in {"create", "plan"}
      BY <2>1
    <3> QED
      BY <1>1, <2>1, <2>2, <3>2, <3>3, <3>4, SoundNext DEF Results
  <2> QED
    BY <2>3 DEF CallsSound
<1> QED
  BY <1>3, <1>5, <1>6, <1>7, SoundEnvironment, SoundWrite, SoundDeferred, SoundGraph, NextCases

-----------------------------------------------------------------------------
(* The list stays accounted for.                                           *)

LEMMA AccountedNext ==
    ASSUME wf' = wf,
           Deferring' \/ Graphing' =>
              /\ ExpectedAtFirst \subseteq expd' /\ expd' \subseteq DOMAIN snap'
              /\ \A id \in wf.deferred :
                   \/ Deferring' /\ id \in visit'
                   \/ id \in pend'
                   \/ /\ Expanded(id) \subseteq expd'
                      /\ \A j \in Expanded(id) : Terminal(snap'[j]) \/ j \in plan' \/ <<"plan", j>> \in Outstanding'
                   \/ <<id, 0>> \in expd' /\ snap'[<<id, 0>>].placeholder /\ Terminal(snap'[<<id, 0>>])
              /\ \A id \in pend' : Group(snap', id) = {} \/ Early'
              /\ rc'.cancel /\ rc'.planned = "waiting" =>
                    pend' = {} /\ \A j \in DOMAIN snap' : Terminal(snap'[j]) \/ <<"cancelled", j, "cancel">> \in Outstanding'
    PROVE  Accounted'
<1>1. /\ ExpectedAtFirst' = ExpectedAtFirst /\ \A id : Expanded(id)' = Expanded(id)
      /\ \A id : Group(snap, id)' = Group(snap', id)
  BY SameExpanded DEF Group, Logical
<1>2. CancelledBeforeConcurrency' <=> (rc'.cancel /\ rc'.planned = "waiting")
  BY DEF CancelledBeforeConcurrency
<1> QED
  BY <1>1, <1>2 DEF Accounted, Covered, Terminal

LEMMA AccountedDeferred ==
    ASSUME Types, Facts, ReconcileDeferred, Next, gone' = {}
    PROVE  Accounted'
<1> DEFINE id == Visited
           one == <<id, 0>>
<1>1. /\ pc = "deferred" /\ id \in wf.deferred /\ id \in Ids /\ visit' = visit \ {id}
      /\ UNCHANGED <<wf, run, job, plan, rc, snap>>
      /\ \/ /\ Settled(id) # {} /\ expd' = expd \cup Settled(id) /\ UNCHANGED <<pc, todo, goal, pend>>
         \/ Settled(id) = {} /\ Concluding(id)
         \/ /\ Settled(id) = {} /\ ~CancelledBeforeConcurrency /\ ~DependenciesDone(id)
            /\ pend' = pend \cup {id} /\ UNCHANGED <<pc, todo, goal, expd>>
         \/ Settled(id) = {} /\ Planning(id)
  BY DeferredCases
<1>2. Deferring /\ Listed /\ todo = <<>>
  BY <1>1 DEF Deferring, Listed, Types
<1>3. Outstanding = {}
  BY <1>2 DEF Outstanding
<1>4. /\ ExpectedAtFirst \subseteq expd /\ expd \subseteq DOMAIN snap
      /\ \A i \in wf.deferred :
           \/ i \in visit \/ i \in pend
           \/ /\ Expanded(i) \subseteq expd
              /\ \A j \in Expanded(i) : Terminal(snap[j]) \/ j \in plan
           \/ <<i, 0>> \in expd /\ snap[<<i, 0>>].placeholder /\ Terminal(snap[<<i, 0>>])
      /\ \A i \in pend : Group(snap, i) = {} \/ Early
      /\ CancelledBeforeConcurrency => pend = {} /\ \A j \in DOMAIN snap : Terminal(snap[j])
  BY <1>2, <1>3 DEF Facts, Accounted, Covered
<1>5. (Early' <=> Early) /\ (CancelledBeforeConcurrency <=> rc'.cancel /\ rc'.planned = "waiting")
  BY <1>1 DEF Early, CancelledBeforeConcurrency
<1> HIDE DEF id
<1>6. CASE Settled(id) # {} /\ expd' = expd \cup Settled(id) /\ UNCHANGED <<pc, todo, goal, pend>>
  <2>1. /\ Settled(id) \subseteq DOMAIN snap
        /\ \/ Expanded(id) \subseteq Settled(id) /\ \A j \in Expanded(id) : Terminal(snap[j])
           \/ one \in Settled(id) /\ snap[one].placeholder /\ Terminal(snap[one])
    BY <1>1, <1>2, <1>6, SettledFacts
  <2>2. Deferring'
    BY <1>1, <1>6 DEF Deferring
  <2>3. ASSUME NEW i \in wf.deferred
        PROVE  \/ Deferring' /\ i \in visit'
               \/ i \in pend'
               \/ /\ Expanded(i) \subseteq expd'
                  /\ \A j \in Expanded(i) : Terminal(snap'[j]) \/ j \in plan' \/ <<"plan", j>> \in Outstanding'
               \/ <<i, 0>> \in expd' /\ snap'[<<i, 0>>].placeholder /\ Terminal(snap'[<<i, 0>>])
    BY <1>1, <1>4, <1>6, <2>1, <2>2
  <2> QED
    BY <1>1, <1>4, <1>5, <1>6, <2>1, <2>3, AccountedNext
<1>7. CASE Settled(id) = {} /\ Concluding(id)
  <2>1. pc' = "write" /\ goal' = "idle"
    BY <1>1, <1>7, ConcludingFacts DEF Types
  <2> QED
    BY <1>1, <2>1, AccountedNext DEF Deferring, Graphing
<1>8. CASE /\ Settled(id) = {} /\ ~CancelledBeforeConcurrency /\ ~DependenciesDone(id)
           /\ pend' = pend \cup {id} /\ UNCHANGED <<pc, todo, goal, expd>>
  <2>1. Deferring'
    BY <1>1, <1>8 DEF Deferring
  <2>2. Group(snap, id) = {} \/ Early
    <3>1. ASSUME NEW j \in Group(snap, id)
          PROVE  Early
      <4>1. j \in DOMAIN snap /\ j[1] = id
        BY DEF Group, Logical
      <4>2. ~NeedsClosed(snap, id)
        BY <1>1, <1>2, <1>8, ClosedDependencies
      <4> QED
        BY <1>1, <1>2, <4>1, <4>2 DEF Facts, SnapTrue, OpenedIn
    <3> QED
      BY <3>1
  <2>3. \A i \in wf.deferred :
               \/ Deferring' /\ i \in visit'
               \/ i \in pend'
               \/ /\ Expanded(i) \subseteq expd'
                  /\ \A j \in Expanded(i) : Terminal(snap'[j]) \/ j \in plan' \/ <<"plan", j>> \in Outstanding'
               \/ <<i, 0>> \in expd' /\ snap'[<<i, 0>>].placeholder /\ Terminal(snap'[<<i, 0>>])
    BY <1>1, <1>4, <1>8, <2>1
  <2>4. \A i \in pend' : Group(snap', i) = {} \/ Early'
    BY <1>1, <1>4, <1>5, <1>8, <2>2
  <2> QED
    BY <1>1, <1>4, <1>5, <1>8, <2>3, <2>4, AccountedNext
<1>9. CASE Settled(id) = {} /\ Planning(id)
  <2>1. /\ pc' = "write" /\ goal' = (IF Expanded(id) \subseteq DOMAIN snap THEN "deferred" ELSE "idle")
        /\ expd' = expd \cup Expanded(id) /\ pend' = pend /\ ~CancelledBeforeConcurrency
        /\ \A j \in Expanded(id) : <<"plan", j>> \in Outstanding'
    BY <1>1, <1>9, PlanningFacts DEF Types, Planning
  <2>2. CASE Expanded(id) \subseteq DOMAIN snap
    <3>1. Deferring'
      BY <2>1, <2>2 DEF Deferring
    <3>2. ASSUME NEW i \in wf.deferred
          PROVE  \/ Deferring' /\ i \in visit'
                 \/ i \in pend'
                 \/ /\ Expanded(i) \subseteq expd'
                    /\ \A j \in Expanded(i) : Terminal(snap'[j]) \/ j \in plan' \/ <<"plan", j>> \in Outstanding'
                 \/ <<i, 0>> \in expd' /\ snap'[<<i, 0>>].placeholder /\ Terminal(snap'[<<i, 0>>])
      BY <1>1, <1>4, <2>1, <3>1
    <3> QED
      BY <1>1, <1>4, <1>5, <2>1, <2>2, <3>2, AccountedNext
  <2>3. CASE ~(Expanded(id) \subseteq DOMAIN snap)
    BY <1>1, <2>1, <2>3, AccountedNext DEF Deferring, Graphing
  <2> QED
    BY <2>2, <2>3
<1> QED
  BY <1>1, <1>6, <1>7, <1>8, <1>9

(* A result that was decided on is in the list after its call.             *)
LEMMA ResultWritten ==
    ASSUME Types, Facts, Write, Advance, ~Refused, Listed, Head(todo)[1] \in Results, Head(todo)[2] \in DOMAIN snap
    PROVE  Terminal(snap'[Head(todo)[2]])
<1> DEFINE c == Head(todo)
           j == c[2]
<1>1. \/ Dropped /\ Terminal(snap[j])
      \/ \E new : CallRevises(new)
  BY WriteMeans DEF CallRevises, Results
<1>2. ASSUME NEW new, CallRevises(new)
      PROVE  Terminal(snap'[j])
  <2>1. j \in DOMAIN job /\ snap' = [snap EXCEPT ![j] = new] /\ new.result = c[1]
    BY <1>2, RevisedFacts DEF Revised
  <2>2. snap \in [DOMAIN snap -> JobRecord]
    BY DEF Types, JobMap
  <2>3. snap'[j] = new
    BY <2>1, <2>2
  <2> HIDE DEF c
  <2> QED
    BY <2>1, <2>3 DEF Terminal, Results, c
<1> QED
  BY <1>1, <1>2 DEF Dropped

LEMMA AccountedWrite ==
    ASSUME Types, Facts, Write
    PROVE  Accounted'
<1>1. wf' = wf /\ run' = run /\ rc' = rc
  BY WriteMeans
<1>2. CASE ~(Deferring' \/ Graphing')
  BY <1>1, <1>2, AccountedNext
<1>3. CASE Deferring' \/ Graphing'
  <2> DEFINE c == Head(todo)
  <2>1. ~EndPass
    BY <1>3 DEF EndPass, Deferring, Graphing
  <2>2. Advance /\ todo # <<>> /\ pc = "write" /\ ~Refused /\ plan \subseteq plan' /\ c \in Calls
        /\ (c[1] = "plan" => c[2] \in plan')
    BY <2>1, WriteSteps DEF Refused
  <2>3. /\ UNCHANGED <<visit, pend, expd>> /\ (Deferring' <=> Deferring) /\ (Graphing' <=> Graphing)
        /\ \A d \in Outstanding : d = c \/ d \in Outstanding'
    BY <2>2, AdvanceFacts
  <2>4. (Deferring \/ Graphing) /\ Listed /\ ~Ending
    BY <1>3, <2>3 DEF Listed, Deferring, Graphing, Ending
  <2>5. /\ ExpectedAtFirst \subseteq expd /\ expd \subseteq DOMAIN snap
        /\ \A i \in wf.deferred : Covered(i)
        /\ \A i \in pend : Group(snap, i) = {} \/ Early
        /\ CancelledBeforeConcurrency =>
              pend = {} /\ \A j \in DOMAIN snap : Terminal(snap[j]) \/ <<"cancelled", j, "cancel">> \in Outstanding
    BY <2>4 DEF Facts, Accounted
  <2>6. /\ DOMAIN snap' = DOMAIN job' /\ DOMAIN snap \subseteq DOMAIN snap'
        /\ \A j \in DOMAIN snap : /\ snap'[j].placeholder = snap[j].placeholder
                                  /\ Terminal(snap[j]) => Terminal(snap'[j])
    BY <2>2, <2>4, WriteGrows DEF Grows, Terminal
  <2>7. DOMAIN snap' = DOMAIN snap
    <3>1. DOMAIN snap = DOMAIN job
      BY <2>4, ListShape
    <3>2. ASSUME NEW j, NEW b, CallAdds(j, b)
          PROVE  FALSE
      BY <2>4, <3>1, <3>2, AddedFacts DEF CreateSound, ReserveSound
    <3>3. ASSUME NEW new, CallRevises(new)
          PROVE  DOMAIN job' = DOMAIN job
      BY <3>3, RevisedFacts
    <3>4. DOMAIN job' = DOMAIN job
      BY <3>2, <3>3, WriteMeans DEF Refused, Dropped, Taken, CreatePlan, CreateNeeds, CallAdds, CallRevises
    <3> QED
      BY <2>6, <3>1, <3>4
  <2>8. \A j \in expd : j \in plan \/ <<"plan", j>> \in Outstanding => j \in plan' \/ <<"plan", j>> \in Outstanding'
    <3>1. ASSUME NEW j, c = <<"plan", j>>
          PROVE  j \in plan'
      BY <2>2, <3>1
    <3> QED
      BY <2>2, <2>3, <3>1
  <2>9. ASSUME NEW j \in DOMAIN snap, Terminal(snap[j]) \/ <<"cancelled", j, "cancel">> \in Outstanding
        PROVE  Terminal(snap'[j]) \/ <<"cancelled", j, "cancel">> \in Outstanding'
    <3>1. CASE c = <<"cancelled", j, "cancel">>
      <4>1. c[1] \in Results /\ c[2] = j
        BY <3>1 DEF Results
      <4> QED
        BY <2>2, <2>4, <4>1, ResultWritten
    <3>2. CASE c # <<"cancelled", j, "cancel">>
      BY <2>3, <2>6, <2>9, <3>2
    <3> QED
      BY <3>1, <3>2
  <2> HIDE DEF c
  <2>10. ASSUME NEW i \in wf.deferred
         PROVE  \/ Deferring' /\ i \in visit'
                \/ i \in pend'
                \/ /\ Expanded(i) \subseteq expd'
                   /\ \A j \in Expanded(i) : Terminal(snap'[j]) \/ j \in plan' \/ <<"plan", j>> \in Outstanding'
                \/ <<i, 0>> \in expd' /\ snap'[<<i, 0>>].placeholder /\ Terminal(snap'[<<i, 0>>])
    <3>1. CASE (Deferring /\ i \in visit) \/ i \in pend
      BY <2>3, <3>1
    <3>2. CASE Expanded(i) \subseteq expd /\ \A j \in Expanded(i) : Terminal(snap[j]) \/ j \in plan \/ <<"plan", j>> \in Outstanding
      <4>1. ASSUME NEW j \in Expanded(i)
            PROVE  Terminal(snap'[j]) \/ j \in plan' \/ <<"plan", j>> \in Outstanding'
        BY <2>5, <2>6, <2>8, <3>2, <4>1
      <4> QED
        BY <2>3, <3>2, <4>1
    <3>3. CASE <<i, 0>> \in expd /\ snap[<<i, 0>>].placeholder /\ Terminal(snap[<<i, 0>>])
      BY <2>3, <2>5, <2>6, <3>3
    <3> QED
      BY <2>5, <3>1, <3>2, <3>3 DEF Covered
  <2>11. /\ \A i : Group(snap', i) = Group(snap, i)
         /\ Early' <=> Early
         /\ (rc'.cancel /\ rc'.planned = "waiting") <=> CancelledBeforeConcurrency
    BY <1>1, <2>7 DEF Early, CancelledBeforeConcurrency, Group
  <2> QED
    BY <1>1, <2>3, <2>5, <2>7, <2>9, <2>10, <2>11, AccountedNext
<1> QED
  BY <1>2, <1>3

LEMMA AccountedStays ==
    ASSUME Types, Facts, Next, gone' = {}
    PROVE  Accounted'
<1>1. wf' = wf /\ (Early /\ Listed' => Early')
  BY JobsGrow, EarlyStays
<1>2. CASE ~(Deferring' \/ Graphing')
  BY <1>1, <1>2, AccountedNext
<1> SUFFICES ASSUME Deferring' \/ Graphing', Listed'
             PROVE  Accounted'
  BY <1>2 DEF Listed
(* A step of the reconcile, or of others, that leaves what is expected.    *)
<1>3. ASSUME UNCHANGED <<snap, rc, pend, expd, plan>>, Deferring \/ Graphing, Outstanding \subseteq Outstanding',
             Deferring => visit = {} \/ (Deferring' /\ visit' = visit)
      PROVE  Accounted'
  <2>1. /\ ExpectedAtFirst \subseteq expd /\ expd \subseteq DOMAIN snap
        /\ \A i \in wf.deferred : Covered(i)
        /\ \A i \in pend : Group(snap, i) = {} \/ Early
        /\ CancelledBeforeConcurrency =>
              pend = {} /\ \A j \in DOMAIN snap : Terminal(snap[j]) \/ <<"cancelled", j, "cancel">> \in Outstanding
    BY <1>3 DEF Facts, Accounted
  <2>2. \A i \in wf.deferred :
                \/ Deferring' /\ i \in visit'
                \/ i \in pend'
                \/ /\ Expanded(i) \subseteq expd'
                   /\ \A j \in Expanded(i) : Terminal(snap'[j]) \/ j \in plan' \/ <<"plan", j>> \in Outstanding'
                \/ <<i, 0>> \in expd' /\ snap'[<<i, 0>>].placeholder /\ Terminal(snap'[<<i, 0>>])
    BY <1>3, <2>1 DEF Covered
  <2>3. \A i \in pend' : Group(snap', i) = {} \/ Early'
    BY <1>1, <1>3, <2>1
  <2>4. rc'.cancel /\ rc'.planned = "waiting" =>
           pend' = {} /\ \A j \in DOMAIN snap' : Terminal(snap'[j]) \/ <<"cancelled", j, "cancel">> \in Outstanding'
    BY <1>3, <2>1 DEF CancelledBeforeConcurrency
  <2> QED
    BY <1>1, <1>3, <2>1, <2>2, <2>3, <2>4, AccountedNext
<1>4. CASE ListJobs
  <2>1. /\ pc = "list" /\ snap' = job /\ goal' = "deferred" /\ pc' \in {"deferred", "write"}
        /\ CancelledBeforeConcurrency =>
             \A j \in DOMAIN job : Terminal(job[j]) \/ <<"cancelled", j, "cancel">> \in Outstanding'
        /\ visit' = wf.deferred /\ pend' = {} /\ expd' = ExpectedAtFirst /\ UNCHANGED <<job, rc>>
    BY <1>4, ListJobsFacts
  <2>2. ExpectedAtFirst \subseteq DOMAIN job
    BY <2>1 DEF Facts, ExpectedThere, Created
  <2>3. Deferring'
    BY <2>1 DEF Deferring
  <2> QED
    BY <1>1, <2>1, <2>2, <2>3, AccountedNext DEF CancelledBeforeConcurrency
<1>5. CASE FailFast
  <2>1. pc = "deferred" /\ visit = {} /\ UNCHANGED <<snap, rc, pend, expd, plan>>
    BY <1>5, FailFastFacts
  <2>2. Outstanding = {}
    BY <2>1 DEF Types, Outstanding
  <2> QED
    BY <1>3, <2>1, <2>2 DEF Deferring
<1>6. CASE Graph
  <2>1. pc = "graph" /\ UNCHANGED <<snap, rc, pend, expd, plan>>
    BY <1>6, GraphFacts
  <2>2. Outstanding = {}
    BY <2>1 DEF Types, Outstanding
  <2> QED
    BY <1>3, <2>1, <2>2 DEF Deferring, Graphing
<1>7. CASE Environment
  <2>1. UNCHANGED <<snap, rc, pend, expd, plan, visit, todo, pc, goal>>
    BY <1>7, EnvironmentCases
  <2>2. Outstanding' = Outstanding /\ (Deferring' <=> Deferring) /\ (Graphing' <=> Graphing)
    BY <2>1 DEF Outstanding, Deferring, Graphing
  <2> QED
    BY <1>3, <2>1, <2>2
<1> QED
  BY <1>4, <1>5, <1>6, <1>7, AccountedDeferred, AccountedWrite, ListedSteps

LEMMA FactsStay ==
    ASSUME Types, Facts, Next, gone' = {}
    PROVE  Facts'
BY JobsTrueStays, ExpectedStays, SnapStays, SoundStays, AccountedStays DEF Facts

-----------------------------------------------------------------------------
(* The result of the run.                                                  *)

(* When all is closed no job is added and no result changes.               *)
LEMMA ClosedStays ==
    ASSUME Types, NEW g, Grows(job, g), DOMAIN g \subseteq Jobs, AllClosed(job)
    PROVE  /\ DOMAIN g = DOMAIN job /\ AllClosed(g)
           /\ \A j \in DOMAIN job : Terminal(job[j]) /\ g[j].result = job[j].result /\ g[j].timedOut = job[j].timedOut
<1>1. \A j \in DOMAIN job \cup DOMAIN g : j[1] \in Ids
  BY DEF Types, JobMap, Jobs
<1>2. DOMAIN g = DOMAIN job
  BY <1>1 DEF Grows, AllClosed
<1>3. \A j \in DOMAIN job : Terminal(job[j])
  BY <1>1 DEF AllClosed, ClosedIn, Group, Logical
<1> QED
  BY <1>2, <1>3, GrowsKeeps DEF Grows

LEMMA ClosedFinal ==
    ASSUME AllClosed(job), NEW id \in Ids, Types
    PROVE  Final(id)
<1>1. ClosedIn(job, id) /\ \A j \in Expanded(id) : j[1] = id
  BY ExpandedFacts DEF AllClosed, Types
<1> QED
  BY <1>1 DEF ClosedIn, Final, Group, Logical

LEMMA ResultKept ==
    ASSUME Types, Next, run.result # "none"
    PROVE  run' = run
<1>1. CASE Environment
  BY <1>1 DEF Environment, Sync, Cancel, Approve, NewRevision, Assign, Finish, StopPod, DeleteJob
<1>2. CASE RunSteps
  BY <1>2, RunStepMeans DEF RunWritten
<1>3. CASE Write
  BY <1>3, WriteMeans
<1>4. CASE StartPass \/ PlanRun \/ ListJobs \/ ReconcileDeferred \/ FailFast \/ Graph \/ Abort
  BY <1>4 DEF StartPass, PlanRun, ListJobs, ReconcileDeferred, FailFast, Graph, Abort
<1> QED
  BY <1>1, <1>2, <1>3, <1>4, NextCases

(* How a result comes about.                                               *)
LEMMA ResultGiven ==
    ASSUME Types, Next, run'.result # run.result
    PROVE  /\ run = rc /\ UNCHANGED <<wf, job, work, gone, plan>>
           /\ \/ run'.planned # "true" /\ run'.result # "lost"
              \/ pc = "graph" /\ visit = {} /\ StateMissing /\ run'.planned = "false"
              \/ pc = "graph" /\ RunDone /\ run'.result = Conclusion /\ run'.cancel = run.cancel
<1>1. CASE Environment
  <2>1. run \in RunRecord
    BY DEF Types
  <2>2. [run EXCEPT !.cancel = TRUE].result = run.result /\ [run EXCEPT !.approved = TRUE].result = run.result
    BY <2>1 DEF RunRecord
  <2> QED
    BY <1>1, <2>2 DEF Environment, Sync, Cancel, Approve, NewRevision, Assign, Finish, StopPod, DeleteJob
<1>2. CASE RunSteps
  BY <1>2, RunStepMeans DEF RunWritten
<1>3. CASE Write
  BY <1>3, WriteMeans
<1>4. CASE StartPass \/ PlanRun \/ ListJobs \/ ReconcileDeferred \/ FailFast \/ Graph \/ Abort
  BY <1>4 DEF StartPass, PlanRun, ListJobs, ReconcileDeferred, FailFast, Graph, Abort
<1> QED
  BY <1>1, <1>2, <1>3, <1>4, NextCases

LEMMA DoneList ==
    ASSUME Types, Facts, pc = "graph", RunDone
    PROVE  /\ AllClosed(job) /\ DOMAIN snap = DOMAIN job
           /\ \A j \in DOMAIN job : Terminal(snap[j]) /\ Effective(job, j) = Effective(snap, j)
<1>1. Graphing /\ Listed /\ pend = {} /\ \A j \in DOMAIN snap : Terminal(snap[j])
  BY DEF Graphing, Listed, RunDone
<1>2. AllClosed(snap) /\ Grows(snap, job) /\ DOMAIN snap = DOMAIN job
  BY <1>1, ListClosed, ListShape
<1>3. AllClosed(job)
  BY <1>2, GrowsKeeps
<1> QED
  BY <1>1, <1>2, <1>3 DEF Grows, Effective

LEMMA DoneStays ==
    ASSUME Types, Facts, DoneClosed, Next, gone' = {}
    PROVE  DoneClosed'
<1>1. Grows(job, job') /\ wf' = wf
  BY JobsGrow
<1> SUFFICES ASSUME run'.result # "none", run'.planned = "true"
             PROVE  AllClosed(job')
  BY <1>1, SameForJob DEF DoneClosed
<1>2. CASE run'.result = run.result
  <2>1. run' = run
    BY <1>2, ResultKept
  <2> QED
    BY <1>1, <2>1, GrowsKeeps DEF DoneClosed
<1>3. CASE run'.result # run.result
  <2>1. pc = "graph" /\ RunDone
    BY <1>3, ResultGiven
  <2> QED
    BY <1>1, <2>1, DoneList, GrowsKeeps
<1> QED
  BY <1>2, <1>3

(* workflowRunConclusion: the result fits the results the list shows.      *)
LEMMA ConclusionSound ==
    ASSUME Types, RunDone, \A j \in DOMAIN snap : Terminal(snap[j])
    PROVE  LET E == {Effective(snap, j) : j \in DOMAIN snap} IN
           /\ work = {} \/ "cancelled" \notin E
           /\ Conclusion = "success" => E \subseteq {"success", "skipped"}
           /\ Conclusion \in {"failure", "timedout"} => "failure" \in E /\ ~rc.cancel
<1> DEFINE E == {Effective(snap, j) : j \in DOMAIN snap}
           timedOut == {j \in Having("failure") : snap[j].timedOut}
<1>1. \A j \in DOMAIN snap : snap[j].result \in Results /\ Effective(snap, j) \in Results
  <2>1. \A j \in DOMAIN snap : snap[j].result \in {"none"} \cup Results
    BY DEF Types, JobMap, JobRecord
  <2> QED
    BY <2>1, EffectiveSuccess DEF Terminal
<1>2. \A j \in DOMAIN snap : Effective(snap, j) = "cancelled" => j \in Having("cancelled")
  BY DEF Effective, Having
<1>3. \A j \in DOMAIN snap : Effective(snap, j) = "failure" => j \in Having("failure")
  BY DEF Effective, Having
<1>4. \A j \in timedOut : j \in DOMAIN snap /\ Effective(snap, j) = "failure"
  BY DEF Effective, Having
<1>5. work = {} \/ "cancelled" \notin E
  BY <1>2 DEF RunDone
<1>6. Conclusion = IF \E j \in Having("cancelled") : ~CancelledByFailFast(j) THEN "cancelled"
                   ELSE IF Having("failure") # {} /\ rc.cancel THEN "cancelled"
                   ELSE IF timedOut # {} THEN "timedout"
                   ELSE IF \E j \in Having("failure") : Effective(snap, j) = "failure" THEN "failure"
                   ELSE IF Having("cancelled") # {} THEN "cancelled"
                   ELSE "success"
  BY DEF Conclusion
<1>7. \A j \in Having("failure") : j \in DOMAIN snap
  BY DEF Having
<1>8. timedOut \subseteq Having("failure")
  OBVIOUS
<1> HIDE DEF timedOut
<1>9. ASSUME Conclusion = "success"
      PROVE  E \subseteq {"success", "skipped"}
  <2>1. Having("cancelled") = {} /\ ~\E j \in Having("failure") : Effective(snap, j) = "failure"
    BY <1>6, <1>9
  <2>2. \A j \in DOMAIN snap : Effective(snap, j) \notin {"failure", "cancelled"}
    BY <1>2, <1>3, <2>1
  <2> QED
    BY <1>1, <2>2 DEF Results
<1>10. ASSUME Conclusion = "timedout"
       PROVE  "failure" \in E /\ ~rc.cancel
  <2>1. timedOut # {} /\ ~(Having("failure") # {} /\ rc.cancel)
    BY <1>6, <1>10
  <2> QED
    BY <1>4, <1>8, <2>1
<1>11. ASSUME Conclusion = "failure"
       PROVE  "failure" \in E /\ ~rc.cancel
  <2>1. (\E j \in Having("failure") : Effective(snap, j) = "failure") /\ ~(Having("failure") # {} /\ rc.cancel)
    BY <1>6, <1>11
  <2> QED
    BY <1>7, <2>1
<1> QED
  BY <1>5, <1>9, <1>10, <1>11

LEMMA ConclusionStays ==
    ASSUME Types, Types', Facts, DoneClosed, ConclusionFits, Next, gone' = {}
    PROVE  ConclusionFits'
<1>1. Grows(job, job') /\ wf' = wf /\ gone = {} /\ DOMAIN job' \subseteq Jobs
  BY JobsGrow, SameJobs DEF Types, JobMap
<1> DEFINE E == {Effective(job, j) : j \in DOMAIN job}
           After == {Effective(job', j) : j \in DOMAIN job'}
<1>2. E' = After
  BY <1>1, SameForJob
<1> SUFFICES ASSUME run'.result # "none", run'.planned = "true"
             PROVE  /\ (\A id \in Ids : Final(id))'
                    /\ work' = {} \/ "cancelled" \notin After
                    /\ run'.result = "success" => After \subseteq {"success", "skipped"}
                    /\ run'.result \in {"failure", "timedout"} => "failure" \in After /\ ~run'.cancel
  BY <1>2 DEF ConclusionFits
<1>3. AllClosed(job)'
  BY DoneStays DEF DoneClosed
<1>4. (\A id \in Ids : Final(id))'
  <2>1. ASSUME NEW id \in Ids'
        PROVE  Final(id)'
    <3>1. Types' /\ AllClosed(job)'
      BY <1>3
    <3>2. (ClosedIn(job, id) /\ \A j \in Expanded(id) : j[1] = id)'
      BY <3>1, ExpandedFacts, SameExpanded, <1>1 DEF AllClosed, Types
    <3> QED
      BY <3>2 DEF ClosedIn, Final, Group, Logical
  <2> QED
    BY <2>1
<1>5. CASE run'.result = run.result
  <2>1. run' = run
    BY <1>5, ResultKept
  <2>2. AllClosed(job) /\ (\A j \in DOMAIN job : Terminal(job[j]))
    BY <1>1, <2>1, ClosedStays DEF DoneClosed
  <2>3. After = E
    <3>1. DOMAIN job' = DOMAIN job /\ \A j \in DOMAIN job : Effective(job', j) = Effective(job, j)
      BY <1>1, <2>2, ClosedStays DEF Effective
    <3> QED
      BY <3>1
  <2>4. work' \subseteq work
    <3>1. CASE Environment
      BY <2>2, <3>1, EnvironmentCases DEF Taking, Ended
    <3>2. CASE ~Environment
      BY <3>2, NextCases, RunStepMeans, WriteMeans
         DEF StartPass, PlanRun, ListJobs, ReconcileDeferred, FailFast, Graph, Abort, store
    <3> QED
      BY <3>1, <3>2
  <2>5. /\ work = {} \/ "cancelled" \notin E
        /\ run.result = "success" => E \subseteq {"success", "skipped"}
        /\ run.result \in {"failure", "timedout"} => "failure" \in E /\ ~run.cancel
    BY <1>1, <2>1 DEF ConclusionFits
  <2> HIDE DEF E, After
  <2> QED
    BY <1>4, <2>1, <2>3, <2>4, <2>5
<1>6. CASE run'.result # run.result
  <2>1. /\ pc = "graph" /\ RunDone /\ run'.result = Conclusion /\ run'.cancel = rc.cancel
        /\ UNCHANGED <<job, work>>
    BY <1>6, ResultGiven
  <2>2. DOMAIN snap = DOMAIN job /\ \A j \in DOMAIN job : Terminal(snap[j]) /\ Effective(job, j) = Effective(snap, j)
    BY <2>1, DoneList
  <2> DEFINE shown == {Effective(snap, j) : j \in DOMAIN snap}
  <2>3. /\ work = {} \/ "cancelled" \notin shown
        /\ Conclusion = "success" => shown \subseteq {"success", "skipped"}
        /\ Conclusion \in {"failure", "timedout"} => "failure" \in shown /\ ~rc.cancel
    BY <2>1, <2>2, ConclusionSound
  <2>4. After = shown
    BY <2>1, <2>2
  <2> HIDE DEF shown, After
  <2> QED
    BY <1>4, <2>1, <2>3, <2>4
<1> QED
  BY <1>5, <1>6

(* All that the list shows was expected, or a placeholder is beside a job. *)
LEMMA NothingMissing ==
    ASSUME Types, Facts, pc = "graph", visit = {}, run = rc, StateMissing
    PROVE  PlaceholderBesideJob
<1> SUFFICES ASSUME ~PlaceholderBesideJob PROVE FALSE
  OBVIOUS
<1>1. Graphing /\ Listed /\ ~Deferring /\ todo = <<>> /\ run.result = "none"
  BY DEF Graphing, Listed, Deferring, Types
<1>2. Outstanding = {}
  BY <1>1 DEF Outstanding
<1>3. /\ ExpectedAtFirst \subseteq expd /\ expd \subseteq DOMAIN snap
      /\ \A i \in pend : Group(snap, i) = {} \/ Early
      /\ CancelledBeforeConcurrency => pend = {}
  BY <1>1 DEF Facts, Accounted
<1>4. \A i \in wf.deferred :
         \/ i \in pend
         \/ Expanded(i) \subseteq expd /\ \A j \in Expanded(i) : Terminal(snap[j]) \/ j \in plan
         \/ <<i, 0>> \in expd /\ snap[<<i, 0>>].placeholder /\ Terminal(snap[<<i, 0>>])
  BY <1>1, <1>2 DEF Facts, Accounted, Covered
<1>5. \A i \in pend : Group(snap, i) = {}
  BY <1>1, <1>3 DEF Early, CancelledBeforeConcurrency
<1>6. ExpectedAtFirst \subseteq plan
  BY <1>1 DEF Facts, ExpectedThere, Created
<1>7. DOMAIN snap = DOMAIN job /\ \A j \in DOMAIN snap :
         /\ j[1] \in Ids /\ snap[j].placeholder = job[j].placeholder
         /\ snap[j].placeholder => j = <<j[1], 0>> /\ j[1] \in wf.deferred
         /\ ~snap[j].placeholder => j \in Expanded(j[1])
  BY <1>1, ListShape
<1>8. ASSUME NEW j \in DOMAIN snap
      PROVE  j \in expd /\ (Terminal(snap[j]) \/ j \in plan)
  <2> DEFINE id == j[1]
             one == <<id, 0>>
  <2>1. CASE id \notin wf.deferred
    <3>1. j \in Expanded(id) /\ id \in Ids
      BY <1>7, <2>1
    <3>2. j \in ExpectedAtFirst
      BY <2>1, <3>1, ExpectedFacts DEF Types
    <3> QED
      BY <1>3, <1>6, <3>2
  <2>2. CASE id \in wf.deferred
    <3>1. id \notin pend
      BY <1>5 DEF Group, Logical
    <3>2. CASE Expanded(id) \subseteq expd /\ \A k \in Expanded(id) : Terminal(snap[k]) \/ k \in plan
      <4>1. ASSUME j \notin Expanded(id)
            PROVE  FALSE
        <5>1. snap[j].placeholder /\ j = one
          BY <1>7, <4>1
        <5>2. Expanded(id) # {} /\ \A k \in Expanded(id) : k[1] = id
          BY <1>7, ExpandedFacts DEF Types
        <5>3. PICK k \in Expanded(id) : k \in DOMAIN snap /\ k[1] = id /\ k # j
          BY <1>3, <3>2, <4>1, <5>2
        <5>4. ~snap[k].placeholder
          BY <1>7, <5>1, <5>3
        <5> QED
          BY <1>7, <5>1, <5>3, <5>4 DEF PlaceholderBesideJob, Logical
      <4> QED
        BY <3>2, <4>1
    <3>3. CASE one \in expd /\ snap[one].placeholder /\ Terminal(snap[one])
      <4>1. ASSUME j # one
            PROVE  FALSE
        <5>1. ~snap[j].placeholder
          BY <1>7, <4>1
        <5>2. one \in DOMAIN job /\ job[one].placeholder /\ ~job[j].placeholder /\ one[1] = j[1]
          BY <1>3, <1>7, <3>3, <5>1
        <5> QED
          BY <1>7, <5>2 DEF PlaceholderBesideJob, Logical
      <4> QED
        BY <3>3, <4>1
    <3> QED
      BY <1>4, <2>2, <3>1, <3>2, <3>3
  <2> QED
    BY <2>1, <2>2
<1>9. expd = DOMAIN snap
  BY <1>3, <1>8
<1> QED
  BY <1>8, <1>9 DEF StateMissing

LEMMA LostStays ==
    ASSUME Types, Facts, LostOnlyWhenDeleted, Next, gone' = {}
    PROVE  LostOnlyWhenDeleted'
<1>1. Grows(job, job') /\ gone = {}
  BY JobsGrow
<1>2. PlaceholderBesideJob => PlaceholderBesideJob'
  BY <1>1 DEF PlaceholderBesideJob, Grows
<1> SUFFICES ASSUME run'.result = "lost"
             PROVE  PlaceholderBesideJob
  BY <1>2 DEF LostOnlyWhenDeleted
<1>3. CASE run'.result = run.result
  BY <1>1, <1>3 DEF LostOnlyWhenDeleted
<1>4. CASE run'.result # run.result
  <2>1. pc = "graph" /\ visit = {} /\ run = rc /\ StateMissing
    BY <1>4, ResultGiven, ConclusionValues
  <2> QED
    BY <2>1, NothingMissing
<1> QED
  BY <1>3, <1>4

-----------------------------------------------------------------------------
(* The inductive invariant.                                                *)

LEMMA GraphInvInit == Init => GraphInv
<1> SUFFICES ASSUME Init PROVE GraphInv
  OBVIOUS
<1>1. /\ job = <<>> /\ needs = <<>> /\ snap = <<>> /\ pc = "idle" /\ goal = "idle" /\ todo = <<>>
      /\ rcache = run /\ rc = run /\ run.planned = "new" /\ run.result = "none" /\ ~run.cancel
  BY DEF Init
<1>2. DOMAIN job = {} /\ DOMAIN needs = {} /\ Outstanding = {}
  BY <1>1 DEF Outstanding
<1>3. ~Listed /\ ~Deferring /\ ~Graphing /\ ~Creating /\ ~Created
  BY <1>1 DEF Listed, Deferring, Graphing, Ending, Creating, Created
<1>4. JobsTrue
  BY <1>1, <1>2 DEF JobsTrue, Shaped, EndedIn, OpenedIn, AdmittedJustified, NeedsTrue, CopyTrue
<1>5. ExpectedThere /\ SnapTrue /\ CallsSound /\ Accounted
  BY <1>2, <1>3 DEF ExpectedThere, SnapTrue, CallsSound, Accounted
<1>6. DoneClosed /\ ConclusionFits /\ LostOnlyWhenDeleted
  BY <1>1 DEF DoneClosed, ConclusionFits, LostOnlyWhenDeleted
<1> QED
  BY <1>4, <1>5, <1>6, TypesInductive DEF GraphInv

LEMMA GraphInvNext == GraphInv /\ [Next]_vars => GraphInv'
<1>1. ASSUME GraphInv, Next
      PROVE  GraphInv'
  <2>1. Types /\ Types'
    BY <1>1, TypesInductive DEF GraphInv
  <2>2. gone' = {} => gone = {}
    <3>1. CASE Environment
      BY <2>1, <3>1, EnvironmentCases
    <3>2. CASE ~Environment
      BY <1>1, <2>1, <3>2, NextCases, RunStepMeans, WriteMeans
         DEF StartPass, PlanRun, ListJobs, ReconcileDeferred, FailFast, Graph, Abort, store
    <3> QED
      BY <3>1, <3>2
  <2>3. CASE gone' = {}
    <3>1. Facts /\ DoneClosed /\ ConclusionFits /\ LostOnlyWhenDeleted
      BY <1>1, <2>2, <2>3 DEF GraphInv, Facts
    <3>2. Facts' /\ DoneClosed' /\ ConclusionFits' /\ LostOnlyWhenDeleted'
      BY <1>1, <2>1, <2>3, <3>1, FactsStay, DoneStays, ConclusionStays, LostStays
    <3> QED
      BY <2>1, <3>2 DEF GraphInv, Facts
  <2>4. CASE gone' # {}
    BY <2>1, <2>4 DEF GraphInv
  <2> QED
    BY <2>3, <2>4
<1>2. ASSUME GraphInv, UNCHANGED vars
      PROVE  GraphInv'
  <2>1. Types'
    BY <1>2, TypesInductive DEF GraphInv
  <2>2. Shaped' = Shaped /\ EndedIn(job)' = EndedIn(job) /\ OpenedIn(job)' = OpenedIn(job)
    BY <1>2 DEF vars, Shaped, EndedIn, OpenedIn, NeedsClosed, ClosedIn, Group, Logical, Expanded, Terminal, Early
  <2>3. AdmittedJustified' = AdmittedJustified
    BY <1>2 DEF vars, AdmittedJustified, Admitted, JustifiedIn, Ancestors, Ids, NeedsClosed, ClosedIn, Group,
                Logical, Expanded, Terminal, Effective
  <2>4. NeedsTrue' = NeedsTrue
    BY <1>2 DEF vars, NeedsTrue, Ids, NeedsContext, GroupResult, NeedsClosed, ClosedIn, Group, Logical, Expanded,
                Terminal, Effective
  <2>5. CopyTrue(rcache)' = CopyTrue(rcache) /\ CopyTrue(rc)' = CopyTrue(rc)
    BY <1>2 DEF vars, CopyTrue, Early, AllClosed, Ids, ClosedIn, Group, Logical, Expanded, Terminal
  <2>6. ExpectedThere' = ExpectedThere
    BY <1>2 DEF vars, ExpectedThere, Created, Creating, Listed, Deferring, Graphing, Ending, Outstanding,
                ExpectedAtFirst, Ids, Expanded
  <2>7. SnapTrue' = SnapTrue
    BY <1>2 DEF vars, SnapTrue, Listed, Deferring, Graphing, Ending, Grows, EndedIn, OpenedIn, NeedsClosed,
                ClosedIn, Group, Logical, Expanded, Terminal, Early
  <2>8. CallsSound' = CallsSound
    BY <1>2 DEF vars, CallsSound, CallSound, CreateSound, ReserveSound, Outstanding, Listed, Deferring, Graphing,
                Ending, JustifiedIn, Ancestors, Ids, NeedsClosed, ClosedIn, Group, Logical, Expanded, Terminal,
                Effective, CancelledBeforeConcurrency
  <2>9. Accounted' = Accounted
    BY <1>2 DEF vars, Accounted, Covered, Deferring, Graphing, ExpectedAtFirst, Ids, Expanded, Terminal, Outstanding,
                Group, Logical, Early, CancelledBeforeConcurrency
  <2>10. DoneClosed' = DoneClosed
    BY <1>2 DEF vars, DoneClosed, AllClosed, Ids, ClosedIn, Group, Logical, Expanded, Terminal
  <2>11. ConclusionFits' = ConclusionFits
    BY <1>2 DEF vars, ConclusionFits, Final, Ids, Expanded, Terminal, Effective, Logical
  <2>12. LostOnlyWhenDeleted' = LostOnlyWhenDeleted
    BY <1>2 DEF vars, LostOnlyWhenDeleted, PlaceholderBesideJob, Logical
  <2>13. JobsTrue' = JobsTrue
    BY <2>2, <2>3, <2>4, <2>5 DEF JobsTrue
  <2>14. gone' = gone
    BY <1>2 DEF vars
  <2> QED
    BY <1>2, <2>1, <2>6, <2>7, <2>8, <2>9, <2>10, <2>11, <2>12, <2>13, <2>14 DEF GraphInv
<1> QED
  BY <1>1, <1>2

(* GraphInv holds in every state the reconcile of a run and its            *)
(* environment reach, whatever the workflow and however many calls fail.   *)
THEOREM GraphInvariant == Spec => []GraphInv
<1>1. Init => GraphInv
  BY GraphInvInit
<1>2. GraphInv /\ [Next]_vars => GraphInv'
  BY GraphInvNext
<1> QED
  BY <1>1, <1>2, PTL DEF Spec

-----------------------------------------------------------------------------
(* What follows from it.                                                   *)

LEMMA ClosedIsFinal ==
    ASSUME Types, NEW id \in Ids, ClosedIn(job, id)
    PROVE  Final(id)
<1>1. \A j \in Expanded(id) : j[1] = id
  BY ExpandedFacts DEF Types
<1> QED
  BY <1>1 DEF ClosedIn, Final, Group, Logical

(* Needs.  No WorkflowJob is marked ready or taken by a Runner before      *)
(* every combination of every job it needs has its result, and none fails  *)
(* because the needs ConfigMap it was given differs from what a later      *)
(* reconcile finds (ensureNeedsContextConfigMap).                          *)
THEOREM NeedsAreRespected == Spec => []NeedsRespected
<1>1. ASSUME GraphInv
      PROVE  NeedsRespected
  <2>1. CASE gone # {}
    BY <2>1 DEF NeedsRespected, RunsAfterNeeds, NeedsSnapshotHolds
  <2>2. CASE gone = {}
    <3>1. Types /\ JobsTrue
      BY <1>1, <2>2 DEF GraphInv
    <3>2. ASSUME NEW j \in DOMAIN job, Admitted(j), NEW d \in wf.needs[j[1]]
          PROVE  Final(d)
      <4>1. ClosedIn(job, d)
        BY <3>1, <3>2 DEF JobsTrue, AdmittedJustified, JustifiedIn, NeedsClosed
      <4>2. j[1] \in Ids
        BY <3>1 DEF Types, JobMap, Jobs
      <4>3. d \in Ids
        BY <3>1, <4>2, WorkflowFacts DEF Types
      <4> QED
        BY <3>1, <4>1, <4>3, ClosedIsFinal
    <3>3. NeedsSnapshotHolds
      BY <3>1 DEF JobsTrue, NeedsTrue, NeedsSnapshotHolds
    <3> QED
      BY <3>2, <3>3 DEF NeedsRespected, RunsAfterNeeds, Logical
  <2> QED
    BY <2>1, <2>2
<1> QED
  BY <1>1, GraphInvariant, PTL

LEMMA ConditionHolds ==
    ASSUME GraphInv
    PROVE  ConditionJustified
<1> SUFFICES ASSUME gone = {}, NEW j \in DOMAIN job, job[j].runner
             PROVE  LET A == {k \in DOMAIN job : Logical(k) \in Ancestors(Logical(j))} IN
                    /\ wf.cond[Logical(j)] = "none" => \A k \in A : Effective(job, k) = "success"
                    /\ wf.cond[Logical(j)] = "failure" => \E k \in A : Effective(job, k) = "failure"
  BY DEF ConditionJustified
<1>1. JustifiedIn(job, j[1])
  BY DEF GraphInv, JobsTrue, AdmittedJustified, Admitted
<1> QED
  BY <1>1 DEF JustifiedIn, Group, Logical

(* Results.  A job a Runner has taken was allowed by the results of its    *)
(* ancestors, and these still say so; the result of a run is the one its   *)
(* jobs add up to; and a run is "lost" only when somebody deleted a job or *)
(* a placeholder stands beside a combination.                              *)
THEOREM OutcomesAreJustified == Spec => []OutcomeJustified
<1>1. ASSUME GraphInv
      PROVE  OutcomeJustified
  <2>1. ConditionJustified
    BY <1>1, ConditionHolds
  <2>2. ConclusionFits
    BY <1>1 DEF GraphInv, ConclusionFits
  <2>3. LostOnlyWhenDeleted
    BY <1>1 DEF GraphInv, LostOnlyWhenDeleted
  <2> QED
    BY <2>1, <2>2, <2>3 DEF OutcomeJustified
<1> QED
  BY <1>1, GraphInvariant, PTL

(* A job that has a result keeps it, also when others are deleted.         *)
LEMMA JobResultsKept ==
    ASSUME Types, Next, NEW j \in DOMAIN job \cap DOMAIN job', Terminal(job[j])
    PROVE  job'[j].result = job[j].result
<1>1. JobMap(job)
  BY DEF Types
<1>2. CASE Write
  <2> DEFINE c == Head(todo)
  <2>1. c[2] \in Jobs
    BY <1>2, WriteMeans
  <2>2. ASSUME NEW b \in BOOLEAN, Added(c[2], b)
        PROVE  job'[j].result = job[j].result
    BY <2>2 DEF Added, With
  <2>3. ASSUME NEW new, Revised(c, new)
        PROVE  job'[j].result = job[j].result
    BY <2>3 DEF Revised, Updated
  <2> QED
    BY <1>2, <2>2, <2>3, WriteMeans DEF Refused, Dropped, Taken, CreatePlan, CreateNeeds
<1>3. CASE Environment
  <2>1. CASE Sync \/ Cancel \/ Approve \/ NewRevision \/ \E i \in DefinedJobs(wf) : StopPod(i)
    BY <2>1 DEF Sync, Cancel, Approve, NewRevision, StopPod, store
  <2>2. ASSUME NEW i \in DefinedJobs(wf), Assign(i) \/ Finish(i)
        PROVE  job'[j].result = job[j].result
    <3>1. i # j /\ \A k \in DOMAIN job : k # i => job'[k] = job[k]
      BY <1>1, <2>2 DEF Assign, Finish, JobMap
    <3> QED
      BY <3>1
  <2>3. ASSUME NEW i \in DefinedJobs(wf), DeleteJob(i)
        PROVE  job'[j].result = job[j].result
    BY <2>3 DEF DeleteJob
  <2> QED
    BY <1>3, <2>1, <2>2, <2>3 DEF Environment
<1>4. CASE RunSteps
  BY <1>4, RunStepMeans
<1>5. CASE StartPass \/ PlanRun \/ ListJobs \/ ReconcileDeferred \/ FailFast \/ Graph \/ Abort
  BY <1>5 DEF StartPass, PlanRun, ListJobs, ReconcileDeferred, FailFast, Graph, Abort, store
<1> QED
  BY <1>2, <1>3, <1>4, <1>5, NextCases

(* A run whose result came from its jobs has no job left to take, and one  *)
(* that got a result without them is not planned.                          *)
LEMMA QuietStep ==
    ASSUME GraphInv, Next, run.result # "none", gone = {}
    PROVE  work' \subseteq work
<1>1. Types /\ DoneClosed
  BY DEF GraphInv
<1>2. CASE Environment
  <2>1. ASSUME NEW j \in DefinedJobs(wf), Assign(j)
        PROVE  FALSE
    <3>1. run.planned = "true" /\ j \in DOMAIN job /\ ~Terminal(job[j])
      BY <2>1 DEF Assign
    <3>2. j[1] \in Ids
      BY <1>1, <3>1 DEF Types, JobMap, Jobs
    <3>3. ClosedIn(job, j[1])
      BY <1>1, <3>1, <3>2 DEF DoneClosed, AllClosed
    <3> QED
      BY <3>1, <3>3 DEF ClosedIn, Group, Logical
  <2> QED
    BY <1>2, <2>1 DEF Environment, Sync, Cancel, Approve, NewRevision, Finish, StopPod, DeleteJob, store
<1>3. CASE Write
  BY <1>1, <1>3, WriteMeans
<1>4. CASE RunSteps
  BY <1>1, <1>4, RunStepMeans
<1>5. CASE StartPass \/ PlanRun \/ ListJobs \/ ReconcileDeferred \/ FailFast \/ Graph \/ Abort
  BY <1>5 DEF StartPass, PlanRun, ListJobs, ReconcileDeferred, FailFast, Graph, Abort, store
<1> QED
  BY <1>2, <1>3, <1>4, <1>5, NextCases

(* What is settled.  A run or a job that has a result keeps it, whichever  *)
(* controller writes next and from whatever copy, and nothing starts for a *)
(* run that has one.                                                       *)
THEOREM SettledThingsStay == Spec => SettledStays
<1>1. ASSUME GraphInv, [Next]_vars
      PROVE  [ResultsStick /\ QuietAfterCompletion]_vars
  <2> SUFFICES ASSUME Next
               PROVE  ResultsStick /\ QuietAfterCompletion
    BY <1>1
  <2>1. Types
    BY <1>1 DEF GraphInv
  <2>2. ResultsStick
    BY <2>1, ResultKept, JobResultsKept DEF ResultsStick
  <2>3. QuietAfterCompletion
    BY <1>1, QuietStep DEF QuietAfterCompletion
  <2> QED
    BY <2>2, <2>3
<1> QED
  BY <1>1, GraphInvariant, PTL DEF Spec, SettledStays
=============================================================================
