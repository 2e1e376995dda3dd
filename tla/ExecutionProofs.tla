--------------------------- MODULE ExecutionProofs ---------------------------
(* Proofs about what a job does: the execution of its plan in the runner   *)
(* (StepExecution), for every plan and every moment at which the job or    *)
(* its cleanup context ends.                                               *)
EXTENDS MCComponents, FiniteSetTheorems, SequenceTheorems, TLAPS

-----------------------------------------------------------------------------
(* StepExecution.                                                          *)

Key == Nat \X Nat

InnerState ==
    [at : Nat, context : {"none", "job", "cleanup"}, late : BOOLEAN,
     failed : BOOLEAN, cancelled : BOOLEAN, err : BOOLEAN]

(* The phases before the post hooks, and those in which a step ends.       *)
Stepping == {"step", "begin", "command", "composite", "beginInner", "inner"}

Hooking == {"posts", "post", "result", "end"}

ExecutionType ==
    /\ step \in Nat \ {0} /\ phase \in Stepping \cup {"beginPosts"} \cup Hooking
    /\ job \in {"ok", "cancelled", "timed_out"} /\ inner \in InnerState
    /\ posts \in Seq(Key)
    /\ seen \in [killed : SUBSET Nat, late : SUBSET Key, hooks : Seq(Key), ran : Seq(Key)]

(* What was recorded is about steps that are over, and what a cancellation *)
(* killed was recorded as cancelled.                                       *)
Past == {s \in Nat : 0 < s /\ s < step}

RecordedPast ==
    /\ DOMAIN recorded \subseteq Past /\ seen.killed \subseteq Past
    /\ Execution!CancelledIsNotTolerated

(* No step failed or was cancelled without an error.                       *)
ErrorsCounted ==
    ~errs => \A s \in DOMAIN recorded : recorded[s].conclusion # "failure" /\ recorded[s].outcome # "cancelled"

ResultFits ==
    /\ phase \in {"result", "end"} =>
          /\ result = "success" => ~errs
          /\ result \in {"cancelled", "timed_out"} => job = result
    /\ phase = "end" => (errs /\ job # "ok" => result = job)

(* The first n hooks wait for their turn, the others had it in reverse.    *)
InTurn(n) ==
    /\ Len(seen.hooks) = n + Len(seen.ran)
    /\ \A i \in 1..n : posts[i] = seen.hooks[i]
    /\ \A i \in 1..Len(seen.ran) : seen.ran[i] = seen.hooks[Len(seen.hooks) - i + 1]

HooksFit ==
    /\ phase \notin Hooking => seen.ran = <<>> /\ posts = seen.hooks
    /\ phase \in {"posts", "result", "end"} => InTurn(Len(posts))
    /\ phase = "post" => posts # <<>> /\ InTurn(Len(posts) - 1)
    /\ phase \in {"result", "end"} => posts = <<>>

ExecutionInv ==
    ExecutionType /\ RecordedPast /\ Execution!CleanupHasContext /\ ErrorsCounted /\ ResultFits /\ HooksFit

LEMMA ExecutionInitInv == ASSUME Execution!ExecutionInit PROVE ExecutionInv
<1>1. /\ step = 1 /\ phase = "step" /\ job = "ok" /\ inner = Execution!NoInner /\ errs = FALSE
      /\ recorded = <<>> /\ posts = <<>> /\ result = "none"
      /\ seen = [killed |-> {}, late |-> {}, hooks |-> <<>>, ran |-> <<>>]
  BY DEF Execution!ExecutionInit
<1>2. inner \in InnerState
  BY <1>1 DEF InnerState, Execution!NoInner
<1>3. seen \in [killed : SUBSET Nat, late : SUBSET Key, hooks : Seq(Key), ran : Seq(Key)]
  BY <1>1
<1>4. ExecutionType
  BY <1>1, <1>2, <1>3 DEF ExecutionType, Stepping
<1>5. DOMAIN recorded = {} /\ seen.killed = {} /\ seen.late = {}
  BY <1>1
<1>6. RecordedPast /\ Execution!CleanupHasContext /\ ErrorsCounted
  BY <1>5 DEF RecordedPast, Execution!CancelledIsNotTolerated, Execution!CleanupHasContext, ErrorsCounted
<1>7. ResultFits /\ HooksFit
  BY <1>1 DEF ResultFits, HooksFit, Hooking
<1> QED BY <1>4, <1>6, <1>7 DEF ExecutionInv

(* Before the hooks: what changes neither the records nor the hooks.       *)
LEMMA StepMoves ==
    ASSUME ExecutionInv, ExecutionType', UNCHANGED <<recorded, posts, seen>>,
           step <= step', errs => errs', phase \notin Hooking, phase' \notin Hooking
    PROVE  ExecutionInv'
<1>1. ExecutionType /\ RecordedPast /\ Execution!CleanupHasContext /\ ErrorsCounted /\ HooksFit
  BY DEF ExecutionInv
<1>2. step \in Nat /\ step' \in Nat
  BY <1>1 DEF ExecutionType
<1>3. Past \subseteq Past'
  BY <1>2 DEF Past
<1>4. RecordedPast'
  BY <1>1, <1>3 DEF RecordedPast, Execution!CancelledIsNotTolerated
<1>5. Execution!CleanupHasContext' /\ ErrorsCounted'
  BY <1>1 DEF Execution!CleanupHasContext, ErrorsCounted
<1>6. ResultFits' /\ HooksFit'
  BY <1>1 DEF ResultFits, HooksFit, Hooking
<1> QED BY <1>4, <1>5, <1>6 DEF ExecutionInv

(* A step ends and is recorded.                                            *)
LEMMA StepRecorded ==
    ASSUME ExecutionInv, ExecutionType', NEW o, NEW c, Execution!Record(step, o, c),
           phase \notin Hooking, phase' \notin Hooking, step' = step + 1, posts' = posts,
           errs => errs', c = "failure" \/ o = "cancelled" => errs',
           \/ seen' = seen
           \/ c = "cancelled" /\ seen' = [seen EXCEPT !.killed = @ \cup {step}]
    PROVE  ExecutionInv'
<1>1. ExecutionType /\ RecordedPast /\ Execution!CleanupHasContext /\ ErrorsCounted /\ HooksFit
  BY DEF ExecutionInv
<1>2. step \in Nat \ {0}
  BY <1>1 DEF ExecutionType
<1>3. Past' = Past \cup {step} /\ step \notin Past
  BY <1>2 DEF Past
<1>4. /\ DOMAIN recorded' = DOMAIN recorded \cup {step}
      /\ recorded'[step].outcome = o /\ recorded'[step].conclusion = c
      /\ \A s \in DOMAIN recorded : s # step => recorded'[s] = recorded[s]
  BY DEF Execution!Record, Execution!Outcome
<1>5. step \notin DOMAIN recorded /\ step \notin seen.killed
  BY <1>1, <1>3 DEF RecordedPast
<1>6. /\ seen'.late = seen.late /\ seen'.hooks = seen.hooks /\ seen'.ran = seen.ran
      /\ seen'.killed = seen.killed \/ (c = "cancelled" /\ seen'.killed = seen.killed \cup {step})
  BY <1>1 DEF ExecutionType
<1>7. RecordedPast'
  <2>1. DOMAIN recorded' \subseteq Past' /\ seen'.killed \subseteq Past'
    BY <1>1, <1>3, <1>4, <1>6 DEF RecordedPast
  <2>2. ASSUME NEW s \in seen'.killed, s \in DOMAIN recorded' PROVE recorded'[s].conclusion = "cancelled"
    <3>1. CASE s = step
      BY <1>4, <1>5, <1>6, <2>2, <3>1
    <3>2. CASE s # step
      <4>1. s \in seen.killed /\ s \in DOMAIN recorded
        BY <1>4, <1>6, <2>2, <3>2
      <4> QED BY <1>1, <1>4, <3>2, <4>1 DEF RecordedPast, Execution!CancelledIsNotTolerated
    <3> QED BY <3>1, <3>2
  <2> QED BY <2>1, <2>2 DEF RecordedPast, Execution!CancelledIsNotTolerated
<1>8. Execution!CleanupHasContext' /\ ResultFits'
  BY <1>1, <1>6 DEF Execution!CleanupHasContext, ResultFits, Hooking
<1>9. ErrorsCounted'
  BY <1>1, <1>4 DEF ErrorsCounted
<1>10. HooksFit'
  BY <1>1, <1>6 DEF HooksFit, Hooking
<1> QED BY <1>7, <1>8, <1>9, <1>10 DEF ExecutionInv

LEMMA EndStepInv ==
    ASSUME ExecutionInv, NEW ok \in BOOLEAN, NEW late, Execution!EndStep(ok, late),
           phase \notin Hooking, UNCHANGED <<job, posts>>, inner' \in InnerState,
           \/ seen' = seen
           \/ ~ok /\ Execution!CancelledDuring(late) /\ seen' = [seen EXCEPT !.killed = @ \cup {step}]
    PROVE  ExecutionInv'
<1>1. ExecutionType
  BY DEF ExecutionInv
<1>2. step' = step + 1 /\ phase' = "step"
  BY DEF Execution!EndStep
<1>3. seen' \in [killed : SUBSET Nat, late : SUBSET Key, hooks : Seq(Key), ran : Seq(Key)]
  BY <1>1 DEF ExecutionType
<1>4. ExecutionType'
  BY <1>1, <1>2, <1>3 DEF ExecutionType, Stepping
<1>5. phase' \notin Hooking
  BY <1>2 DEF Hooking
<1>6. PICK o, c :
        /\ Execution!Record(step, o, c) /\ (errs => errs')
        /\ (c = "failure" \/ o = "cancelled" => errs')
        /\ (~ok /\ Execution!CancelledDuring(late) => c = "cancelled")
  BY DEF Execution!EndStep, Execution!Tolerated
<1> QED BY <1>2, <1>4, <1>5, <1>6, StepRecorded

(* A command begins: its hook is registered first, in both lists.          *)
LEMMA BeginInv ==
    ASSUME ExecutionInv, NEW key \in Key, NEW s, NEW late, Execution!Begin(key, s, late),
           phase \notin Hooking, phase' \in Stepping,
           UNCHANGED <<step, job, inner, errs, recorded>>
    PROVE  ExecutionInv'
<1>1. ExecutionType /\ RecordedPast /\ Execution!CleanupHasContext /\ ErrorsCounted /\ HooksFit
  BY DEF ExecutionInv
<1>2. PICK hook \in Seq(Key) :
        /\ posts' = posts \o hook
        /\ seen' = [seen EXCEPT !.hooks = @ \o hook,
                                !.late = IF job # "ok" /\ Execution!CommandContext = "job" THEN @ \cup {key} ELSE @]
  <2> DEFINE hook == IF s.kind = "javascript" /\ s.post THEN <<key>> ELSE <<>>
  <2>1. hook \in Seq(Key)
    OBVIOUS
  <2>2. posts' = posts \o hook
    BY DEF Execution!Begin
  <2>3. seen' = [seen EXCEPT !.hooks = @ \o hook,
                             !.late = IF job # "ok" /\ Execution!CommandContext = "job" THEN @ \cup {key} ELSE @]
    BY Zenon DEF Execution!Begin
  <2> QED BY <2>1, <2>2, <2>3
<1>3. ~(job # "ok" /\ Execution!CommandContext = "job")
  BY DEF Execution!CommandContext
<1>4. /\ seen' \in [killed : SUBSET Nat, late : SUBSET Key, hooks : Seq(Key), ran : Seq(Key)]
      /\ seen'.killed = seen.killed /\ seen'.late = seen.late /\ seen'.ran = seen.ran /\ seen'.hooks = seen.hooks \o hook
  <2> DEFINE h == seen.hooks \o hook
             l == IF job # "ok" /\ Execution!CommandContext = "job" THEN seen.late \cup {key} ELSE seen.late
  <2>1. seen' = [seen EXCEPT !.hooks = h, !.late = l]
    BY <1>2
  <2>2. l = seen.late
    BY <1>3
  <2>3. seen.hooks \in Seq(Key) /\ seen.late \in SUBSET Key
    BY <1>1 DEF ExecutionType
  <2>4. h \in Seq(Key)
    BY <2>3, ConcatProperties
  <2> HIDE DEF h, l
  <2>5. seen' = [seen EXCEPT !.hooks = h, !.late = seen.late]
    BY <2>1, <2>2
  <2>6. /\ seen' \in [killed : SUBSET Nat, late : SUBSET Key, hooks : Seq(Key), ran : Seq(Key)]
        /\ seen'.killed = seen.killed /\ seen'.late = seen.late /\ seen'.ran = seen.ran /\ seen'.hooks = h
    BY <1>1, <2>3, <2>4, <2>5 DEF ExecutionType
  <2> QED BY <2>6 DEF h
<1>5. posts' \in Seq(Key)
  BY <1>1, <1>2 DEF ExecutionType
<1>6. ExecutionType'
  BY <1>1, <1>4, <1>5 DEF ExecutionType
<1>7. phase' \notin Hooking
  BY DEF Stepping, Hooking
<1>8. RecordedPast' /\ Execution!CleanupHasContext' /\ ErrorsCounted' /\ ResultFits'
  BY <1>1, <1>4, <1>7 DEF RecordedPast, Past, Execution!CancelledIsNotTolerated, Execution!CleanupHasContext,
                          ErrorsCounted, ResultFits, Hooking
<1>9. HooksFit'
  BY <1>1, <1>2, <1>4, <1>7 DEF HooksFit, Hooking
<1> QED BY <1>6, <1>8, <1>9 DEF ExecutionInv

(* The hooks: one more has its turn, or one that had it is over.           *)
LEMMA HookTurns ==
    ASSUME ExecutionType, posts # <<>>, InTurn(Len(posts)), seen' = [seen EXCEPT !.ran = Append(@, Execution!Last(posts))]
    PROVE  /\ seen' \in [killed : SUBSET Nat, late : SUBSET Key, hooks : Seq(Key), ran : Seq(Key)]
           /\ seen'.killed = seen.killed /\ seen'.late = seen.late /\ seen'.hooks = seen.hooks
           /\ Len(seen'.hooks) = Len(posts) - 1 + Len(seen'.ran)
           /\ \A i \in 1..Len(posts) - 1 : posts[i] = seen'.hooks[i]
           /\ \A i \in 1..Len(seen'.ran) : seen'.ran[i] = seen'.hooks[Len(seen'.hooks) - i + 1]
<1> DEFINE n == Len(posts)
           m == Len(seen.ran)
           x == Execution!Last(posts)
<1>1. posts \in Seq(Key) /\ seen.ran \in Seq(Key) /\ seen.hooks \in Seq(Key) /\ n \in Nat \ {0} /\ m \in Nat
  BY DEF ExecutionType
<1>2. x \in Key /\ x = posts[n]
  BY <1>1 DEF Execution!Last
<1>3. Append(seen.ran, x) \in Seq(Key)
  BY <1>1, <1>2
<1>4. /\ seen' \in [killed : SUBSET Nat, late : SUBSET Key, hooks : Seq(Key), ran : Seq(Key)]
      /\ seen'.killed = seen.killed /\ seen'.late = seen.late /\ seen'.hooks = seen.hooks
      /\ seen'.ran = Append(seen.ran, x)
  BY <1>3 DEF ExecutionType
<1>5. /\ Len(seen'.ran) = m + 1 /\ seen'.ran[m + 1] = x
      /\ \A i \in 1..m : seen'.ran[i] = seen.ran[i]
  BY <1>1, <1>2, <1>4
<1>6. Len(seen.hooks) = n + m /\ seen.hooks[n] = posts[n]
  BY <1>1 DEF InTurn
<1>7. \A i \in 1..m : seen.ran[i] = seen.hooks[Len(seen.hooks) - i + 1]
  BY DEF InTurn
<1>8. \A i \in 1..n : posts[i] = seen.hooks[i]
  BY DEF InTurn
<1>nat. n \in Nat /\ n > 0 /\ m \in Nat
  BY <1>1
<1> HIDE DEF n, m, x
<1>9. \A i \in 1..m + 1 : seen'.ran[i] = seen.hooks[n + m - i + 1]
  <2> SUFFICES ASSUME NEW i \in 1..m + 1
               PROVE  seen'.ran[i] = seen.hooks[n + m - i + 1]
    OBVIOUS
  <2>1. CASE i = m + 1
    <3>1. n + m - i + 1 = n
      BY <1>nat, <2>1
    <3> QED BY <1>2, <1>5, <1>6, <2>1, <3>1
  <2>2. CASE i \in 1..m
    <3>1. Len(seen.hooks) - i + 1 = n + m - i + 1
      BY <1>nat, <1>6, <2>2
    <3> QED BY <1>5, <1>7, <2>2, <3>1
  <2>3. i = m + 1 \/ i \in 1..m
    BY <1>nat
  <2> QED BY <2>1, <2>2, <2>3
<1>10. \A i \in 1..n - 1 : posts[i] = seen.hooks[i]
  BY <1>nat, <1>8
<1>len. Len(seen'.ran) = m + 1 /\ Len(seen'.hooks) = n + m
  <2>1. seen'.hooks = seen.hooks
    BY <1>4
  <2>2. Len(seen.hooks) = n + m
    BY <1>6
  <2> QED BY <1>5, <2>1, <2>2
<1>11. Len(seen'.hooks) = n - 1 + Len(seen'.ran)
  BY <1>nat, <1>len
<1>12. \A i \in 1..Len(seen'.ran) : seen'.ran[i] = seen'.hooks[Len(seen'.hooks) - i + 1]
  <2>1. seen'.hooks = seen.hooks
    BY <1>4
  <2>2. PICK r, h : r = seen'.ran /\ h = seen'.hooks
    OBVIOUS
  <2>3. Len(r) = m + 1 /\ Len(h) = n + m
    BY <1>len, <2>2
  <2>4. \A i \in 1..m + 1 : r[i] = h[n + m - i + 1]
    BY <1>9, <2>1, <2>2
  <2>5. \A i \in 1..Len(r) : r[i] = h[Len(h) - i + 1]
    <3> SUFFICES ASSUME NEW i \in 1..m + 1
                 PROVE  r[i] = h[Len(h) - i + 1]
      BY <2>3
    <3>1. Len(h) - i + 1 = n + m - i + 1
      BY <1>nat, <2>3
    <3> QED BY <2>4, <3>1
  <2> QED BY <2>2, <2>5, Zenon
<1> QED BY <1>4, <1>10, <1>11, <1>12 DEF n

LEMMA FrontFacts ==
    ASSUME NEW s \in Seq(Key), s # <<>>
    PROVE  /\ Execution!Front(s) \in Seq(Key) /\ Len(Execution!Front(s)) = Len(s) - 1
           /\ \A i \in 1..Len(s) - 1 : Execution!Front(s)[i] = s[i]
<1>1. Len(s) \in Nat /\ \A i \in 1..Len(s) : s[i] \in Key
  OBVIOUS
<1>2. Len(s) # 0
  OBVIOUS
<1> DEFINE n == Len(s) - 1
<1>3. n \in Nat /\ \A i \in 1..n : s[i] \in Key
  BY <1>1, <1>2
<1>4. Execution!Front(s) = SubSeq(s, 1, n)
  BY DEF Execution!Front
<1> HIDE DEF n
<1>5. /\ SubSeq(s, 1, n) \in Seq(Key) /\ Len(SubSeq(s, 1, n)) = n
      /\ \A i \in 1..n : SubSeq(s, 1, n)[i] = s[i]
  BY <1>3, SubSeqProperties
<1> QED BY <1>4, <1>5 DEF n

(* While the hooks run nothing is recorded any more.                       *)
LEMMA HookMoves ==
    ASSUME ExecutionInv, ExecutionType', HooksFit', ResultFits', UNCHANGED <<step, recorded>>, errs => errs',
           seen'.killed = seen.killed, seen'.late = seen.late
    PROVE  ExecutionInv'
<1>1. RecordedPast /\ Execution!CleanupHasContext /\ ErrorsCounted
  BY DEF ExecutionInv
<1>2. RecordedPast'
  BY <1>1 DEF RecordedPast, Past, Execution!CancelledIsNotTolerated
<1>3. Execution!CleanupHasContext' /\ ErrorsCounted'
  BY <1>1 DEF Execution!CleanupHasContext, ErrorsCounted
<1> QED BY <1>2, <1>3 DEF ExecutionInv

LEMMA SkipPostInv == ASSUME ExecutionInv, Execution!SkipPost PROVE ExecutionInv'
<1>1. /\ phase = "posts" /\ phase' = "posts" /\ posts # <<>> /\ posts' = Execution!Front(posts)
      /\ seen' = [seen EXCEPT !.ran = Append(@, Execution!Last(posts))]
      /\ UNCHANGED <<step, job, inner, errs, recorded, result>>
  BY DEF Execution!SkipPost
<1>2. ExecutionType /\ InTurn(Len(posts)) /\ posts \in Seq(Key)
  BY <1>1 DEF ExecutionInv, HooksFit, ExecutionType
<1>3. /\ seen' \in [killed : SUBSET Nat, late : SUBSET Key, hooks : Seq(Key), ran : Seq(Key)]
      /\ seen'.killed = seen.killed /\ seen'.late = seen.late
      /\ Len(seen'.hooks) = Len(posts) - 1 + Len(seen'.ran)
      /\ \A i \in 1..Len(posts) - 1 : posts[i] = seen'.hooks[i]
      /\ \A i \in 1..Len(seen'.ran) : seen'.ran[i] = seen'.hooks[Len(seen'.hooks) - i + 1]
  BY <1>1, <1>2, HookTurns
<1>4. /\ posts' \in Seq(Key) /\ Len(posts') = Len(posts) - 1
      /\ \A i \in 1..Len(posts) - 1 : posts'[i] = posts[i]
  BY <1>1, <1>2, FrontFacts
<1>5. ExecutionType'
  BY <1>1, <1>2, <1>3, <1>4 DEF ExecutionType
<1>6. HooksFit' /\ ResultFits'
  BY <1>1, <1>3, <1>4 DEF HooksFit, InTurn, ResultFits, Hooking
<1> QED BY <1>1, <1>3, <1>5, <1>6, HookMoves

LEMMA BeginPostInv == ASSUME ExecutionInv, Execution!BeginPost PROVE ExecutionInv'
<1>1. /\ phase = "posts" /\ phase' = "post" /\ posts # <<>>
      /\ seen' = [seen EXCEPT !.ran = Append(@, Execution!Last(posts))]
      /\ UNCHANGED <<posts, step, job, inner, errs, recorded, result>>
  BY DEF Execution!BeginPost, Execution!HookDue
<1>2. ExecutionType /\ InTurn(Len(posts))
  BY <1>1 DEF ExecutionInv, HooksFit
<1>3. /\ seen' \in [killed : SUBSET Nat, late : SUBSET Key, hooks : Seq(Key), ran : Seq(Key)]
      /\ seen'.killed = seen.killed /\ seen'.late = seen.late
      /\ Len(seen'.hooks) = Len(posts) - 1 + Len(seen'.ran)
      /\ \A i \in 1..Len(posts) - 1 : posts[i] = seen'.hooks[i]
      /\ \A i \in 1..Len(seen'.ran) : seen'.ran[i] = seen'.hooks[Len(seen'.hooks) - i + 1]
  BY <1>1, <1>2, HookTurns
<1>4. ExecutionType'
  BY <1>1, <1>2, <1>3 DEF ExecutionType, Hooking
<1>5. HooksFit' /\ ResultFits'
  BY <1>1, <1>3 DEF HooksFit, InTurn, ResultFits, Hooking
<1> QED BY <1>1, <1>3, <1>4, <1>5, HookMoves

LEMMA PostEndsInv == ASSUME ExecutionInv, NEW ok \in BOOLEAN, Execution!PostEnds(ok) PROVE ExecutionInv'
<1>1. /\ phase = "post" /\ phase' = "posts" /\ posts' = Execution!Front(posts) /\ (errs => errs')
      /\ UNCHANGED <<step, job, inner, recorded, seen, result>>
  BY DEF Execution!PostEnds, Execution!PostsLeft
<1>2. ExecutionType /\ posts \in Seq(Key) /\ posts # <<>> /\ InTurn(Len(posts) - 1)
  BY <1>1 DEF ExecutionInv, HooksFit, ExecutionType
<1>3. /\ posts' \in Seq(Key) /\ Len(posts') = Len(posts) - 1
      /\ \A i \in 1..Len(posts) - 1 : posts'[i] = posts[i]
  BY <1>1, <1>2, FrontFacts
<1>4. ExecutionType'
  BY <1>1, <1>2, <1>3 DEF ExecutionType, Hooking
<1>5. HooksFit' /\ ResultFits'
  BY <1>1, <1>2, <1>3 DEF HooksFit, InTurn, ResultFits, Hooking
<1> QED BY <1>1, <1>4, <1>5, HookMoves

(* The conclusion, and what ExecuteResult makes of it.                     *)
LEMMA ConcludeInv == ASSUME ExecutionInv, Execution!Conclude \/ Execution!Finish PROVE ExecutionInv'
<1>1. UNCHANGED <<posts, step, job, inner, errs, recorded, seen>>
  BY DEF Execution!Conclude, Execution!Finish
<1>2. ExecutionType /\ HooksFit /\ ResultFits
  BY DEF ExecutionInv
<1>3. CASE Execution!Conclude
  <2>1. phase = "posts" /\ posts = <<>> /\ phase' = "result"
    BY <1>3 DEF Execution!Conclude
  <2>2. result' = IF job # "ok" THEN job ELSE IF errs THEN "failure" ELSE "success"
    BY <1>3 DEF Execution!Conclude, Execution!ExecutionConclusion
  <2>3. ExecutionType'
    BY <1>1, <1>2, <2>1 DEF ExecutionType, Hooking
  <2>4. HooksFit'
    BY <1>1, <1>2, <2>1 DEF HooksFit, InTurn, Hooking
  <2>5. ResultFits'
    BY <1>1, <1>2, <2>1, <2>2 DEF ExecutionType, ResultFits
  <2> QED BY <1>1, <2>3, <2>4, <2>5, HookMoves
<1>4. CASE Execution!Finish
  <2>1. phase = "result" /\ phase' = "end" /\ result' = IF errs /\ job # "ok" THEN job ELSE result
    BY <1>4 DEF Execution!Finish
  <2>2. ExecutionType'
    BY <1>1, <1>2, <2>1 DEF ExecutionType, Hooking
  <2>3. HooksFit'
    BY <1>1, <1>2, <2>1 DEF HooksFit, InTurn, Hooking
  <2>4. ResultFits'
    BY <1>1, <1>2, <2>1 DEF ExecutionType, ResultFits
  <2> QED BY <1>1, <2>2, <2>3, <2>4, HookMoves
<1> QED BY <1>3, <1>4

(* The job ends, or its cleanup context.                                   *)
LEMMA ContextEndsInv == ASSUME ExecutionInv, Execution!JobEnds \/ Execution!CleanupEnds PROVE ExecutionInv'
<1>1. /\ phase # "end" /\ (job = job' \/ (job = "ok" /\ job' \in {"cancelled", "timed_out"}))
      /\ UNCHANGED <<step, phase, inner, errs, recorded, posts, seen, result>>
  BY DEF Execution!JobEnds, Execution!CleanupEnds
<1>2. ExecutionType /\ HooksFit /\ ResultFits
  BY DEF ExecutionInv
<1>3. ExecutionType'
  BY <1>1, <1>2 DEF ExecutionType
<1>4. HooksFit'
  BY <1>1, <1>2 DEF HooksFit, InTurn
<1>5. ResultFits'
  BY <1>1, <1>2 DEF ResultFits
<1> QED BY <1>1, <1>3, <1>4, <1>5, HookMoves

LEMMA BeginPostsInv == ASSUME ExecutionInv, Execution!BeginPosts PROVE ExecutionInv'
<1>1. phase = "beginPosts" /\ phase' = "posts" /\ UNCHANGED <<step, job, inner, errs, recorded, posts, seen, result>>
  BY DEF Execution!BeginPosts
<1>2. ExecutionType /\ seen.ran = <<>> /\ posts = seen.hooks
  BY <1>1 DEF ExecutionInv, HooksFit, Hooking
<1>3. ExecutionType'
  BY <1>1, <1>2 DEF ExecutionType, Hooking
<1>4. HooksFit' /\ ResultFits'
  BY <1>1, <1>2 DEF HooksFit, InTurn, ResultFits, ExecutionType, Hooking
<1> QED BY <1>1, <1>3, <1>4, HookMoves

(* What happens in the steps and in the steps of a composite action.       *)
LEMMA InnerMoves ==
    ASSUME NEW i \in InnerState, NEW a \in Nat, NEW c \in BOOLEAN, NEW e \in BOOLEAN, NEW f \in BOOLEAN
    PROVE  /\ [i EXCEPT !.at = a, !.cancelled = c] \in InnerState
           /\ [i EXCEPT !.cancelled = c] \in InnerState
           /\ [i EXCEPT !.at = a, !.err = e, !.failed = f] \in InnerState
  BY DEF InnerState

LEMMA NoInnerTyped == Execution!NoInner \in InnerState
  BY DEF InnerState, Execution!NoInner

LEMMA StepPhases ==
    ASSUME ExecutionInv,
           \/ Execution!BrokenStep \/ Execution!ChooseStep \/ Execution!EndSteps
           \/ Execution!SkipInner \/ Execution!ChooseInner \/ (\E ok \in BOOLEAN : Execution!InnerEnds(ok))
    PROVE  ExecutionInv'
<1>1. ExecutionType /\ inner \in InnerState /\ inner.at \in Nat /\ step \in Nat \ {0}
  BY DEF ExecutionInv, ExecutionType, InnerState
<1>2. inner' \in InnerState
  <2>1. CASE Execution!SkipInner
    <3> DEFINE c == Execution!InnerCancelled
    <3>1. c \in BOOLEAN
      BY DEF Execution!InnerCancelled
    <3>2. inner' = [inner EXCEPT !.at = inner.at + 1, !.cancelled = c]
      BY <2>1 DEF Execution!SkipInner
    <3>3. PICK a \in Nat : a = inner.at + 1
      BY <1>1
    <3> HIDE DEF c
    <3> QED BY <1>1, <3>1, <3>2, <3>3, InnerMoves, Zenon
  <2>2. CASE Execution!ChooseInner
    <3> DEFINE c == Execution!InnerCancelled
    <3>1. c \in BOOLEAN
      BY DEF Execution!InnerCancelled
    <3>2. inner' = [inner EXCEPT !.cancelled = c]
      BY <2>2 DEF Execution!ChooseInner
    <3> HIDE DEF c
    <3> QED BY <1>1, <3>1, <3>2, InnerMoves
  <2>3. ASSUME NEW ok \in BOOLEAN, Execution!InnerEnds(ok) PROVE inner' \in InnerState
    <3> DEFINE during == ~command.late /\ Execution!Ended(inner.context)
               e == inner.err \/ (~ok /\ ~Execution!Inside.continue)
               f == inner.failed \/ (~ok /\ ~Execution!Inside.continue /\ ~during)
    <3>1. e \in BOOLEAN /\ f \in BOOLEAN
      OBVIOUS
    <3>2. inner' = [inner EXCEPT !.at = inner.at + 1, !.err = e, !.failed = f]
      BY <2>3 DEF Execution!InnerEnds
    <3>3. PICK a \in Nat : a = inner.at + 1
      BY <1>1
    <3> HIDE DEF e, f
    <3> QED BY <1>1, <3>1, <3>2, <3>3, InnerMoves, Zenon
  <2>4. CASE Execution!BrokenStep \/ Execution!ChooseStep \/ Execution!EndSteps
    BY <1>1, <2>4 DEF Execution!BrokenStep, Execution!ChooseStep, Execution!EndSteps
  <2> QED BY <2>1, <2>2, <2>3, <2>4
<1>3. /\ UNCHANGED <<job, recorded, posts, seen>> /\ (errs => errs') /\ (step' = step \/ step' = step + 1)
      /\ phase \in {"step", "composite", "inner"} /\ phase' \in Stepping \cup {"beginPosts"}
  <2> DEFINE Moved == /\ UNCHANGED <<job, recorded, posts, seen>> /\ (errs => errs') /\ (step' = step \/ step' = step + 1)
                      /\ phase \in {"step", "composite", "inner"}
                      /\ phase' \in {"step", "begin", "composite", "beginInner", "beginPosts"}
  <2>1. Execution!BrokenStep => Moved BY DEF Execution!BrokenStep
  <2>2. Execution!ChooseStep => Moved BY DEF Execution!ChooseStep
  <2>3. Execution!EndSteps => Moved BY DEF Execution!EndSteps
  <2>4. Execution!SkipInner => Moved BY DEF Execution!SkipInner
  <2>5. Execution!ChooseInner => Moved BY DEF Execution!ChooseInner
  <2>6. ASSUME NEW ok \in BOOLEAN, Execution!InnerEnds(ok) PROVE Moved
    <3>1. phase = "inner" /\ phase' = "composite" /\ UNCHANGED <<step, job, errs, recorded, posts, seen>>
      BY <2>6, Zenon DEF Execution!InnerEnds
    <3> QED BY <3>1
  <2>7. Moved
    <3> HIDE DEF Moved
    <3> QED BY <2>1, <2>2, <2>3, <2>4, <2>5, <2>6
  <2> QED BY <2>7 DEF Stepping
<1>4. ExecutionType'
  BY <1>1, <1>2, <1>3 DEF ExecutionType
<1>5. phase \notin Hooking /\ phase' \notin Hooking
  BY <1>3 DEF Hooking, Stepping
<1> QED BY <1>1, <1>3, <1>4, <1>5, StepMoves

LEMMA BeginsInv == ASSUME ExecutionInv, Execution!BeginStep \/ Execution!BeginInner PROVE ExecutionInv'
<1>1. ExecutionType /\ inner.at \in Nat /\ step \in Nat \ {0}
  BY DEF ExecutionInv, ExecutionType, InnerState
<1>2. CASE Execution!BeginInner
  <2>1. PICK key \in Key : key = <<step, inner.at>>
    BY <1>1 DEF Key
  <2>2. PICK s, late : s = Execution!Inside /\ late = Execution!Ended(inner.context)
    OBVIOUS
  <2>3. Execution!Begin(key, s, late)
    BY <1>2, <2>1, <2>2 DEF Execution!BeginInner, Execution!Begin
  <2>4. phase \notin Hooking /\ phase' \in Stepping /\ UNCHANGED <<step, job, inner, errs, recorded>>
    BY <1>2 DEF Execution!BeginInner, Stepping, Hooking
  <2> QED BY <2>3, <2>4, BeginInv
<1>3. CASE Execution!BeginStep /\ Execution!Current.kind # "composite"
  <2>1. PICK key \in Key : key = <<step, 0>>
    BY <1>1 DEF Key
  <2>2. PICK s, late : s = Execution!Current /\ late = (job # "ok")
    OBVIOUS
  <2>3. Execution!Begin(key, s, late)
    BY <1>3, <2>1, <2>2 DEF Execution!BeginStep, Execution!Begin
  <2>4. phase \notin Hooking /\ phase' \in Stepping /\ UNCHANGED <<step, job, inner, errs, recorded>>
    BY <1>3 DEF Execution!BeginStep, Stepping, Hooking
  <2> QED BY <2>3, <2>4, BeginInv
<1>4. CASE Execution!BeginStep /\ Execution!Current.kind = "composite"
  <2> DEFINE c == job # "ok"
  <2>1. /\ inner' = [Execution!NoInner EXCEPT !.at = 1, !.context = Execution!CommandContext, !.late = c, !.cancelled = c]
        /\ UNCHANGED <<step, job, errs, recorded, posts, seen>> /\ phase = "begin" /\ phase' = "composite"
    BY <1>4 DEF Execution!BeginStep
  <2>2. c \in BOOLEAN /\ Execution!CommandContext \in {"job", "cleanup"}
    BY DEF Execution!CommandContext
  <2> HIDE DEF c
  <2>3. inner' \in InnerState
    BY <2>1, <2>2 DEF InnerState, Execution!NoInner
  <2>4. ExecutionType'
    BY <1>1, <2>1, <2>3 DEF ExecutionType, Stepping
  <2>5. phase \notin Hooking /\ phase' \notin Hooking
    BY <2>1 DEF Hooking
  <2> QED BY <1>1, <2>1, <2>4, <2>5, StepMoves
<1> QED BY <1>2, <1>3, <1>4

LEMMA EndsInv ==
    ASSUME ExecutionInv,
           \/ Execution!SkipStep \/ (\E ok \in BOOLEAN : Execution!CommandEnds(ok)) \/ Execution!CommandKilled
           \/ Execution!BrokenInner \/ Execution!EndComposite
    PROVE  ExecutionInv'
<1>1. ExecutionType /\ inner \in InnerState /\ step \in Nat \ {0}
  BY DEF ExecutionInv, ExecutionType
<1>2. CASE Execution!SkipStep
  <2>1. /\ phase = "step" /\ Execution!Record(step, "skipped", "skipped") /\ step' = step + 1
        /\ UNCHANGED <<phase, job, inner, errs, posts, seen>>
    BY <1>2 DEF Execution!SkipStep
  <2>2. ExecutionType'
    BY <1>1, <2>1 DEF ExecutionType
  <2> QED BY <2>1, <2>2, StepRecorded DEF Hooking
<1>3. PICK l, i : l = command.late /\ i = inner.late
  OBVIOUS
<1>4. ASSUME NEW ok \in BOOLEAN, Execution!CommandEnds(ok) PROVE ExecutionInv'
  <2>1. Execution!EndStep(ok, l)
    BY <1>3, <1>4 DEF Execution!CommandEnds, Execution!EndStep, Execution!Tolerated, Execution!CancelledDuring
  <2>2. phase \notin Hooking /\ UNCHANGED <<job, inner, posts, seen>>
    BY <1>4 DEF Execution!CommandEnds, Hooking
  <2> QED BY <1>1, <2>1, <2>2, EndStepInv
<1>5. CASE Execution!CommandKilled
  <2>1. Execution!EndStep(FALSE, l)
    BY <1>3, <1>5 DEF Execution!CommandKilled, Execution!EndStep, Execution!Tolerated, Execution!CancelledDuring
  <2>2. /\ phase \notin Hooking /\ UNCHANGED <<job, inner, posts>>
        /\ seen' = seen \/ (Execution!CancelledDuring(l) /\ seen' = [seen EXCEPT !.killed = @ \cup {step}])
    BY <1>3, <1>5 DEF Execution!CommandKilled, Execution!CancelledDuring, Hooking
  <2> QED BY <1>1, <2>1, <2>2, EndStepInv
<1>6. CASE Execution!BrokenInner
  <2>1. Execution!EndStep(FALSE, i)
    BY <1>3, <1>6 DEF Execution!BrokenInner, Execution!EndStep, Execution!Tolerated, Execution!CancelledDuring
  <2>2. phase \notin Hooking /\ UNCHANGED <<job, posts, seen>> /\ inner' \in InnerState
    BY <1>6, NoInnerTyped DEF Execution!BrokenInner, Hooking
  <2> QED BY <2>1, <2>2, EndStepInv
<1>7. CASE Execution!EndComposite
  <2>1. PICK ok \in BOOLEAN : ok = ~inner.err
    OBVIOUS
  <2>2. Execution!EndStep(ok, i)
    BY <1>3, <1>7, <2>1 DEF Execution!EndComposite, Execution!EndStep, Execution!Tolerated, Execution!CancelledDuring
  <2>3. phase \notin Hooking /\ UNCHANGED <<job, posts, seen>> /\ inner' \in InnerState
    BY <1>7, NoInnerTyped DEF Execution!EndComposite, Hooking
  <2> QED BY <2>2, <2>3, EndStepInv
<1> QED BY <1>2, <1>4, <1>5, <1>6, <1>7

LEMMA ExecutionNextInv == ASSUME ExecutionInv, Execution!ExecutionNext PROVE ExecutionInv'
<1>1. ASSUME NEW ok \in BOOLEAN, Execution!PostEnds(ok) PROVE ExecutionInv'
  BY <1>1, PostEndsInv
<1>2. CASE Execution!PostKilled \/ Execution!InnerKilled
  BY <1>2, <1>1, StepPhases DEF Execution!PostKilled, Execution!InnerKilled
<1> QED BY <1>1, <1>2, ContextEndsInv, BeginPostsInv, StepPhases, BeginsInv, EndsInv, SkipPostInv, BeginPostInv, ConcludeInv
        DEF Execution!ExecutionNext, Execution!ExecutorStep

LEMMA ExecutionStep ==
    ASSUME On("execution") => ExecutionInv, [Next]_vars
    PROVE  (On("execution") => ExecutionInv)'
<1>1. focus' = focus
  BY DEF Next, Alone, vars
<1> SUFFICES ASSUME On("execution")
             PROVE  ExecutionInv'
  BY <1>1 DEF On
<1>2. CASE Next
  <2>1. Execution!ExecutionNext
    BY <1>2 DEF Next, On
  <2> QED BY <2>1, ExecutionNextInv DEF On
<1>3. CASE UNCHANGED vars
  <2>1. UNCHANGED <<step, phase, job, inner, errs, recorded, posts, seen, result>>
    BY <1>3 DEF vars, executionVars
  <2>2. ExecutionType' /\ HooksFit' /\ ResultFits'
    BY <2>1 DEF ExecutionInv, ExecutionType, HooksFit, InTurn, ResultFits
  <2> QED BY <2>1, <2>2, HookMoves DEF On
<1> QED BY <1>2, <1>3

(* The runner: for every plan, every choice of which commands fail and     *)
(* every moment at which the job is cancelled, times out or loses its      *)
(* cleanup context, what the cancellation killed counts as cancelled, what *)
(* begins after it has a context, the conclusion fits what happened, and   *)
(* every registered post hook had one turn, in reverse order.              *)
THEOREM ExecutionsAreSound == Spec => []ExecutionSound
<1>1. Init => (On("execution") => ExecutionInv)
  BY ExecutionInitInv DEF Init
<1>2. (On("execution") => ExecutionInv) /\ [Next]_vars => (On("execution") => ExecutionInv)'
  BY ExecutionStep
<1>3. (On("execution") => ExecutionInv) => ExecutionSound
  <2> SUFFICES ASSUME ExecutionInv
               PROVE  /\ Execution!CancelledIsNotTolerated /\ Execution!CleanupHasContext
                      /\ Execution!ConclusionFits /\ Execution!HooksInReverse
    BY DEF ExecutionSound
  <2>1. Execution!CancelledIsNotTolerated /\ Execution!CleanupHasContext
    BY DEF ExecutionInv, RecordedPast
  <2>2. Execution!ConclusionFits
    <3>1. phase = "end" => (result = "success" => ~errs) /\ (result \in {"cancelled", "timed_out"} => job = result)
                           /\ (errs /\ job # "ok" => result = job)
      BY DEF ExecutionInv, ResultFits
    <3>2. ~errs => Execution!Concluded = {} /\ \A s \in DOMAIN recorded : recorded[s].outcome # "cancelled"
      BY DEF ExecutionInv, ErrorsCounted, Execution!Concluded
    <3> QED BY <3>1, <3>2 DEF Execution!ConclusionFits
  <2>3. ASSUME phase = "end" PROVE seen.ran = Execution!Reverse(seen.hooks)
    <3>1. posts = <<>> /\ InTurn(Len(posts))
      BY <2>3 DEF ExecutionInv, HooksFit
    <3>2. Len(posts) = 0
      BY <3>1
    <3>3. seen.ran \in Seq(Key) /\ seen.hooks \in Seq(Key)
      BY DEF ExecutionInv, ExecutionType
    <3>4. /\ Len(seen.hooks) = Len(seen.ran)
          /\ \A i \in 1..Len(seen.ran) : seen.ran[i] = seen.hooks[Len(seen.hooks) - i + 1]
      BY <3>1, <3>2, <3>3 DEF InTurn
    <3>5. seen.ran = [i \in 1..Len(seen.ran) |-> seen.ran[i]]
      BY <3>3
    <3> QED BY <3>3, <3>4, <3>5 DEF Execution!Reverse
  <2> QED BY <2>1, <2>2, <2>3 DEF Execution!HooksInReverse
<1> QED BY <1>1, <1>2, <1>3, PTL DEF Spec
=============================================================================
