---------------------------- MODULE LaunchProofs ----------------------------
(* Proofs about runs and attempts that are started again and again: those  *)
(* of a schedule (ScheduledRuns), for every list of repositories, table of *)
(* due minutes, and number of pushes, failures and deletions; and the      *)
(* attempts of a run and the event snapshot they share (RerunLineage), for *)
(* every number of requests, attempts and faults.                          *)
EXTENDS MCComponents, FiniteSetTheorems, SequenceTheorems, TLAPS

-----------------------------------------------------------------------------
(* ScheduledRuns.                                                          *)

Tick == [at : {"idle", "discover", "create"}, for : Nat, listed : {<<>>} \cup [Schedule!Repos -> Nat],
         rest : Seq(Schedule!Repos), rev : Nat, failed : BOOLEAN]

CacheEntry == [pushed : Nat, rev : Nat, bad : BOOLEAN]

ScheduledRun == [rev : Nat, made : Nat, deleting : BOOLEAN]

ScheduleType ==
    /\ minute \in Nat /\ branch \in [Schedule!Repos -> Nat] /\ tick \in Tick
    /\ cached \in [DOMAIN cached -> CacheEntry] /\ DOMAIN cached \subseteq Schedule!Repos
    /\ scheduled \in [DOMAIN scheduled -> ScheduledRun] /\ DOMAIN scheduled \subseteq Schedule!Repos \X Nat
    /\ log \subseteq [key : Schedule!Repos \X Nat, rev : Nat, listed : Nat, made : Nat, again : BOOLEAN]

(* What the cache holds was current when the repository had been pushed to *)
(* for the last time, and so is what a pass works with.                    *)
CacheFresh ==
    \A r \in DOMAIN cached :
        /\ cached[r].pushed <= cached[r].rev /\ cached[r].rev \in 1..branch[r]
        /\ cached[r].bad => <<r, cached[r].rev>> \in Unsupported

PassFresh ==
    /\ \A r \in Schedule!Repos : branch[r] > 0
    /\ tick.at # "idle" =>
          /\ tick.for <= minute /\ tick.listed \in [Schedule!Repos -> Nat]
          /\ \A r \in Schedule!Repos : tick.listed[r] <= branch[r]
    /\ tick.at = "create" => tick.rest # <<>> /\ tick.listed[Head(tick.rest)] <= tick.rev

(* A run is there as long as the minute it was made for may be processed.  *)
MinuteKept ==
    /\ \A k \in DOMAIN scheduled : k[2] <= scheduled[k].made /\ \E x \in log : x.key = k
    /\ \A x \in log : x.key \in DOMAIN scheduled \/ minute > x.key[2]

(* What had to happen in a repository for a minute.                        *)
Served(r, m) ==
    m \in Cron[r] => (\E x \in log : x.key = <<r, m>>) \/ (\E v \in 1..branch[r] : <<r, v>> \in Unsupported)

Waiting(t, r) == \E i \in DOMAIN t.rest : t.rest[i] = r

PassServes ==
    tick.at # "idle" /\ ~tick.failed => \A r \in Schedule!Repos : Served(r, tick.for) \/ Waiting(tick, r)

ScheduleInv ==
    /\ ScheduleType /\ CacheFresh /\ PassFresh /\ MinuteKept /\ PassServes
    /\ Schedule!ScheduledFresh /\ Schedule!OncePerMinute /\ Schedule!ProcessedMinuteHasRuns

LEMMA SkipFacts ==
    ASSUME NEW t \in Tick, t.rest # <<>>
    PROVE  /\ Schedule!Skip(t) \in Tick
           /\ Schedule!Skip(t).at = "discover" /\ Schedule!Skip(t).for = t.for /\ Schedule!Skip(t).listed = t.listed
           /\ Schedule!Skip(t).failed = t.failed
           /\ \A r : Waiting(t, r) => r = Head(t.rest) \/ Waiting(Schedule!Skip(t), r)
<1> DEFINE s == t.rest
<1>1. s \in Seq(Schedule!Repos)
  BY DEF Tick
<1>2. Tail(s) \in Seq(Schedule!Repos)
  BY <1>1
<1>3. \A i \in DOMAIN s : s[i] = Head(s) \/ \E j \in DOMAIN Tail(s) : Tail(s)[j] = s[i]
  <2> SUFFICES ASSUME NEW i \in DOMAIN s, i # 1
               PROVE  \E j \in DOMAIN Tail(s) : Tail(s)[j] = s[i]
    BY <1>1
  <2>1. i - 1 \in DOMAIN Tail(s) /\ Tail(s)[i - 1] = s[i]
    BY <1>1
  <2> QED BY <2>1
<1>4. Schedule!Skip(t) = [t EXCEPT !.at = "discover", !.rest = Tail(s)]
  BY DEF Schedule!Skip
<1>5. /\ Schedule!Skip(t) \in Tick /\ Schedule!Skip(t).at = "discover" /\ Schedule!Skip(t).for = t.for
      /\ Schedule!Skip(t).listed = t.listed /\ Schedule!Skip(t).failed = t.failed /\ Schedule!Skip(t).rest = Tail(s)
  BY <1>2, <1>4 DEF Tick
<1> QED BY <1>3, <1>5 DEF Waiting

LEMMA ScheduleInitInv == ASSUME Schedule!ScheduleInit PROVE ScheduleInv
<1> USE DEF Schedule!ScheduleInit, Schedule!NoTick
<1>1. <<>> \in Seq(Schedule!Repos) /\ DOMAIN <<>> = {}
  OBVIOUS
<1>2. tick \in Tick /\ tick.at = "idle"
  BY <1>1 DEF Tick
<1>3. DOMAIN cached = {} /\ DOMAIN scheduled = {}
  BY <1>1
<1>4. ScheduleType
  BY <1>2, <1>3 DEF ScheduleType
<1> QED BY <1>2, <1>3, <1>4 DEF ScheduleInv, CacheFresh, PassFresh, MinuteKept, PassServes,
        Schedule!ScheduledFresh, Schedule!OncePerMinute, Schedule!ProcessedMinuteHasRuns

(* What was served stays served: runs are recorded for good, and branches  *)
(* only move forward.                                                      *)
LEMMA ServedStays ==
    ASSUME ScheduleType, log \subseteq log', branch' \in [Schedule!Repos -> Nat],
           \A r \in Schedule!Repos : branch[r] <= branch'[r],
           NEW r \in Schedule!Repos, NEW m, Served(r, m)
    PROVE  Served(r, m)'
<1>1. \A v : v \in 1..branch[r] => v \in 1..branch'[r]
  BY DEF ScheduleType
<1> QED BY <1>1 DEF Served

(* A step of the pass that creates nothing and does not finish it.         *)
LEMMA PassMoves ==
    ASSUME ScheduleInv, tick' \in Tick, UNCHANGED <<minute, branch, scheduled, log, processed>>,
           cached' \in [DOMAIN cached' -> CacheEntry], DOMAIN cached' \subseteq Schedule!Repos,
           CacheFresh', PassFresh', PassServes'
    PROVE  ScheduleInv'
<1>1. ScheduleType'
  BY DEF ScheduleInv, ScheduleType
<1>2. MinuteKept'
  BY DEF ScheduleInv, MinuteKept
<1>3. Schedule!ScheduledFresh' /\ Schedule!OncePerMinute' /\ Schedule!ProcessedMinuteHasRuns'
  BY DEF ScheduleInv, Schedule!ScheduledFresh, Schedule!OncePerMinute, Schedule!ProcessedMinuteHasRuns
<1> QED BY <1>1, <1>2, <1>3 DEF ScheduleInv

LEMMA StartTickInv == ASSUME ScheduleInv, Schedule!StartTick PROVE ScheduleInv'
<1> DEFINE t == [Schedule!NoTick EXCEPT !.at = "discover", !.for = minute, !.listed = branch,
                                        !.rest = ScheduledRepositories]
<1>1. /\ tick' = t /\ UNCHANGED <<minute, branch, cached, scheduled, log, processed>>
      /\ minute \in Nat /\ branch \in [Schedule!Repos -> Nat]
  BY DEF Schedule!StartTick, ScheduleInv, ScheduleType
<1>2. ScheduledRepositories \in Seq(Schedule!Repos)
  BY RepositoriesAssumption DEF Schedule!Repos
<1>3. /\ t \in Tick /\ t.at = "discover" /\ t.for = minute /\ t.listed = branch /\ t.rest = ScheduledRepositories
  BY <1>1, <1>2 DEF Schedule!NoTick, Tick
<1>4. CacheFresh'
  BY <1>1 DEF ScheduleInv, CacheFresh
<1>5. PassFresh'
  BY <1>1, <1>3 DEF ScheduleInv, PassFresh
<1>6. PassServes'
  <2>1. \A r \in Schedule!Repos : Waiting(t, r)
    BY <1>3 DEF Waiting, Schedule!Repos
  <2> QED BY <1>1, <2>1 DEF PassServes, Waiting
<1>7. cached' \in [DOMAIN cached' -> CacheEntry] /\ DOMAIN cached' \subseteq Schedule!Repos
  BY <1>1 DEF ScheduleInv, ScheduleType
<1> QED BY <1>1, <1>3, <1>4, <1>5, <1>6, <1>7, PassMoves

(* The repository under way is left behind.                                *)
LEMMA PassSkips ==
    ASSUME ScheduleInv, NEW f \in BOOLEAN, tick.at # "idle", tick.rest # <<>>,
           tick' = [Schedule!Skip(tick) EXCEPT !.failed = f],
           branch' = branch, minute' = minute
    PROVE  tick' \in Tick /\ PassFresh' /\ tick'.for = tick.for /\ tick'.failed = f
           /\ \A r : Waiting(tick, r) => r = Head(tick.rest) \/ Waiting(tick', r)
<1>1. tick \in Tick
  BY DEF ScheduleInv, ScheduleType
<1> DEFINE u == Schedule!Skip(tick)
<1>2. /\ u \in Tick /\ u.at = "discover" /\ u.for = tick.for /\ u.listed = tick.listed
      /\ \A r : Waiting(tick, r) => r = Head(tick.rest) \/ Waiting(u, r)
  BY <1>1, SkipFacts
<1> HIDE DEF u
<1>3. /\ tick' \in Tick /\ tick'.at = "discover" /\ tick'.for = tick.for /\ tick'.listed = tick.listed
      /\ tick'.failed = f /\ tick'.rest = u.rest
  BY <1>2 DEF Tick, u
<1>4. PassFresh'
  BY <1>3 DEF ScheduleInv, PassFresh
<1> QED BY <1>2, <1>3, <1>4 DEF Waiting

LEMMA DiscoverInv == ASSUME ScheduleInv, Schedule!Discover PROVE ScheduleInv'
<1> DEFINE r == Head(tick.rest)
           found == IF Schedule!CachedFor(r) THEN cached[r]
                    ELSE [pushed |-> tick.listed[r], rev |-> branch[r], bad |-> <<r, branch[r]>> \in Unsupported]
<1>1. /\ tick.at = "discover" /\ tick.rest # <<>>
      /\ cached' = Schedule!With(cached, r, found)
      /\ tick' = IF found.bad THEN Schedule!Skip(tick) ELSE [tick EXCEPT !.at = "create", !.rev = found.rev]
      /\ UNCHANGED <<minute, branch, scheduled, log, processed>>
  BY DEF Schedule!Discover
<1>2. ScheduleType /\ CacheFresh /\ PassFresh /\ PassServes /\ tick \in Tick
  BY DEF ScheduleInv, ScheduleType
<1>3. r \in Schedule!Repos /\ tick.listed \in [Schedule!Repos -> Nat] /\ tick.listed[r] <= branch[r] /\ branch[r] \in Nat
  <2>1. tick.rest \in Seq(Schedule!Repos) /\ r \in Schedule!Repos
    BY <1>1, <1>2 DEF Tick
  <2> QED BY <1>1, <1>2, <2>1 DEF PassFresh, ScheduleType
<1>4. /\ found \in CacheEntry /\ tick.listed[r] <= found.rev /\ found.rev \in 1..branch[r]
      /\ found.pushed <= found.rev
      /\ found.bad => <<r, found.rev>> \in Unsupported
  <2>1. CASE Schedule!CachedFor(r)
    <3>1. r \in DOMAIN cached /\ cached[r].pushed = tick.listed[r] /\ found = cached[r]
      BY <2>1 DEF Schedule!CachedFor
    <3> QED BY <1>2, <3>1 DEF ScheduleType, CacheFresh
  <2>2. CASE ~Schedule!CachedFor(r)
    <3> DEFINE b == <<r, branch[r]>> \in Unsupported
    <3>1. b \in BOOLEAN
      OBVIOUS
    <3>2. found = [pushed |-> tick.listed[r], rev |-> branch[r], bad |-> b]
      BY <2>2
    <3> HIDE DEF b
    <3>3. found \in CacheEntry /\ found.pushed = tick.listed[r] /\ found.rev = branch[r] /\ found.bad = b
      BY <1>3, <3>1, <3>2 DEF CacheEntry
    <3>4. branch[r] > 0 /\ tick.listed[r] \in Nat
      BY <1>2, <1>3 DEF PassFresh
    <3>5. b => <<r, branch[r]>> \in Unsupported
      BY DEF b
    <3> HIDE DEF found
    <3> QED BY <1>3, <3>3, <3>4, <3>5
  <2> QED BY <2>1, <2>2
<1> HIDE DEF found
<1>5. /\ DOMAIN cached' = DOMAIN cached \cup {r} /\ cached'[r] = found
      /\ \A q \in DOMAIN cached : q # r => cached'[q] = cached[q]
      /\ cached' \in [DOMAIN cached' -> CacheEntry] /\ DOMAIN cached' \subseteq Schedule!Repos
  BY <1>1, <1>2, <1>3, <1>4 DEF Schedule!With, ScheduleType
<1>6. CacheFresh'
  <2>1. ASSUME NEW q \in DOMAIN cached, q # r
        PROVE  /\ cached'[q].pushed <= cached'[q].rev /\ cached'[q].rev \in 1..branch'[q]
               /\ cached'[q].bad => <<q, cached'[q].rev>> \in Unsupported
    BY <1>1, <1>2, <1>5, <2>1 DEF CacheFresh
  <2>2. /\ cached'[r].pushed <= cached'[r].rev /\ cached'[r].rev \in 1..branch'[r]
        /\ cached'[r].bad => <<r, cached'[r].rev>> \in Unsupported
    BY <1>1, <1>4, <1>5
  <2> QED BY <1>5, <2>1, <2>2 DEF CacheFresh
<1>7. CASE found.bad
  <2>1. tick' = [Schedule!Skip(tick) EXCEPT !.failed = tick.failed]
    <3>1. Schedule!Skip(tick) \in Tick /\ Schedule!Skip(tick).failed = tick.failed
      BY <1>1, <1>2, SkipFacts
    <3> QED BY <1>1, <1>7, <3>1 DEF Tick
  <2>2. tick.failed \in BOOLEAN
    BY <1>2 DEF Tick
  <2>3. /\ tick' \in Tick /\ PassFresh' /\ tick'.for = tick.for /\ tick'.failed = tick.failed
        /\ \A q : Waiting(tick, q) => q = r \/ Waiting(tick', q)
    BY <1>1, <2>1, <2>2, PassSkips
  <2>4. Served(r, tick.for)
    <3>1. \E v \in 1..branch[r] : <<r, v>> \in Unsupported
      BY <1>4, <1>7
    <3> QED BY <3>1 DEF Served
  <2>5. PassServes'
    BY <1>1, <1>2, <2>3, <2>4 DEF PassServes, Served
  <2> QED BY <1>1, <1>5, <1>6, <2>3, <2>5, PassMoves
<1>8. CASE ~found.bad
  <2>1. tick' = [tick EXCEPT !.at = "create", !.rev = found.rev] /\ found.rev \in Nat
    BY <1>1, <1>4, <1>8 DEF CacheEntry
  <2>2. /\ tick' \in Tick /\ tick'.at = "create" /\ tick'.rev = found.rev /\ tick'.for = tick.for
        /\ tick'.listed = tick.listed /\ tick'.rest = tick.rest /\ tick'.failed = tick.failed
    BY <1>2, <2>1 DEF Tick
  <2>3. PassFresh'
    BY <1>1, <1>2, <1>4, <2>2 DEF PassFresh
  <2>4. PassServes'
    <3>1. branch' = branch /\ log' = log /\ tick.at # "idle"
      BY <1>1
    <3>2. \A q : Waiting(tick, q) => Waiting(tick, q)'
      BY <2>2 DEF Waiting
    <3>3. \A q : Served(q, tick.for) => Served(q, tick.for)'
      BY <2>2, <3>1 DEF Served
    <3>4. PassServes
      BY <1>2
    <3> QED BY <2>2, <3>1, <3>2, <3>3, <3>4 DEF PassServes
  <2> QED BY <1>1, <1>5, <1>6, <2>2, <2>3, <2>4, PassMoves
<1> QED BY <1>7, <1>8

(* createWorkflowRun: the name of a scheduled run is taken.                *)
LEMMA CreateScheduledInv == ASSUME ScheduleInv, Schedule!CreateScheduled PROVE ScheduleInv'
<1> DEFINE r == Head(tick.rest)
           k == <<r, tick.for>>
           run == [rev |-> tick.rev, made |-> minute, deleting |-> FALSE]
           again == \E x \in log : x.key = k
           launch == [key |-> k, rev |-> tick.rev, listed |-> tick.listed[r], made |-> minute, again |-> again]
<1>1. tick.at = "create" /\ UNCHANGED <<minute, branch, cached, processed>>
  BY DEF Schedule!CreateScheduled
<1>2. ScheduleType /\ CacheFresh /\ PassFresh /\ MinuteKept /\ PassServes /\ tick \in Tick
  BY DEF ScheduleInv, ScheduleType
<1>3. /\ tick.rest # <<>> /\ r \in Schedule!Repos /\ tick.listed \in [Schedule!Repos -> Nat]
      /\ tick.listed[r] <= tick.rev /\ tick.for <= minute
  <2>1. tick.rest \in Seq(Schedule!Repos) /\ tick.rest # <<>>
    BY <1>1, <1>2 DEF Tick, PassFresh
  <2> QED BY <1>1, <1>2, <2>1 DEF PassFresh
<1>4. k \in Schedule!Repos \X Nat /\ k[1] = r /\ k[2] = tick.for /\ minute \in Nat /\ tick.rev \in Nat /\ tick.failed \in BOOLEAN
  BY <1>2, <1>3 DEF Tick, ScheduleType
<1>5. /\ cached' \in [DOMAIN cached' -> CacheEntry] /\ DOMAIN cached' \subseteq Schedule!Repos /\ CacheFresh'
  BY <1>1, <1>2 DEF ScheduleType, CacheFresh
<1>6. Schedule!Skip(tick) = [Schedule!Skip(tick) EXCEPT !.failed = tick.failed]
  <2>1. Schedule!Skip(tick) \in Tick /\ Schedule!Skip(tick).failed = tick.failed
    BY <1>2, <1>3, SkipFacts
  <2> QED BY <2>1 DEF Tick
<1>7. CASE ~Schedule!Due(r)
  <2>1. tick' = [Schedule!Skip(tick) EXCEPT !.failed = tick.failed] /\ UNCHANGED <<scheduled, log>>
    BY <1>6, <1>7 DEF Schedule!CreateScheduled
  <2>2. /\ tick' \in Tick /\ PassFresh' /\ tick'.for = tick.for /\ tick'.failed = tick.failed
        /\ \A q : Waiting(tick, q) => q = r \/ Waiting(tick', q)
    BY <1>1, <1>3, <1>4, <2>1, PassSkips
  <2>3. Served(r, tick.for)
    BY <1>7 DEF Served, Schedule!Due
  <2>4. PassServes'
    BY <1>1, <1>2, <2>1, <2>2, <2>3 DEF PassServes, Served
  <2> QED BY <1>1, <1>5, <2>1, <2>2, <2>4, PassMoves
<1>8. CASE Schedule!Due(r) /\ k \in DOMAIN scheduled
  <2> DEFINE f == tick.failed \/ scheduled[k].rev # tick.rev
  <2>1. tick' = [Schedule!Skip(tick) EXCEPT !.failed = f] /\ UNCHANGED <<scheduled, log>>
    <3>1. Schedule!Skip(tick) \in Tick /\ Schedule!Skip(tick).failed = tick.failed
      BY <1>2, <1>3, SkipFacts
    <3>2. tick' = [Schedule!Skip(tick) EXCEPT !.failed = @ \/ scheduled[k].rev # tick.rev] /\ UNCHANGED <<scheduled, log>>
      BY <1>8 DEF Schedule!CreateScheduled
    <3> QED BY <3>1, <3>2 DEF Tick
  <2>2. f \in BOOLEAN /\ (f = FALSE => ~tick.failed)
    BY <1>4
  <2> HIDE DEF f
  <2>3. /\ tick' \in Tick /\ PassFresh' /\ tick'.for = tick.for /\ tick'.failed = f
        /\ \A q : Waiting(tick, q) => q = r \/ Waiting(tick', q)
    BY <1>1, <1>3, <2>1, <2>2, PassSkips
  <2>4. Served(r, tick.for)
    BY <1>2, <1>8 DEF Served, MinuteKept
  <2>5. PassServes'
    BY <1>1, <1>2, <2>1, <2>2, <2>3, <2>4 DEF PassServes, Served
  <2> QED BY <1>1, <1>5, <2>1, <2>3, <2>5, PassMoves
<1>9. CASE Schedule!Due(r) /\ k \notin DOMAIN scheduled
  <2>1. /\ tick' = [Schedule!Skip(tick) EXCEPT !.failed = tick.failed]
        /\ scheduled' = Schedule!With(scheduled, k, run) /\ log' = log \cup {launch}
    BY <1>6, <1>9 DEF Schedule!CreateScheduled
  <2>2. again \in BOOLEAN /\ (again => minute > tick.for)
    BY <1>2, <1>4, <1>9 DEF MinuteKept
  <2>3. /\ launch \in [key : Schedule!Repos \X Nat, rev : Nat, listed : Nat, made : Nat, again : BOOLEAN]
        /\ launch.key = k /\ launch.rev = tick.rev /\ launch.listed = tick.listed[r] /\ launch.made = minute
        /\ launch.again => minute > tick.for
    <3> HIDE DEF again
    <3>1. launch = [key |-> k, rev |-> tick.rev, listed |-> tick.listed[r], made |-> minute, again |-> again]
      OBVIOUS
    <3> QED BY <1>3, <1>4, <2>2
  <2>4. run \in ScheduledRun /\ run.made = minute
    BY <1>4 DEF ScheduledRun
  <2> HIDE DEF run, launch
  <2>5. /\ DOMAIN scheduled' = DOMAIN scheduled \cup {k} /\ scheduled'[k] = run
        /\ \A q \in DOMAIN scheduled : scheduled'[q] = scheduled[q]
        /\ scheduled' \in [DOMAIN scheduled' -> ScheduledRun] /\ DOMAIN scheduled' \subseteq Schedule!Repos \X Nat
    BY <1>2, <1>4, <1>9, <2>1, <2>4 DEF Schedule!With, ScheduleType
  <2>6. /\ tick' \in Tick /\ PassFresh' /\ tick'.for = tick.for /\ tick'.failed = tick.failed
        /\ \A q : Waiting(tick, q) => q = r \/ Waiting(tick', q)
    BY <1>1, <1>3, <1>4, <2>1, PassSkips
  <2>7. ScheduleType'
    BY <1>1, <1>2, <1>5, <2>1, <2>3, <2>5, <2>6 DEF ScheduleType
  <2>8. MinuteKept'
    <3>1. launch \in log' /\ log' = log \cup {launch}
      BY <2>1
    <3>2. k[2] <= scheduled'[k].made /\ \E x \in log' : x.key = k
      BY <1>3, <1>4, <2>3, <2>4, <2>5, <3>1
    <3>3. ASSUME NEW q \in DOMAIN scheduled
          PROVE  q[2] <= scheduled'[q].made /\ \E x \in log' : x.key = q
      BY <1>2, <2>5, <3>1 DEF MinuteKept
    <3>4. ASSUME NEW x \in log'
          PROVE  x.key \in DOMAIN scheduled' \/ minute' > x.key[2]
      BY <1>1, <1>2, <2>3, <2>5, <3>1 DEF MinuteKept
    <3> HIDE DEF k
    <3> QED BY <2>5, <3>2, <3>3, <3>4 DEF MinuteKept
  <2>9. \A q \in Schedule!Repos : \A m : Served(q, m) => Served(q, m)'
    <3>1. log \subseteq log' /\ branch' \in [Schedule!Repos -> Nat] /\ \A q \in Schedule!Repos : branch[q] <= branch'[q]
      BY <1>1, <1>2, <2>1 DEF ScheduleType
    <3> QED BY <1>2, <3>1, ServedStays
  <2>10. PassServes'
    <3>1. ASSUME NEW m, m = tick.for, NEW q, q = r PROVE Served(q, m)'
      <4>1. launch \in log' /\ launch.key = <<q, m>>
        BY <1>4, <2>1, <2>3, <3>1
      <4> QED BY <4>1 DEF Served
    <3>2. ASSUME NEW m, m = tick.for, ~tick.failed, NEW q \in Schedule!Repos
          PROVE  Served(q, m)' \/ Waiting(tick', q)
      <4>1. Served(q, m) \/ Waiting(tick, q)
        BY <1>1, <1>2, <3>2 DEF PassServes
      <4> QED BY <2>6, <2>9, <3>1, <3>2, <4>1
    <3>3. ASSUME NEW m, m = tick'.for, ~tick'.failed, NEW q \in Schedule!Repos
          PROVE  Served(q, m)' \/ Waiting(tick', q)
      BY <2>6, <3>2, <3>3
    <3> QED BY <3>3 DEF PassServes, Served, Waiting
  <2>11. Schedule!ScheduledFresh' /\ Schedule!OncePerMinute'
    BY <1>3, <1>4, <2>1, <2>3 DEF ScheduleInv, Schedule!ScheduledFresh, Schedule!OncePerMinute
  <2>12. Schedule!ProcessedMinuteHasRuns'
    BY <1>1, <2>1 DEF ScheduleInv, Schedule!ProcessedMinuteHasRuns
  <2> QED BY <1>5, <2>6, <2>7, <2>8, <2>10, <2>11, <2>12 DEF ScheduleInv
<1> QED BY <1>7, <1>8, <1>9

LEMMA ScheduleNextInv == ASSUME ScheduleInv, Schedule!ScheduleNext PROVE ScheduleInv'
<1>1. ScheduleType /\ CacheFresh /\ PassFresh /\ MinuteKept /\ PassServes /\ tick \in Tick
  BY DEF ScheduleInv, ScheduleType
<1>2. ASSUME log' = log, branch' = branch
      PROVE  Schedule!ScheduledFresh' /\ Schedule!OncePerMinute'
  BY <1>2 DEF ScheduleInv, Schedule!ScheduledFresh, Schedule!OncePerMinute
<1>3. CASE Schedule!StartTick
  BY <1>3, StartTickInv
<1>4. CASE Schedule!Discover
  BY <1>4, DiscoverInv
<1>5. CASE Schedule!CreateScheduled
  BY <1>5, CreateScheduledInv
<1>6. CASE Schedule!RepositoryFails
  <2>1. /\ tick.at # "idle" /\ tick.rest # <<>> /\ tick' = [Schedule!Skip(tick) EXCEPT !.failed = TRUE]
        /\ UNCHANGED <<minute, branch, cached, scheduled, log, processed>>
    BY <1>6 DEF Schedule!RepositoryFails
  <2>2. tick' \in Tick /\ PassFresh' /\ tick'.failed = TRUE
    BY <2>1, PassSkips
  <2>3. /\ cached' \in [DOMAIN cached' -> CacheEntry] /\ DOMAIN cached' \subseteq Schedule!Repos /\ CacheFresh'
    BY <1>1, <2>1 DEF ScheduleType, CacheFresh
  <2>4. PassServes'
    BY <2>2 DEF PassServes
  <2> QED BY <2>1, <2>2, <2>3, <2>4, PassMoves
<1>7. ASSUME tick' = Schedule!NoTick
      PROVE  tick' \in Tick /\ tick'.at = "idle"
  BY <1>7 DEF Schedule!NoTick, Tick
<1>8. CASE Schedule!FinishTick
  <2>1. /\ tick.at = "discover" /\ tick.rest = <<>> /\ tick' = Schedule!NoTick
        /\ UNCHANGED <<minute, branch, cached, scheduled, log>>
        /\ processed' = IF ~tick.failed THEN processed \cup {tick.for} ELSE processed
    BY <1>8 DEF Schedule!FinishTick, Schedule!Counts
  <2>2. ScheduleType' /\ CacheFresh' /\ MinuteKept'
    BY <1>1, <1>7, <2>1 DEF ScheduleType, CacheFresh, MinuteKept
  <2>3. PassFresh' /\ PassServes'
    BY <1>1, <1>7, <2>1 DEF PassFresh, PassServes
  <2>4. ~tick.failed => \A r \in Schedule!Repos : Served(r, tick.for)
    BY <1>1, <2>1 DEF PassServes, Waiting
  <2>5. Schedule!ProcessedMinuteHasRuns'
    <3>1. \A m \in processed, r \in Schedule!Repos : Served(r, m)
      BY DEF ScheduleInv, Schedule!ProcessedMinuteHasRuns, Served
    <3>2. \A m \in processed', r \in Schedule!Repos : Served(r, m)
      BY <2>1, <2>4, <3>1
    <3> QED BY <2>1, <3>2 DEF Schedule!ProcessedMinuteHasRuns, Served
  <2> QED BY <1>2, <2>1, <2>2, <2>3, <2>5 DEF ScheduleInv
<1>9. CASE Schedule!RestartSchedule
  <2>1. tick' = Schedule!NoTick /\ cached' = <<>> /\ UNCHANGED <<minute, branch, scheduled, log, processed>>
    BY <1>9 DEF Schedule!RestartSchedule
  <2>2. DOMAIN cached' = {} /\ cached' \in [DOMAIN cached' -> CacheEntry]
    BY <2>1
  <2>3. CacheFresh'
    BY <2>2 DEF CacheFresh
  <2>4. PassFresh' /\ PassServes'
    BY <1>1, <1>7, <2>1 DEF PassFresh, PassServes
  <2> QED BY <1>7, <2>1, <2>2, <2>3, <2>4, PassMoves
<1>10. CASE Schedule!MinutePasses
  <2>1. minute' = minute + 1 /\ UNCHANGED <<branch, cached, tick, scheduled, log, processed>>
    BY <1>10 DEF Schedule!MinutePasses
  <2>2. ScheduleType' /\ CacheFresh'
    BY <1>1, <2>1 DEF ScheduleType, CacheFresh
  <2>3. PassFresh'
    BY <1>1, <2>1 DEF PassFresh, ScheduleType, Tick
  <2>4. PassServes'
    BY <1>1, <2>1 DEF PassServes, Served, Waiting
  <2>5. MinuteKept'
    <3>1. \A x \in log : x.key[2] \in Nat
      BY <1>1 DEF ScheduleType
    <3> QED BY <1>1, <2>1, <3>1 DEF MinuteKept, ScheduleType
  <2>6. Schedule!ProcessedMinuteHasRuns'
    BY <2>1 DEF ScheduleInv, Schedule!ProcessedMinuteHasRuns
  <2> QED BY <1>2, <2>1, <2>2, <2>3, <2>4, <2>5, <2>6 DEF ScheduleInv
<1>11. ASSUME NEW r \in Schedule!Repos, Schedule!PushTo(r) PROVE ScheduleInv'
  <2>1. branch' = [branch EXCEPT ![r] = branch[r] + 1] /\ UNCHANGED <<minute, cached, tick, scheduled, log, processed>>
    BY <1>11 DEF Schedule!PushTo
  <2>2. /\ branch' \in [Schedule!Repos -> Nat] /\ \A q \in Schedule!Repos : branch[q] <= branch'[q]
        /\ \A q \in Schedule!Repos : branch[q] \in Nat /\ branch'[q] \in Nat
    BY <1>1, <2>1 DEF ScheduleType
  <2>3. ScheduleType'
    BY <1>1, <2>1, <2>2 DEF ScheduleType
  <2>4. CacheFresh'
    <3> SUFFICES ASSUME NEW q \in DOMAIN cached
                 PROVE  /\ cached[q].pushed <= cached[q].rev /\ cached[q].rev \in 1..branch'[q]
                        /\ cached[q].bad => <<q, cached[q].rev>> \in Unsupported
      BY <2>1 DEF CacheFresh
    <3>1. q \in Schedule!Repos
      BY <1>1 DEF ScheduleType
    <3> QED BY <1>1, <2>2, <3>1 DEF CacheFresh
  <2>5. PassFresh'
    <3>1. \A q \in Schedule!Repos : branch'[q] > 0
      BY <1>1, <2>2 DEF PassFresh
    <3>2. tick.at # "idle" => \A q \in Schedule!Repos : tick.listed[q] \in Nat /\ tick.listed[q] <= branch'[q]
      BY <1>1, <2>2 DEF PassFresh
    <3> QED BY <1>1, <2>1, <3>1, <3>2 DEF PassFresh
  <2>6. \A q \in Schedule!Repos : \A m : Served(q, m) => Served(q, m)'
    BY <1>1, <2>1, <2>2, ServedStays
  <2>7. PassServes'
    BY <1>1, <2>1, <2>6 DEF PassServes, Waiting
  <2>8. MinuteKept'
    BY <1>1, <2>1 DEF MinuteKept
  <2>9. Schedule!ProcessedMinuteHasRuns'
    <3>1. \A m \in processed, q \in Schedule!Repos : Served(q, m)
      BY DEF ScheduleInv, Schedule!ProcessedMinuteHasRuns, Served
    <3>2. \A m \in processed', q \in Schedule!Repos : Served(q, m)'
      BY <2>1, <2>6, <3>1
    <3> QED BY <3>2 DEF Schedule!ProcessedMinuteHasRuns, Served
  <2>10. Schedule!ScheduledFresh' /\ Schedule!OncePerMinute'
    BY <2>1 DEF ScheduleInv, Schedule!ScheduledFresh, Schedule!OncePerMinute
  <2> QED BY <2>3, <2>4, <2>5, <2>7, <2>8, <2>9, <2>10 DEF ScheduleInv
<1>12. ASSUME UNCHANGED <<minute, branch, cached, tick, log, processed>>,
              scheduled' \in [DOMAIN scheduled' -> ScheduledRun], DOMAIN scheduled' \subseteq DOMAIN scheduled,
              \A k \in DOMAIN scheduled' : scheduled'[k].made = scheduled[k].made,
              \A k \in DOMAIN scheduled \ DOMAIN scheduled' : minute > scheduled[k].made
       PROVE  ScheduleInv'
  <2>1. ScheduleType' /\ CacheFresh' /\ PassFresh' /\ PassServes'
    BY <1>1, <1>12 DEF ScheduleType, CacheFresh, PassFresh, PassServes, Served, Waiting
  <2>2. MinuteKept'
    <3>1. \A k \in DOMAIN scheduled : k[2] \in Nat /\ scheduled[k].made \in Nat /\ k[2] <= scheduled[k].made
      BY <1>1 DEF ScheduleType, ScheduledRun, MinuteKept
    <3>2. minute \in Nat
      BY <1>1 DEF ScheduleType
    <3> QED BY <1>1, <1>12, <3>1, <3>2 DEF MinuteKept
  <2>3. Schedule!ProcessedMinuteHasRuns'
    BY <1>12 DEF ScheduleInv, Schedule!ProcessedMinuteHasRuns
  <2> QED BY <1>2, <1>12, <2>1, <2>2, <2>3 DEF ScheduleInv
<1>13. ASSUME NEW k \in DOMAIN scheduled, Schedule!DeleteScheduled(k) PROVE ScheduleInv'
  <2>1. scheduled[k] \in ScheduledRun
    BY <1>1 DEF ScheduleType
  <2> DEFINE new == [scheduled[k] EXCEPT !.deleting = TRUE]
  <2>2. new \in ScheduledRun /\ new.made = scheduled[k].made
    BY <2>1 DEF ScheduledRun
  <2>3. scheduled' = [scheduled EXCEPT ![k] = new] /\ UNCHANGED <<minute, branch, cached, tick, log, processed>>
    BY <1>13 DEF Schedule!DeleteScheduled
  <2> HIDE DEF new
  <2>4. /\ DOMAIN scheduled' = DOMAIN scheduled /\ scheduled' \in [DOMAIN scheduled' -> ScheduledRun]
        /\ \A j \in DOMAIN scheduled' : scheduled'[j].made = scheduled[j].made
    BY <1>1, <2>2, <2>3 DEF ScheduleType
  <2> QED BY <1>12, <2>3, <2>4
<1>14. ASSUME NEW k \in DOMAIN scheduled, Schedule!FinalizeScheduled(k) PROVE ScheduleInv'
  <2>1. /\ scheduled' = [j \in DOMAIN scheduled \ {k} |-> scheduled[j]] /\ minute > scheduled[k].made
        /\ UNCHANGED <<minute, branch, cached, tick, log, processed>>
    BY <1>14 DEF Schedule!FinalizeScheduled, Schedule!FinalizerOver
  <2>2. /\ DOMAIN scheduled' = DOMAIN scheduled \ {k} /\ scheduled' \in [DOMAIN scheduled' -> ScheduledRun]
        /\ \A j \in DOMAIN scheduled' : scheduled'[j] = scheduled[j]
    BY <1>1, <2>1 DEF ScheduleType
  <2> QED BY <1>12, <2>1, <2>2
<1> QED BY <1>3, <1>4, <1>5, <1>6, <1>8, <1>9, <1>10, <1>11, <1>13, <1>14 DEF Schedule!ScheduleNext

LEMMA ScheduleStep ==
    ASSUME On("schedule") => ScheduleInv, [Next]_vars
    PROVE  (On("schedule") => ScheduleInv)'
<1>1. focus' = focus
  BY DEF Next, Alone, vars
<1> SUFFICES ASSUME On("schedule")
             PROVE  ScheduleInv'
  BY <1>1 DEF On
<1>2. CASE Next
  <2>1. Schedule!ScheduleNext
    BY <1>2 DEF Next, On
  <2> QED BY <2>1, ScheduleNextInv DEF On
<1>3. CASE UNCHANGED vars
  <2>1. UNCHANGED <<minute, branch, cached, tick, scheduled, log, processed>>
    BY <1>3 DEF vars, scheduleVars
  <2>2. tick' \in Tick /\ CacheFresh' /\ PassFresh' /\ PassServes'
    BY <2>1 DEF ScheduleInv, ScheduleType, CacheFresh, PassFresh, PassServes, Served, Waiting
  <2>3. cached' \in [DOMAIN cached' -> CacheEntry] /\ DOMAIN cached' \subseteq Schedule!Repos
    BY <2>1 DEF ScheduleInv, ScheduleType
  <2> QED BY <2>1, <2>2, <2>3, PassMoves DEF On
<1> QED BY <1>2, <1>3

(* Schedules: for every list of repositories, every table of due minutes   *)
(* and every number of passes, pushes, failures and deletions, a scheduled *)
(* run is for a revision at least as new as the list its pass worked with, *)
(* no pass creates a run again within its minute, and a minute that counts *)
(* as processed has a run for every due workflow.                          *)
THEOREM SchedulesAreKept == Spec => []ScheduleKept
<1>1. Init => (On("schedule") => ScheduleInv)
  BY ScheduleInitInv DEF Init
<1>2. (On("schedule") => ScheduleInv) /\ [Next]_vars => (On("schedule") => ScheduleInv)'
  BY ScheduleStep
<1>3. (On("schedule") => ScheduleInv) => ScheduleKept
  BY DEF ScheduleInv, ScheduleKept
<1> QED BY <1>1, <1>2, <1>3, PTL DEF Spec

-----------------------------------------------------------------------------
(* RerunLineage.                                                           *)

Attempt == [uid : Nat, previous : Nat, identity : BOOLEAN, planned : BOOLEAN, done : BOOLEAN, invalid : BOOLEAN,
            deleting : BOOLEAN, target : Nat, late : BOOLEAN, version : Nat, guarded : BOOLEAN]

Ask == [at : {"idle", "protect", "create"}, root : {<<>>} \cup Attempt, attempt : Nat, previous : Nat]

Work == [at : {"idle", "own", "release", "identity", "invalid", "reject"}, attempt : Nat]

RerunType ==
    /\ attempts \in [DOMAIN attempts -> Attempt] /\ DOMAIN attempts \subseteq Nat \ {0}
    /\ made \in Nat /\ console \in [Consoles -> Ask] /\ worker \in Work

(* Whoever follows an attempt, by its UID, follows one that was completed. *)
Follows(n, u) == Rerun!Exists(n - 1) /\ attempts[n - 1].uid = u

Completed(n, u) == Follows(n, u) => attempts[n - 1].done /\ attempts[n - 1].identity

AttemptKnown(n) ==
    /\ attempts[n].uid <= made /\ attempts[n].previous <= made
    /\ attempts[n].planned => attempts[n].identity
    /\ attempts[n].done => attempts[n].invalid \/ attempts[n].identity
    /\ attempts[n].deleting => attempts[n].done
    /\ Completed(n, attempts[n].previous)

(* The original run owns the snapshot as long as it exists.                *)
OriginalKnown ==
    Rerun!Exists(1) => /\ attempts[1].uid = 1 /\ 1 \in secret
                       /\ attempts[1].late => attempts[1].target \in excused

(* A request holds a copy of the original run.  An equal version shows     *)
(* that the protection is as it was; and the protection a request counts   *)
(* on is there until its attempt exists, or its number is excused.         *)
RequestKnown(q) ==
    q.at # "idle" =>
        /\ q.root \in Attempt /\ q.attempt > 1 /\ q.previous <= made /\ Completed(q.attempt, q.previous)
        /\ Rerun!Exists(1) => /\ q.root.version <= attempts[1].version
                              /\ q.root.version = attempts[1].version => q.root.target = attempts[1].target
        /\ q.at = "create" => q.root.target = q.attempt
        /\ q.root.target = q.attempt /\ q.attempt \notin excused /\ ~Rerun!Exists(q.attempt) => Rerun!Guarded(q.attempt)

(* The attempt the controller works on stays, unplanned, until it is done  *)
(* with it; it ends the protection of no attempt that still needs it.      *)
WorkerKnown ==
    worker.at # "idle" =>
        /\ worker.attempt > 1 /\ Rerun!Exists(worker.attempt)
        /\ ~attempts[worker.attempt].planned /\ ~attempts[worker.attempt].done
        /\ worker.at \in {"invalid", "reject"} => ~Rerun!Valid(worker.attempt)
        /\ worker.at \in {"release", "identity"} => Rerun!Owned(worker.attempt)

(* An attempt that waits for the snapshot under protection is the one the  *)
(* original run is kept for.                                               *)
Waits(n) ==
    /\ attempts[n].guarded /\ ~attempts[n].planned /\ ~attempts[n].done
    /\ Rerun!Valid(n) /\ ~Rerun!Owned(n)

WaitingKept == \A n \in DOMAIN attempts : Waits(n) => Rerun!Guarded(n)

RerunInv ==
    /\ RerunType /\ (\A n \in DOMAIN attempts : AttemptKnown(n)) /\ OriginalKnown
    /\ (\A c \in Consoles : RequestKnown(console[c])) /\ WorkerKnown /\ WaitingKept

-----------------------------------------------------------------------------
(* What every step but the creation of an attempt does.                    *)

(* An attempt stays what it is.                                            *)
Same(a, b) ==
    /\ b.uid = a.uid /\ b.previous = a.previous /\ b.guarded = a.guarded
    /\ a.identity => b.identity
    /\ a.done => b.done
    /\ a.planned => b.planned
    /\ b.planned => b.identity
    /\ b.done => b.invalid \/ b.identity
    /\ b.deleting => b.done

Evolves ==
    /\ DOMAIN attempts' \subseteq DOMAIN attempts /\ made' = made /\ excused \subseteq excused'
    /\ \A n \in DOMAIN attempts' :
          Same(attempts[n], attempts'[n]) /\ (attempts[n].uid \in secret => attempts'[n].uid \in secret')
    /\ \A n \in DOMAIN attempts \ DOMAIN attempts' : n = 1 \/ n \in excused'
    /\ 1 \in DOMAIN attempts' =>
          /\ attempts'[1].late => attempts'[1].target \in excused'
          /\ attempts[1].version <= attempts'[1].version
          /\ attempts[1].version = attempts'[1].version => attempts'[1].target = attempts[1].target
    /\ \A n \in Nat : n > 1 /\ Rerun!Guarded(n) /\ ~Rerun!Guarded(n)' =>
          IF n \in DOMAIN attempts' THEN ~Waits(n) \/ attempts'[n].uid \in secret' ELSE n \in excused'

Unfinished(n) == n \in DOMAIN attempts /\ ~attempts[n].planned /\ ~attempts[n].done

LEMMA CompletedStays ==
    ASSUME RerunInv, Evolves, NEW n, NEW u, Completed(n, u)
    PROVE  Completed(n, u)'
  BY DEF Evolves, Same, Completed, Follows, Rerun!Exists

LEMMA ValidWas ==
    ASSUME RerunInv, Evolves, NEW n \in DOMAIN attempts', Rerun!Valid(n)'
    PROVE  Rerun!Valid(n)
<1>1. Completed(n, attempts[n].previous) /\ n \in DOMAIN attempts
  BY DEF Evolves, RerunInv, AttemptKnown
<1>2. n - 1 \in DOMAIN attempts /\ attempts[n - 1].uid = attempts[n].previous
  BY DEF Evolves, Same, Rerun!Valid, Rerun!Exists
<1> QED BY <1>1, <1>2 DEF Completed, Follows, Rerun!Valid, Rerun!Exists

LEMMA EvolvesInv ==
    ASSUME RerunInv, RerunType', Evolves,
           \A c \in Consoles : console'[c] = console[c] \/ RequestKnown(console[c])',
           \/ WorkerKnown'
           \/ worker' = worker /\ \A n \in Nat : Unfinished(n) => Unfinished(n)'
    PROVE  RerunInv'
<1>1. RerunType /\ (\A n \in DOMAIN attempts : AttemptKnown(n)) /\ OriginalKnown /\ WorkerKnown /\ WaitingKept
  BY DEF RerunInv
<1>2. DOMAIN attempts' \subseteq DOMAIN attempts /\ made' = made /\ DOMAIN attempts \subseteq Nat \ {0}
  BY <1>1 DEF Evolves, RerunType
<1>3. ASSUME NEW n \in DOMAIN attempts' PROVE AttemptKnown(n)'
  <2>1. AttemptKnown(n) /\ Same(attempts[n], attempts'[n])
    BY <1>1, <1>2 DEF Evolves
  <2>2. ASSUME NEW u, u = attempts[n].previous PROVE Completed(n, u)'
    BY <2>1, <2>2, CompletedStays DEF AttemptKnown
  <2>3. Completed(n, attempts[n].previous)'
    BY <2>1, <2>2 DEF Completed, Follows, Same
  <2> QED BY <1>2, <2>1, <2>3 DEF AttemptKnown, Same
<1>4. OriginalKnown'
  <2> SUFFICES ASSUME 1 \in DOMAIN attempts'
               PROVE  /\ attempts'[1].uid = 1 /\ 1 \in secret'
                      /\ attempts'[1].late => attempts'[1].target \in excused'
    BY DEF OriginalKnown, Rerun!Exists
  <2> QED BY <1>1, <1>2 DEF Evolves, Same, OriginalKnown, Rerun!Exists
<1>5. ASSUME NEW c \in Consoles PROVE RequestKnown(console[c])'
  <2> SUFFICES ASSUME NEW q, q = console[c], console'[c] = q PROVE RequestKnown(console[c])'
    OBVIOUS
  <2>1. RequestKnown(q)
    BY DEF RerunInv
  <2>2. q \in Ask
    BY <1>1 DEF RerunType
  <2>3. CASE q.at = "idle"
    BY <2>3 DEF RequestKnown
  <2>4. CASE q.at # "idle"
    <3>1. q.root \in Attempt /\ q.attempt > 1 /\ q.previous <= made' /\ (q.at = "create" => q.root.target = q.attempt)
      BY <1>2, <2>1, <2>4 DEF RequestKnown
    <3>2. ASSUME NEW n, n = q.attempt, NEW u, u = q.previous PROVE Completed(n, u)'
      BY <2>1, <2>4, <3>2, CompletedStays DEF RequestKnown
    <3>3. 1 \in DOMAIN attempts' =>
             /\ q.root.version <= attempts'[1].version
             /\ q.root.version = attempts'[1].version => q.root.target = attempts'[1].target
      <4> HAVE 1 \in DOMAIN attempts'
      <4>1. /\ q.root.version <= attempts[1].version
            /\ q.root.version = attempts[1].version => q.root.target = attempts[1].target
        BY <1>2, <2>1, <2>4 DEF RequestKnown, Rerun!Exists
      <4>2. /\ attempts[1].version <= attempts'[1].version
            /\ attempts[1].version = attempts'[1].version => attempts'[1].target = attempts[1].target
        BY DEF Evolves
      <4>3. q.root.version \in Nat /\ attempts[1].version \in Nat /\ attempts'[1].version \in Nat
        BY <1>1, <1>2, <3>1 DEF RerunType, Attempt
      <4> QED BY <4>1, <4>2, <4>3
    <3>4. ASSUME NEW n, n = q.attempt, q.root.target = n, n \notin excused', n \notin DOMAIN attempts'
          PROVE  1 \in DOMAIN attempts' /\ attempts'[1].target = n
      <4>1. n \in Nat /\ n > 1 /\ n \notin excused /\ n \notin DOMAIN attempts
        BY <2>2, <3>1, <3>4 DEF Evolves, Ask
      <4>2. Rerun!Guarded(n)
        BY <2>1, <2>4, <3>4, <4>1 DEF RequestKnown, Rerun!Exists
      <4>3. Rerun!Guarded(n)'
        BY <3>4, <4>1, <4>2 DEF Evolves
      <4> QED BY <4>3 DEF Rerun!Guarded, Rerun!Exists
    <3> QED BY <3>1, <3>2, <3>3, <3>4 DEF RequestKnown, Completed, Follows, Rerun!Exists, Rerun!Guarded
  <2> QED BY <2>3, <2>4
<1>6. WorkerKnown'
  <2> SUFFICES ASSUME worker' = worker, \A n \in Nat : Unfinished(n) => Unfinished(n)', worker.at # "idle",
                      NEW n, n = worker.attempt
               PROVE  WorkerKnown'
    BY DEF WorkerKnown
  <2>1. n \in Nat /\ n > 1 /\ Unfinished(n)
    BY <1>1 DEF WorkerKnown, Unfinished, Rerun!Exists, RerunType, Work
  <2>2. Unfinished(n)'
    BY <2>1
  <2>3. n \in DOMAIN attempts' /\ ~attempts'[n].planned /\ ~attempts'[n].done
    BY <2>2 DEF Unfinished
  <2>4. worker.at \in {"invalid", "reject"} => ~Rerun!Valid(n)'
    BY <1>1, <2>3, ValidWas DEF WorkerKnown
  <2>5. worker.at \in {"release", "identity"} => attempts'[n].uid \in secret'
    BY <1>1, <2>3 DEF WorkerKnown, Evolves, Rerun!Owned
  <2> QED BY <2>1, <2>3, <2>4, <2>5 DEF WorkerKnown, Rerun!Exists, Rerun!Owned, Rerun!Valid
<1>7. WaitingKept'
  <2> SUFFICES ASSUME NEW n \in DOMAIN attempts', Waits(n)' PROVE Rerun!Guarded(n)'
    BY DEF WaitingKept
  <2>1. Rerun!Valid(n)
    BY ValidWas DEF Waits
  <2>2. Waits(n) /\ n \in Nat
    BY <1>2, <2>1 DEF Waits, Evolves, Same, Rerun!Owned
  <2>3. Rerun!Guarded(n) /\ n > 1
    <3>1. n - 1 # 0
      BY <1>2, <2>1 DEF Rerun!Valid, Rerun!Exists
    <3> QED BY <1>1, <1>2, <2>2, <3>1 DEF WaitingKept
  <2>4. attempts'[n].uid \notin secret'
    BY DEF Waits, Rerun!Owned
  <2> QED BY <2>2, <2>3, <2>4 DEF Evolves
<1> QED BY <1>3, <1>4, <1>5, <1>6, <1>7 DEF RerunInv

-----------------------------------------------------------------------------
(* The kinds of steps.                                                     *)

RunsStill == attempts' = attempts /\ made' = made /\ excused' = excused

LEMMA ExcusedEvolves ==
    ASSUME RerunInv, attempts' = attempts, made' = made, excused \subseteq excused',
           \A n \in DOMAIN attempts : attempts[n].uid \in secret => attempts[n].uid \in secret'
    PROVE  Evolves /\ \A n \in Nat : Unfinished(n) => Unfinished(n)'
<1>1. \A n \in DOMAIN attempts : AttemptKnown(n) /\ attempts[n] \in Attempt
  BY DEF RerunInv, RerunType
<1>2. \A n \in DOMAIN attempts : Same(attempts[n], attempts[n])
  BY <1>1 DEF Same, AttemptKnown
<1>3. 1 \in DOMAIN attempts => attempts[1].version \in Nat /\ (attempts[1].late => attempts[1].target \in excused)
  BY <1>1 DEF RerunInv, OriginalKnown, Attempt, Rerun!Exists
<1> QED BY <1>2, <1>3 DEF Evolves, Unfinished, Rerun!Guarded, Rerun!Exists

LEMMA StillEvolves ==
    ASSUME RerunInv, RunsStill, \A n \in DOMAIN attempts : attempts[n].uid \in secret => attempts[n].uid \in secret'
    PROVE  Evolves /\ \A n \in Nat : Unfinished(n) => Unfinished(n)'
  BY ExcusedEvolves DEF RunsStill

(* How the protection of attempt n may end.                                *)
Released(n) ==
    n > 1 => IF n \in DOMAIN attempts THEN ~Waits(n) \/ attempts[n].uid \in secret' ELSE n \in excused'

LEMMA OriginalEvolves ==
    ASSUME RerunInv, Rerun!Exists(1), NEW o \in Attempt, Same(attempts[1], o),
           o.planned = attempts[1].planned, o.done = attempts[1].done,
           attempts' = [attempts EXCEPT ![1] = o], made' = made, secret \subseteq secret', excused \subseteq excused',
           o.late => o.target \in excused',
           \/ o.target = attempts[1].target /\ attempts[1].version <= o.version
           \/ Released(attempts[1].target) /\ attempts[1].version < o.version
    PROVE  /\ Evolves /\ \A n \in Nat : Unfinished(n) => Unfinished(n)'
           /\ attempts' \in [DOMAIN attempts' -> Attempt] /\ DOMAIN attempts' \subseteq Nat \ {0}
<1>1. \A n \in DOMAIN attempts : AttemptKnown(n) /\ attempts[n] \in Attempt /\ n \in Nat \ {0}
  BY DEF RerunInv, RerunType
<1>2. /\ DOMAIN attempts' = DOMAIN attempts /\ 1 \in DOMAIN attempts /\ attempts'[1] = o
      /\ \A n \in DOMAIN attempts : n # 1 => attempts'[n] = attempts[n]
      /\ attempts' \in [DOMAIN attempts' -> Attempt] /\ DOMAIN attempts' \subseteq Nat \ {0}
  BY DEF RerunInv, RerunType, Rerun!Exists
<1>3. \A n \in DOMAIN attempts : Same(attempts[n], attempts'[n])
  BY <1>1, <1>2 DEF Same, AttemptKnown
<1>4. attempts[1].version \in Nat /\ o.version \in Nat
  BY <1>1, <1>2 DEF Attempt
<1>5. \A n \in Nat : Unfinished(n) => Unfinished(n)'
  BY <1>2 DEF Unfinished
<1>6. ASSUME NEW n \in Nat, n > 1, Rerun!Guarded(n), ~Rerun!Guarded(n)'
      PROVE  IF n \in DOMAIN attempts' THEN ~Waits(n) \/ attempts'[n].uid \in secret' ELSE n \in excused'
  <2>1. n = attempts[1].target /\ o.target # n
    BY <1>2, <1>6 DEF Rerun!Guarded, Rerun!Exists
  <2>2. Released(n)
    BY <2>1
  <2> QED BY <1>2, <1>6, <2>2 DEF Released
<1>7. \A n \in DOMAIN attempts' : attempts[n].uid \in secret => attempts'[n].uid \in secret'
  BY <1>2, <1>3 DEF Same
<1>8. /\ attempts[1].version <= o.version
      /\ attempts[1].version = o.version => o.target = attempts[1].target
  BY <1>4
<1>9. Evolves
  BY <1>2, <1>3, <1>6, <1>7, <1>8 DEF Evolves
<1> QED BY <1>2, <1>5, <1>9

(* Another target, with a new version, and nothing else.                   *)
Retarget(a, t) == [a EXCEPT !.target = t, !.late = FALSE, !.version = @ + 1]

LEMMA TargetFacts ==
    ASSUME NEW a \in Attempt, NEW t \in Nat,
           a.planned => a.identity, a.done => a.invalid \/ a.identity, a.deleting => a.done
    PROVE  /\ Retarget(a, t) \in Attempt /\ Retarget(a, t).target = t /\ ~Retarget(a, t).late
           /\ a.version < Retarget(a, t).version
           /\ Retarget(a, t).planned = a.planned /\ Retarget(a, t).done = a.done /\ Same(a, Retarget(a, t))
<1> DEFINE o == Retarget(a, t)
<1> USE DEF Retarget
<1>0. a.version \in Nat /\ a.version + 1 \in Nat /\ a.version < a.version + 1
  BY DEF Attempt
<1>1. o \in Attempt
  BY <1>0 DEF Attempt
<1>6. o.target = t /\ o.late = FALSE /\ a.version < o.version
  BY <1>0 DEF Attempt
<1>2. o.uid = a.uid /\ o.previous = a.previous
  BY DEF Attempt
<1>3. o.identity = a.identity /\ o.planned = a.planned
  BY DEF Attempt
<1>4. o.done = a.done /\ o.invalid = a.invalid
  BY DEF Attempt
<1>5. o.guarded = a.guarded /\ o.deleting = a.deleting
  BY DEF Attempt
<1> HIDE DEF o, Retarget
<1>7. /\ o \in Attempt /\ o.target = t /\ ~o.late
      /\ a.version < o.version
      /\ o.planned = a.planned /\ o.done = a.done /\ Same(a, o)
  BY <1>1, <1>2, <1>3, <1>4, <1>5, <1>6 DEF Same
<1> QED BY <1>7 DEF o

LEMMA ClearedEvolves ==
    ASSUME RerunInv, Rerun!Exists(1), attempts' = Rerun!Cleared(attempts), made' = made, secret \subseteq secret',
           excused \subseteq excused', Released(attempts[1].target)
    PROVE  /\ Evolves /\ \A n \in Nat : Unfinished(n) => Unfinished(n)'
           /\ attempts' \in [DOMAIN attempts' -> Attempt] /\ DOMAIN attempts' \subseteq Nat \ {0}
<1>1. \A n \in DOMAIN attempts : AttemptKnown(n) /\ attempts[n] \in Attempt /\ n \in Nat \ {0}
  BY DEF RerunInv, RerunType
<1>2. 1 \in DOMAIN attempts
  BY DEF Rerun!Exists
<1>3. CASE ~attempts[1].deleting
  <2> DEFINE o == Retarget(attempts[1], 0)
  <2>1. /\ o \in Attempt /\ Same(attempts[1], o) /\ ~o.late /\ attempts[1].version < o.version
        /\ o.planned = attempts[1].planned /\ o.done = attempts[1].done
    <3>1. attempts[1] \in Attempt /\ AttemptKnown(1)
      BY <1>1, <1>2
    <3> QED BY <3>1, TargetFacts DEF AttemptKnown
  <2>2. attempts' = [attempts EXCEPT ![1] = o]
    BY <1>2, <1>3 DEF Rerun!Cleared, Retarget
  <2> HIDE DEF o
  <2> QED BY <2>1, <2>2, OriginalEvolves
<1>4. CASE attempts[1].deleting
  <2>1. /\ attempts' = [m \in DOMAIN attempts \ {1} |-> attempts[m]] /\ DOMAIN attempts' = DOMAIN attempts \ {1}
        /\ \A n \in DOMAIN attempts' : attempts'[n] = attempts[n]
    BY <1>4 DEF Rerun!Cleared
  <2>2. attempts[1].done
    BY <1>1, <1>2, <1>4 DEF AttemptKnown
  <2>3. \A n \in Nat : Unfinished(n) => Unfinished(n)'
    BY <2>1, <2>2 DEF Unfinished
  <2>4. \A n \in DOMAIN attempts' : Same(attempts[n], attempts'[n])
    BY <1>1, <2>1 DEF Same, AttemptKnown
  <2>5. ASSUME NEW n \in Nat, n > 1, Rerun!Guarded(n)
        PROVE  IF n \in DOMAIN attempts' THEN ~Waits(n) \/ attempts'[n].uid \in secret' ELSE n \in excused'
    <3>1. Released(n)
      BY <2>5 DEF Rerun!Guarded
    <3> QED BY <2>1, <2>5, <3>1 DEF Released
  <2>6. Evolves
    BY <2>1, <2>4, <2>5 DEF Evolves
  <2> QED BY <1>1, <2>1, <2>3, <2>6
<1> QED BY <1>3, <1>4

-----------------------------------------------------------------------------
(* The requests.                                                           *)

LEMMA RequestEnds ==
    ASSUME RerunInv, NEW c \in Consoles, console' = [console EXCEPT ![c] = Rerun!NoRequest]
    PROVE  /\ console' \in [Consoles -> Ask]
           /\ \A d \in Consoles : console'[d] = console[d] \/ RequestKnown(console[d])'
<1>1. console \in [Consoles -> Ask] /\ Rerun!NoRequest \in Ask /\ Rerun!NoRequest.at = "idle"
  BY DEF RerunInv, RerunType, Ask, Rerun!NoRequest
<1>2. console'[c].at = "idle"
  BY <1>1
<1>3. RequestKnown(console[c])'
  BY <1>2 DEF RequestKnown
<1> QED BY <1>1, <1>3

LEMMA ReadLineageInv ==
    ASSUME RerunInv, NEW c \in Consoles, Rerun!ReadLineage(c)
    PROVE  RerunInv'
<1>1. PICK n \in DOMAIN attempts :
        /\ Rerun!LatestAttempt(n) /\ attempts[n].done
        /\ console' = [console EXCEPT ![c] = [at |-> "protect", root |-> attempts[1], attempt |-> n + 1,
                                               previous |-> attempts[n].uid]]
  BY DEF Rerun!ReadLineage
<1>2. 1 \in DOMAIN attempts /\ UNCHANGED <<attempts, secret, worker, made, excused>>
  BY DEF Rerun!ReadLineage, Rerun!Exists
<1>3. AttemptKnown(n) /\ attempts[n] \in Attempt /\ n \in Nat \ {0} /\ attempts[1] \in Attempt
  BY <1>1, <1>2 DEF RerunInv, RerunType
<1> DEFINE q == [at |-> "protect", root |-> attempts[1], attempt |-> n + 1, previous |-> attempts[n].uid]
<1>4. /\ q \in Ask /\ q.at = "protect" /\ q.root = attempts[1] /\ q.attempt = n + 1 /\ q.previous = attempts[n].uid
      /\ (n + 1) - 1 = n /\ n + 1 > 1
  BY <1>3 DEF Ask, Attempt
<1>5. console' = [console EXCEPT ![c] = q]
  BY <1>1
<1> HIDE DEF q
<1>6. console \in [Consoles -> Ask]
  BY DEF RerunInv, RerunType
<1>7. console' \in [Consoles -> Ask] /\ console'[c] = q /\ \A d \in Consoles : d # c => console'[d] = console[d]
  BY <1>4, <1>5, <1>6
<1>8. RequestKnown(console[c])'
  <2>1. attempts[n].identity /\ attempts[n].uid <= made
    BY <1>1, <1>3 DEF Rerun!LatestAttempt, AttemptKnown
  <2>2. Completed(console[c].attempt, console[c].previous)'
    BY <1>1, <1>2, <1>4, <1>7, <2>1 DEF Completed, Follows, Rerun!Exists
  <2>3. /\ console'[c].at = "protect" /\ console'[c].root = attempts[1] /\ console'[c].attempt > 1
        /\ console'[c].previous <= made'
    BY <1>2, <1>4, <1>7, <2>1
  <2>4. attempts' = attempts /\ attempts[1].version \in Nat /\ attempts[1] \in Attempt
    BY <1>2, <1>3 DEF Attempt
  <2> QED BY <1>2, <2>2, <2>3, <2>4 DEF RequestKnown, Rerun!Exists, Rerun!Guarded
<1>9. Evolves /\ (\A m \in Nat : Unfinished(m) => Unfinished(m)') /\ RerunType'
  <2>1. RunsStill
    BY <1>2 DEF RunsStill
  <2> QED BY <1>2, <1>7, <2>1, StillEvolves DEF RerunInv, RerunType
<1> QED BY <1>2, <1>7, <1>8, <1>9, EvolvesInv

LEMMA ProtectSnapshotInv ==
    ASSUME RerunInv, NEW c \in Consoles, Rerun!ProtectSnapshot(c)
    PROVE  RerunInv'
<1> DEFINE q == console[c]
           n == q.attempt
<1>1. q.at = "protect" /\ UNCHANGED <<secret, worker, made, excused>>
  BY DEF Rerun!ProtectSnapshot
<1>2. RerunType /\ console \in [Consoles -> Ask] /\ q \in Ask /\ RequestKnown(q)
  BY DEF RerunInv, RerunType
<1>3. CASE console' = [console EXCEPT ![c] = Rerun!NoRequest] /\ UNCHANGED attempts
  <2>1. RunsStill
    BY <1>1, <1>3 DEF RunsStill
  <2>2. /\ console' \in [Consoles -> Ask]
        /\ \A d \in Consoles : console'[d] = console[d] \/ RequestKnown(console[d])'
    BY <1>3, RequestEnds
  <2>3. RerunType'
    BY <1>1, <1>2, <1>3, <2>2 DEF RerunType
  <2> QED BY <1>1, <2>1, <2>2, <2>3, StillEvolves, EvolvesInv
<1>4. CASE console' = [console EXCEPT ![c].at = "create"] /\ UNCHANGED attempts /\ q.root.target = n
  <2>1. RunsStill
    BY <1>1, <1>4 DEF RunsStill
  <2>2. /\ console' \in [Consoles -> Ask] /\ \A d \in Consoles : d # c => console'[d] = console[d]
        /\ console'[c].at = "create" /\ console'[c].root = q.root /\ console'[c].attempt = n
        /\ console'[c].previous = q.previous
    BY <1>2, <1>4 DEF Ask
  <2>3. RerunType'
    BY <1>1, <1>2, <1>4, <2>2 DEF RerunType
  <2>4. RequestKnown(console[c])'
    BY <1>1, <1>2, <1>4, <2>2 DEF RequestKnown, Completed, Follows, Rerun!Exists, Rerun!Guarded
  <2> QED BY <1>1, <2>1, <2>2, <2>3, <2>4, StillEvolves, EvolvesInv
<1>5. CASE /\ q.root.target = 0 /\ Rerun!Exists(1) /\ attempts[1].version = q.root.version
           /\ attempts' = [attempts EXCEPT ![1].target = n, ![1].late = FALSE, ![1].version = @ + 1]
           /\ console' = [console EXCEPT ![c].at = "create", ![c].root = attempts'[1]]
  <2> DEFINE o == Retarget(attempts[1], n)
  <2>1. 1 \in DOMAIN attempts /\ attempts[1] \in Attempt /\ AttemptKnown(1) /\ n \in Nat
    BY <1>2, <1>5 DEF RerunInv, RerunType, Rerun!Exists, Ask
  <2>2. /\ o \in Attempt /\ ~o.late /\ attempts[1].version < o.version /\ o.target = n
        /\ o.planned = attempts[1].planned /\ o.done = attempts[1].done /\ Same(attempts[1], o)
    BY <2>1, TargetFacts DEF AttemptKnown
  <2>3. attempts' = [attempts EXCEPT ![1] = o]
    BY <1>2, <1>5, <2>1 DEF RerunType, Retarget
  <2> HIDE DEF o
  <2>5. attempts[1].target = 0
    BY <1>1, <1>2, <1>5 DEF RequestKnown
  <2>6. Released(attempts[1].target)
    BY <2>5 DEF Released
  <2>7. /\ Evolves /\ (\A m \in Nat : Unfinished(m) => Unfinished(m)')
        /\ attempts' \in [DOMAIN attempts' -> Attempt] /\ DOMAIN attempts' \subseteq Nat \ {0}
    BY <1>1, <1>5, <2>2, <2>3, <2>6, OriginalEvolves
  <2>8. attempts'[1] = o
    BY <2>1, <2>3
  <2>9. /\ console' \in [Consoles -> Ask] /\ \A d \in Consoles : d # c => console'[d] = console[d]
        /\ console'[c].at = "create" /\ console'[c].root = o /\ console'[c].attempt = n
        /\ console'[c].previous = q.previous
    BY <1>2, <1>5, <2>2, <2>8 DEF Ask
  <2>10. RerunType'
    BY <1>1, <1>2, <2>7, <2>9 DEF RerunType
  <2>11. RequestKnown(console[c])'
    <3> DEFINE u == q.previous
    <3>1. ASSUME NEW m, m = n, NEW v, v = u PROVE Completed(m, v)'
      BY <1>1, <1>2, <2>7, <3>1, CompletedStays DEF RequestKnown
    <3>2. Completed(console[c].attempt, console[c].previous)'
      BY <2>9, <3>1 DEF Completed, Follows, Rerun!Exists
    <3>3. n > 1 /\ u <= made /\ 1 \in DOMAIN attempts'
      BY <1>1, <1>2, <2>1, <2>3 DEF RequestKnown
    <3> QED BY <1>1, <2>2, <2>8, <2>9, <3>2, <3>3 DEF RequestKnown, Rerun!Exists, Rerun!Guarded, Attempt
  <2> QED BY <1>1, <2>7, <2>9, <2>10, <2>11, EvolvesInv
<1> QED BY <1>3, <1>4, <1>5 DEF Rerun!ProtectSnapshot

(* Only a new attempt is added; what was there stays as it was.            *)
LEMMA CreateAttemptInv ==
    ASSUME RerunInv, NEW c \in Consoles, Rerun!CreateAttempt(c)
    PROVE  RerunInv'
<1> DEFINE q == console[c]
<1>1. /\ q.at = "create" /\ console' = [console EXCEPT ![c] = Rerun!NoRequest]
      /\ UNCHANGED <<secret, worker, excused>>
  BY DEF Rerun!CreateAttempt
<1>2. /\ console' \in [Consoles -> Ask]
      /\ \A d \in Consoles : console'[d] = console[d] \/ RequestKnown(console[d])'
  BY <1>1, RequestEnds
<1>3. /\ RerunType /\ (\A n \in DOMAIN attempts : AttemptKnown(n)) /\ OriginalKnown /\ WorkerKnown /\ WaitingKept
      /\ \A d \in Consoles : RequestKnown(console[d]) /\ console[d] \in Ask
  BY DEF RerunInv, RerunType
<1>4. CASE Rerun!Exists(q.attempt)
  <2>1. RunsStill
    BY <1>1, <1>4 DEF Rerun!CreateAttempt, RunsStill
  <2>2. RerunType'
    BY <1>1, <1>2, <1>3, <2>1 DEF RerunType, RunsStill
  <2> QED BY <1>1, <1>2, <2>1, <2>2, StillEvolves, EvolvesInv
<1>5. ASSUME NEW n, n = q.attempt, ~Rerun!Exists(n)
      PROVE  RerunInv'
  <2> DEFINE new == Rerun!NewRun(made + 1, q.previous, n \notin excused)
  <2>1. /\ made' = made + 1 /\ made \in Nat
        /\ attempts' = [m \in DOMAIN attempts \cup {n} |-> IF m = n THEN new ELSE attempts[m]]
    BY <1>3, <1>5 DEF Rerun!CreateAttempt, RerunType
  <2>2. n \in Nat /\ n > 1 /\ n \notin DOMAIN attempts /\ q.previous \in Nat /\ q.previous <= made
    BY <1>1, <1>3, <1>5 DEF Ask, RequestKnown, Rerun!Exists
  <2>3. /\ new \in Attempt /\ new.uid = made + 1 /\ new.previous = q.previous
        /\ ~new.planned /\ ~new.done /\ ~new.deleting /\ new.guarded = (n \notin excused)
    <3> DEFINE b == n \notin excused
    <3>1. b \in BOOLEAN
      OBVIOUS
    <3>2. new = Rerun!NewRun(made + 1, q.previous, b)
      OBVIOUS
    <3> HIDE DEF b, new
    <3>3. /\ new \in Attempt /\ new.uid = made + 1 /\ new.previous = q.previous
          /\ new.planned = FALSE /\ new.done = FALSE /\ new.deleting = FALSE /\ new.guarded = b
      BY <2>1, <2>2, <3>1, <3>2 DEF Rerun!NewRun, Attempt
    <3> QED BY <3>3 DEF b
  <2> HIDE DEF new
  <2>4. /\ DOMAIN attempts' = DOMAIN attempts \cup {n} /\ attempts'[n] = new
        /\ \A m \in DOMAIN attempts : attempts'[m] = attempts[m] /\ m # n
    BY <2>1, <2>2
  <2>5. DOMAIN attempts \subseteq Nat \ {0} /\ \A m \in DOMAIN attempts : attempts[m] \in Attempt
    BY <1>3 DEF RerunType
  <2>6. attempts' \in [DOMAIN attempts' -> Attempt] /\ DOMAIN attempts' \subseteq Nat \ {0}
    BY <2>1, <2>2, <2>3, <2>4, <2>5
  <2>7. RerunType'
    <3>1. made' \in Nat
      BY <2>1
    <3>2. worker' = worker
      BY <1>1
    <3> QED BY <1>2, <1>3, <2>6, <3>1, <3>2 DEF RerunType
  <2>8. ASSUME NEW m \in Nat, NEW u \in Nat, u <= made, Completed(m, u)
        PROVE  Completed(m, u)'
    <3> SUFFICES ASSUME m - 1 \in DOMAIN attempts', attempts'[m - 1].uid = u
                 PROVE  attempts'[m - 1].done /\ attempts'[m - 1].identity
      BY DEF Completed, Follows, Rerun!Exists
    <3>1. m - 1 # n
      BY <2>1, <2>3, <2>4, <2>8
    <3>2. m - 1 \in DOMAIN attempts /\ attempts'[m - 1] = attempts[m - 1]
      BY <2>4, <3>1
    <3> QED BY <2>8, <3>2 DEF Completed, Follows, Rerun!Exists
  <2>9. ASSUME NEW m \in DOMAIN attempts'
        PROVE  AttemptKnown(m)'
    <3>1. CASE m = n
      <4>1. ASSUME NEW u, u = q.previous PROVE Completed(n, u)'
        BY <1>1, <1>3, <1>5, <2>2, <2>8, <4>1 DEF RequestKnown
      <4>2. Completed(n, attempts[n].previous)'
        BY <2>3, <2>4, <4>1 DEF Completed, Follows
      <4> QED BY <2>1, <2>2, <2>3, <2>4, <3>1, <4>2 DEF AttemptKnown
    <3>2. CASE m # n
      <4>1. m \in DOMAIN attempts /\ attempts'[m] = attempts[m] /\ AttemptKnown(m) /\ attempts[m] \in Attempt /\ m \in Nat
        BY <1>3, <2>4, <2>5, <3>2
      <4>2. attempts[m].uid \in Nat /\ attempts[m].previous \in Nat
        BY <4>1 DEF Attempt
      <4>3. ASSUME NEW u, u = attempts[m].previous PROVE Completed(m, u)'
        BY <2>8, <4>1, <4>2, <4>3 DEF AttemptKnown
      <4>4. Completed(m, attempts[m].previous)'
        BY <4>1, <4>3 DEF Completed, Follows
      <4> QED BY <2>1, <4>1, <4>2, <4>4 DEF AttemptKnown
    <3> QED BY <3>1, <3>2
  <2>10. OriginalKnown'
    <3>1. 1 \in DOMAIN attempts' => 1 \in DOMAIN attempts /\ attempts'[1] = attempts[1]
      BY <2>2, <2>4
    <3> QED BY <1>1, <1>3, <3>1 DEF OriginalKnown, Rerun!Exists
  <2>11. ASSUME NEW m \in DOMAIN attempts, Rerun!Valid(m)'
         PROVE  Rerun!Valid(m)
    <3>1. /\ m - 1 \in DOMAIN attempts' /\ attempts'[m - 1].uid = attempts[m].previous
          /\ attempts'[m - 1].done /\ attempts'[m - 1].identity
      BY <2>4, <2>11 DEF Rerun!Valid, Rerun!Exists
    <3>2. attempts[m].previous <= made /\ attempts[m].previous \in Nat
      BY <1>3, <2>5 DEF AttemptKnown, Attempt
    <3>3. m - 1 # n
      BY <2>1, <2>3, <2>4, <3>1, <3>2
    <3>4. m - 1 \in DOMAIN attempts /\ attempts'[m - 1] = attempts[m - 1]
      BY <2>4, <3>1, <3>3
    <3> QED BY <3>1, <3>4 DEF Rerun!Valid, Rerun!Exists
  <2>12. WorkerKnown'
    <3> SUFFICES ASSUME worker.at # "idle", NEW m, m = worker.attempt PROVE WorkerKnown'
      BY <1>1 DEF WorkerKnown
    <3>1. m > 1 /\ m \in DOMAIN attempts /\ ~attempts[m].planned /\ ~attempts[m].done /\ attempts'[m] = attempts[m]
      BY <1>3, <2>4 DEF WorkerKnown, Rerun!Exists
    <3>2. worker.at \in {"invalid", "reject"} => ~Rerun!Valid(m)'
      BY <1>3, <2>11, <3>1 DEF WorkerKnown
    <3>3. worker.at \in {"release", "identity"} => attempts'[m].uid \in secret'
      BY <1>1, <1>3, <3>1 DEF WorkerKnown, Rerun!Owned
    <3> QED BY <1>1, <2>4, <3>1, <3>2, <3>3 DEF WorkerKnown, Rerun!Exists, Rerun!Owned, Rerun!Valid
  <2>13. WaitingKept'
    <3> SUFFICES ASSUME NEW m \in DOMAIN attempts', Waits(m)' PROVE Rerun!Guarded(m)'
      BY DEF WaitingKept
    <3>1. CASE m = n
      <4>1. n \notin excused /\ q.root.target = q.attempt
        BY <1>1, <1>3, <2>3, <2>4, <3>1 DEF Waits, RequestKnown
      <4>2. Rerun!Guarded(n)
        BY <1>1, <1>3, <1>5, <4>1 DEF RequestKnown
      <4> QED BY <2>4, <3>1, <4>2 DEF Rerun!Guarded, Rerun!Exists
    <3>2. CASE m # n
      <4>1. m \in DOMAIN attempts /\ attempts'[m] = attempts[m]
        BY <2>4, <3>2
      <4>2. Rerun!Valid(m)
        BY <2>11, <4>1 DEF Waits
      <4>3. Waits(m)
        BY <1>1, <4>1, <4>2 DEF Waits, Rerun!Owned
      <4>4. Rerun!Guarded(m)
        BY <1>3, <4>1, <4>3 DEF WaitingKept
      <4> QED BY <2>4, <4>4 DEF Rerun!Guarded, Rerun!Exists
    <3> QED BY <3>1, <3>2
  <2>14. ASSUME NEW d \in Consoles PROVE RequestKnown(console[d])'
    <3> SUFFICES ASSUME NEW p, p = console[d], console'[d] = p, p.at # "idle" PROVE RequestKnown(console[d])'
      BY <1>2 DEF RequestKnown
    <3>1. RequestKnown(p) /\ p \in Ask
      BY <1>3
    <3>2. p.attempt \in Nat /\ p.previous \in Nat
      BY <3>1 DEF Ask
    <3>3. ASSUME NEW k, k = p.attempt, NEW u, u = p.previous PROVE Completed(k, u)'
      BY <2>8, <3>1, <3>2, <3>3 DEF RequestKnown
    <3>4. 1 \in DOMAIN attempts' <=> 1 \in DOMAIN attempts
      BY <2>2, <2>4
    <3>5. 1 \in DOMAIN attempts => attempts'[1] = attempts[1]
      BY <2>4
    <3>6. ASSUME NEW k, k = p.attempt, p.root.target = k, k \notin excused', k \notin DOMAIN attempts'
          PROVE  1 \in DOMAIN attempts' /\ attempts'[1].target = k
      BY <1>1, <2>4, <3>1, <3>4, <3>5, <3>6 DEF RequestKnown, Rerun!Guarded, Rerun!Exists
    <3>7. p.previous <= made'
      BY <2>1, <3>1, <3>2 DEF RequestKnown
    <3> QED BY <3>1, <3>3, <3>4, <3>5, <3>6, <3>7 DEF RequestKnown, Completed, Follows, Rerun!Exists, Rerun!Guarded
  <2> QED BY <2>7, <2>9, <2>10, <2>12, <2>13, <2>14 DEF RerunInv
<1> QED BY <1>4, <1>5

LEMMA CreateFailsInv ==
    ASSUME RerunInv, NEW c \in Consoles, Rerun!CreateFails(c)
    PROVE  RerunInv'
<1> DEFINE q == console[c]
<1>1. /\ q.at = "create" /\ ~Rerun!Exists(q.attempt) /\ console' = [console EXCEPT ![c] = Rerun!NoRequest]
      /\ excused' = excused \cup {q.attempt} /\ UNCHANGED <<secret, worker, made>>
      /\ attempts' = IF Rerun!Exists(1) /\ attempts[1].version = q.root.version THEN Rerun!Cleared(attempts) ELSE attempts
  BY DEF Rerun!CreateFails
<1>2. /\ console' \in [Consoles -> Ask]
      /\ \A d \in Consoles : console'[d] = console[d] \/ RequestKnown(console[d])'
  BY <1>1, RequestEnds
<1>3. RerunType /\ RequestKnown(q)
  BY DEF RerunInv
<1>4. CASE Rerun!Exists(1) /\ attempts[1].version = q.root.version
  <2>1. attempts[1].target = q.attempt
    BY <1>1, <1>3, <1>4 DEF RequestKnown
  <2>2. Released(attempts[1].target)
    BY <1>1, <2>1 DEF Released, Rerun!Exists
  <2>3. /\ Evolves /\ (\A n \in Nat : Unfinished(n) => Unfinished(n)')
        /\ attempts' \in [DOMAIN attempts' -> Attempt] /\ DOMAIN attempts' \subseteq Nat \ {0}
    BY <1>1, <1>4, <2>2, ClearedEvolves
  <2>4. RerunType'
    BY <1>1, <1>2, <1>3, <2>3 DEF RerunType
  <2> QED BY <1>1, <1>2, <2>3, <2>4, EvolvesInv
<1>5. CASE ~(Rerun!Exists(1) /\ attempts[1].version = q.root.version)
  <2>1. attempts' = attempts /\ made' = made /\ excused \subseteq excused' /\ secret' = secret
    BY <1>1, <1>5
  <2>2. Evolves /\ \A n \in Nat : Unfinished(n) => Unfinished(n)'
    BY <2>1, ExcusedEvolves
  <2>3. RerunType'
    BY <1>1, <1>2, <1>3, <2>1 DEF RerunType
  <2> QED BY <1>1, <1>2, <2>2, <2>3, EvolvesInv
<1> QED BY <1>4, <1>5

-----------------------------------------------------------------------------
(* The WorkflowRun controller and what happens around it.                  *)

LEMMA WorkerInv ==
    ASSUME RerunInv, RunsStill, UNCHANGED <<secret, console>>, WorkerKnown',
           worker' \in Work
    PROVE  RerunInv'
<1>1. Evolves
  BY StillEvolves
<1>2. RerunType'
  BY DEF RerunInv, RerunType, RunsStill
<1> QED BY <1>1, <1>2, EvolvesInv

LEMMA WorkerRests == ASSUME worker' = Rerun!IdleWorker
                     PROVE  WorkerKnown' /\ worker' \in Work
  BY DEF Rerun!IdleWorker, WorkerKnown, Work

LEMMA BeginAttemptInv ==
    ASSUME RerunInv, NEW n, Rerun!BeginAttempt(n)
    PROVE  RerunInv'
<1>1. /\ n > 1 /\ n \in DOMAIN attempts /\ ~attempts[n].done /\ ~attempts[n].planned
      /\ worker' = [at |-> IF Rerun!Valid(n) THEN "own" ELSE "invalid", attempt |-> n]
      /\ RunsStill /\ UNCHANGED <<secret, console>>
  BY DEF Rerun!BeginAttempt, RunsStill, Rerun!Exists
<1>2. n \in Nat
  BY <1>1 DEF RerunInv, RerunType
<1>3. attempts' = attempts
  BY <1>1 DEF RunsStill
<1>4. Rerun!Valid(n)' <=> Rerun!Valid(n)
  BY <1>3 DEF Rerun!Valid, Rerun!Exists
<1>5. CASE Rerun!Valid(n)
  <2>1. worker' = [at |-> "own", attempt |-> n]
    BY <1>1, <1>5
  <2>2. WorkerKnown'
    BY <1>1, <1>3, <2>1 DEF WorkerKnown, Rerun!Exists
  <2> QED BY <1>1, <1>2, <2>1, <2>2, WorkerInv DEF Work
<1>6. CASE ~Rerun!Valid(n)
  <2>1. worker' = [at |-> "invalid", attempt |-> n]
    BY <1>1, <1>6
  <2>2. WorkerKnown'
    BY <1>1, <1>3, <1>4, <1>6, <2>1 DEF WorkerKnown, Rerun!Exists, Rerun!Valid
  <2> QED BY <1>1, <1>2, <2>1, <2>2, WorkerInv DEF Work
<1> QED BY <1>5, <1>6

LEMMA OwnEventSnapshotInv == ASSUME RerunInv, Rerun!OwnEventSnapshot PROVE RerunInv'
<1>1. RerunType /\ WorkerKnown /\ worker.at = "own" /\ RunsStill /\ console' = console
  BY DEF RerunInv, Rerun!OwnEventSnapshot, RunsStill
<1>2. CASE worker' = Rerun!IdleWorker /\ UNCHANGED secret
  BY <1>1, <1>2, WorkerInv, WorkerRests
<1>3. CASE secret' = secret \cup {attempts[worker.attempt].uid} /\ worker' = [worker EXCEPT !.at = "release"]
  <2>1. worker'.at = "release" /\ worker'.attempt = worker.attempt
        /\ worker' \in Work
    BY <1>1, <1>3 DEF RerunType, Work
  <2>2. WorkerKnown'
    BY <1>1, <1>3, <2>1 DEF WorkerKnown, RunsStill, Rerun!Exists, Rerun!Owned
  <2>3. Evolves
    BY <1>1, <1>3, StillEvolves
  <2>4. RerunType'
    BY <1>1, <2>1 DEF RerunType, RunsStill
  <2> QED BY <1>1, <2>2, <2>3, <2>4, EvolvesInv
<1> QED BY <1>2, <1>3 DEF Rerun!OwnEventSnapshot

LEMMA ReleaseProtectionInv == ASSUME RerunInv, Rerun!ReleaseProtection PROVE RerunInv'
<1> DEFINE n == worker.attempt
<1>1. /\ RerunType /\ WorkerKnown /\ worker.at \in {"release", "invalid"} /\ UNCHANGED <<secret, console, made, excused>>
      /\ attempts' = IF Rerun!Guarded(n) THEN Rerun!Cleared(attempts) ELSE attempts
      /\ worker' = [worker EXCEPT !.at = IF @ = "release" THEN "identity" ELSE "reject"]
  BY DEF RerunInv, Rerun!ReleaseProtection
<1>2. /\ n > 1 /\ n \in DOMAIN attempts /\ ~attempts[n].planned /\ ~attempts[n].done /\ n \in Nat
      /\ worker.at = "invalid" => ~Rerun!Valid(n)
      /\ worker.at = "release" => attempts[n].uid \in secret
  BY <1>1 DEF WorkerKnown, Rerun!Exists, Rerun!Owned, RerunType, Work
<1>3. ~Waits(n)
  BY <1>1, <1>2 DEF Waits, Rerun!Owned
<1>4. /\ Evolves /\ (\A m \in Nat : Unfinished(m) => Unfinished(m)')
      /\ attempts' \in [DOMAIN attempts' -> Attempt] /\ DOMAIN attempts' \subseteq Nat \ {0}
  <2>1. CASE Rerun!Guarded(n)
    <3>1. Rerun!Exists(1) /\ attempts[1].target = n
      BY <2>1 DEF Rerun!Guarded
    <3>2. Released(attempts[1].target)
      BY <1>2, <1>3, <3>1 DEF Released
    <3> QED BY <1>1, <2>1, <3>1, <3>2, ClearedEvolves
  <2>2. CASE ~Rerun!Guarded(n)
    <3>1. RunsStill
      BY <1>1, <2>2 DEF RunsStill
    <3> QED BY <1>1, <3>1, StillEvolves DEF RunsStill, RerunType
  <2> QED BY <2>1, <2>2
<1>5. /\ worker'.at = (IF worker.at = "release" THEN "identity" ELSE "reject") /\ worker'.attempt = n
      /\ worker' \in Work
  BY <1>1 DEF RerunType, Work
<1>6. RerunType'
  BY <1>1, <1>4, <1>5 DEF RerunType
<1>7. WorkerKnown'
  <2> SUFFICES ASSUME NEW m, m = n PROVE WorkerKnown'
    OBVIOUS
  <2>1. Unfinished(m)'
    BY <1>2, <1>4 DEF Unfinished
  <2>2. m \in DOMAIN attempts' /\ ~attempts'[m].planned /\ ~attempts'[m].done
    BY <2>1 DEF Unfinished
  <2>3. worker.at = "invalid" => ~Rerun!Valid(m)'
    BY <1>2, <1>4, <2>2, ValidWas
  <2>4. worker.at = "release" => attempts'[m].uid \in secret'
    BY <1>2, <1>4, <2>2 DEF Evolves
  <2> QED BY <1>1, <1>2, <1>5, <2>2, <2>3, <2>4 DEF WorkerKnown, Rerun!Exists, Rerun!Owned, Rerun!Valid
<1> QED BY <1>1, <1>4, <1>6, <1>7, EvolvesInv

(* One attempt changes, but not its protection.                            *)
LEMMA OneEvolves ==
    ASSUME RerunInv, NEW n \in DOMAIN attempts, NEW a \in Attempt, Same(attempts[n], a),
           a.target = attempts[n].target, a.late = attempts[n].late, attempts[n].version <= a.version,
           attempts' = [attempts EXCEPT ![n] = a], made' = made, secret' = secret, excused \subseteq excused'
    PROVE  /\ Evolves /\ attempts' \in [DOMAIN attempts' -> Attempt] /\ DOMAIN attempts' \subseteq Nat \ {0}
           /\ attempts[n].planned \/ attempts[n].done => \A m \in Nat : Unfinished(m) => Unfinished(m)'
<1>1. \A m \in DOMAIN attempts : AttemptKnown(m) /\ attempts[m] \in Attempt /\ m \in Nat \ {0}
  BY DEF RerunInv, RerunType
<1>2. /\ DOMAIN attempts' = DOMAIN attempts /\ attempts'[n] = a
      /\ \A m \in DOMAIN attempts : m # n => attempts'[m] = attempts[m]
      /\ attempts' \in [DOMAIN attempts' -> Attempt] /\ DOMAIN attempts' \subseteq Nat \ {0}
  BY DEF RerunInv, RerunType
<1>3. \A m \in DOMAIN attempts : Same(attempts[m], attempts'[m])
  BY <1>1, <1>2 DEF Same, AttemptKnown
<1>4. \A m \in DOMAIN attempts' : attempts[m].uid \in secret => attempts'[m].uid \in secret'
  BY <1>2, <1>3 DEF Same
<1>5. \A m \in DOMAIN attempts :
        /\ attempts'[m].target = attempts[m].target /\ attempts'[m].late = attempts[m].late
        /\ attempts[m].version <= attempts'[m].version
  <2>1. \A m \in DOMAIN attempts : attempts[m].version \in Nat
    BY <1>1 DEF Attempt
  <2> QED BY <1>2, <2>1
<1>6. \A m : Rerun!Guarded(m) => Rerun!Guarded(m)'
  BY <1>2, <1>5 DEF Rerun!Guarded, Rerun!Exists
<1>7. 1 \in DOMAIN attempts => (attempts[1].late => attempts[1].target \in excused)
  BY DEF RerunInv, OriginalKnown, Rerun!Exists
<1>8. Evolves
  BY <1>2, <1>3, <1>4, <1>5, <1>6, <1>7 DEF Evolves
<1>9. attempts[n].planned \/ attempts[n].done => \A m \in Nat : Unfinished(m) => Unfinished(m)'
  BY <1>2 DEF Unfinished
<1> QED BY <1>2, <1>8, <1>9

LEMMA PlanAttemptInv == ASSUME RerunInv, Rerun!PlanAttempt PROVE RerunInv'
<1> DEFINE n == worker.attempt
           a == IF worker.at = "reject" THEN [attempts[n] EXCEPT !.done = TRUE, !.invalid = TRUE]
                ELSE [attempts[n] EXCEPT !.planned = TRUE, !.identity = TRUE]
<1>1. /\ RerunType /\ WorkerKnown /\ worker.at # "idle" /\ n \in DOMAIN attempts
      /\ worker' = Rerun!IdleWorker /\ UNCHANGED <<secret, console, made, excused>>
  BY DEF RerunInv, Rerun!PlanAttempt, WorkerKnown, Rerun!Exists
<1>2. attempts[n] \in Attempt /\ AttemptKnown(n) /\ ~attempts[n].done /\ ~attempts[n].planned
  BY <1>1 DEF RerunInv, RerunType, WorkerKnown
<1>3. attempts' = [attempts EXCEPT ![n] = a]
  BY <1>1 DEF Rerun!PlanAttempt, Rerun!Exists, RerunType
<1>4. a \in Attempt
  BY <1>2 DEF Attempt
<1>5. /\ a.target = attempts[n].target /\ attempts[n].version <= a.version /\ a.uid = attempts[n].uid
      /\ a.previous = attempts[n].previous
  BY <1>2 DEF Attempt
<1>6. a.late = attempts[n].late /\ a.guarded = attempts[n].guarded /\ a.deleting = attempts[n].deleting
  BY <1>2 DEF Attempt
<1>7. CASE worker.at = "reject"
  <2>1. a = [attempts[n] EXCEPT !.done = TRUE, !.invalid = TRUE]
    BY <1>7
  <2>2. a.done = TRUE /\ a.invalid = TRUE /\ a.identity = attempts[n].identity /\ a.planned = attempts[n].planned
    BY <1>2, <2>1 DEF Attempt
  <2> HIDE DEF a
  <2>3. Same(attempts[n], a)
    BY <1>2, <1>5, <1>6, <2>2 DEF Same, AttemptKnown
  <2> HIDE DEF n
  <2>4. Evolves /\ attempts' \in [DOMAIN attempts' -> Attempt] /\ DOMAIN attempts' \subseteq Nat \ {0}
    BY <1>1, <1>3, <1>4, <1>5, <1>6, <2>3, OneEvolves
  <2>5. WorkerKnown' /\ RerunType'
    BY <1>1, <2>4, WorkerRests DEF RerunType
  <2> QED BY <1>1, <2>4, <2>5, EvolvesInv
<1>8. CASE worker.at # "reject"
  <2>1. a = [attempts[n] EXCEPT !.planned = TRUE, !.identity = TRUE]
    BY <1>8
  <2>2. a.planned = TRUE /\ a.identity = TRUE /\ a.done = attempts[n].done /\ a.invalid = attempts[n].invalid
    BY <1>2, <2>1 DEF Attempt
  <2> HIDE DEF a
  <2>3. Same(attempts[n], a)
    BY <1>2, <1>5, <1>6, <2>2 DEF Same, AttemptKnown
  <2> HIDE DEF n
  <2>4. Evolves /\ attempts' \in [DOMAIN attempts' -> Attempt] /\ DOMAIN attempts' \subseteq Nat \ {0}
    BY <1>1, <1>3, <1>4, <1>5, <1>6, <2>3, OneEvolves
  <2>5. WorkerKnown' /\ RerunType'
    BY <1>1, <2>4, WorkerRests DEF RerunType
  <2> QED BY <1>1, <2>4, <2>5, EvolvesInv
<1> QED BY <1>7, <1>8

LEMMA FinalizeProtectionInv == ASSUME RerunInv, Rerun!FinalizeProtection PROVE RerunInv'
<1> DEFINE n == attempts[1].target
<1>1. /\ RerunType /\ 1 \in DOMAIN attempts /\ worker.at = "idle" /\ worker' = worker
      /\ attempts' = Rerun!Cleared(attempts) /\ UNCHANGED <<console, made, excused>>
  BY DEF RerunInv, Rerun!FinalizeProtection, Rerun!Exists
<1>2. secret \subseteq secret' /\ Released(n)
  <2>1. CASE ~Rerun!Exists(n)
    <3>1. attempts[1].late /\ secret' = secret
      BY <2>1 DEF Rerun!FinalizeProtection, Rerun!GiveUp
    <3>2. n \in excused
      BY <1>1, <3>1 DEF RerunInv, OriginalKnown, Rerun!Exists
    <3> QED BY <1>1, <2>1, <3>1, <3>2 DEF Released, Rerun!Exists
  <2>2. CASE Rerun!Exists(n)
    <3>1. secret' = IF attempts[n].deleting THEN secret ELSE secret \cup {attempts[n].uid}
      BY <2>2 DEF Rerun!FinalizeProtection
    <3>2. attempts[n].deleting => attempts[n].done
      BY <2>2 DEF RerunInv, AttemptKnown, Rerun!Exists
    <3> QED BY <2>2, <3>1, <3>2 DEF Released, Waits, Rerun!Exists
  <2> QED BY <2>1, <2>2
<1>3. /\ Evolves /\ (\A m \in Nat : Unfinished(m) => Unfinished(m)')
      /\ attempts' \in [DOMAIN attempts' -> Attempt] /\ DOMAIN attempts' \subseteq Nat \ {0}
  BY <1>1, <1>2, ClearedEvolves DEF Rerun!Exists
<1>4. RerunType'
  BY <1>1, <1>3 DEF RerunType
<1> QED BY <1>1, <1>3, <1>4, EvolvesInv

LEMMA AttemptCompletesInv ==
    ASSUME RerunInv, NEW n, Rerun!AttemptCompletes(n)
    PROVE  RerunInv'
<1> DEFINE a == [attempts[n] EXCEPT !.done = TRUE]
<1>1. /\ RerunType /\ n \in DOMAIN attempts /\ attempts[n].planned
      /\ UNCHANGED <<secret, console, worker, made, excused>>
  BY DEF RerunInv, Rerun!AttemptCompletes, Rerun!Exists
<1>2. attempts[n] \in Attempt /\ AttemptKnown(n)
  BY <1>1 DEF RerunInv, RerunType
<1>3. attempts' = [attempts EXCEPT ![n] = a]
  BY <1>1 DEF Rerun!AttemptCompletes, RerunType
<1>4. /\ a \in Attempt /\ a.target = attempts[n].target /\ attempts[n].version <= a.version
      /\ a.uid = attempts[n].uid /\ a.previous = attempts[n].previous
  <2>1. a \in Attempt
    BY <1>2 DEF Attempt
  <2>2. a.target = attempts[n].target /\ a.version = attempts[n].version /\ attempts[n].version \in Nat
    BY <1>2 DEF Attempt
  <2>3. a.uid = attempts[n].uid /\ a.previous = attempts[n].previous
    BY <1>2 DEF Attempt
  <2> HIDE DEF a
  <2> QED BY <2>1, <2>2, <2>3
<1>5. /\ a.late = attempts[n].late /\ a.guarded = attempts[n].guarded /\ a.deleting = attempts[n].deleting
      /\ a.done = TRUE
  BY <1>2 DEF Attempt
<1>6. a.planned = attempts[n].planned /\ a.identity = attempts[n].identity /\ a.invalid = attempts[n].invalid
  BY <1>2 DEF Attempt
<1> HIDE DEF a
<1>7. Same(attempts[n], a)
  BY <1>1, <1>2, <1>4, <1>5, <1>6 DEF Same, AttemptKnown
<1>8. /\ Evolves /\ (\A m \in Nat : Unfinished(m) => Unfinished(m)')
      /\ attempts' \in [DOMAIN attempts' -> Attempt] /\ DOMAIN attempts' \subseteq Nat \ {0}
  BY <1>1, <1>3, <1>4, <1>5, <1>7, OneEvolves
<1>9. RerunType'
  BY <1>1, <1>8 DEF RerunType
<1> QED BY <1>1, <1>8, <1>9, EvolvesInv

LEMMA DeleteAttemptInv ==
    ASSUME RerunInv, NEW n, Rerun!DeleteAttempt(n)
    PROVE  RerunInv'
<1> DEFINE a == [attempts[n] EXCEPT !.deleting = TRUE, !.version = @ + 1]
<1>1. /\ RerunType /\ n \in DOMAIN attempts /\ attempts[n].done /\ excused' = excused \cup {n}
      /\ UNCHANGED <<secret, console, worker, made>>
  BY DEF RerunInv, Rerun!DeleteAttempt, Rerun!Exists
<1>2. attempts[n] \in Attempt /\ AttemptKnown(n)
  BY <1>1 DEF RerunInv, RerunType
<1>3. /\ Evolves /\ (\A m \in Nat : Unfinished(m) => Unfinished(m)')
      /\ attempts' \in [DOMAIN attempts' -> Attempt] /\ DOMAIN attempts' \subseteq Nat \ {0}
  <2>1. CASE attempts[n].target = 0
    <3>1. /\ DOMAIN attempts' = DOMAIN attempts \ {n} /\ \A m \in DOMAIN attempts' : attempts'[m] = attempts[m]
          /\ attempts' = [m \in DOMAIN attempts \ {n} |-> attempts[m]]
      BY <2>1 DEF Rerun!DeleteAttempt, Rerun!Remove
    <3>2. \A m \in DOMAIN attempts : AttemptKnown(m) /\ attempts[m] \in Attempt /\ m \in Nat \ {0}
      BY DEF RerunInv, RerunType
    <3>3. \A m \in DOMAIN attempts' : Same(attempts[m], attempts'[m])
      BY <3>1, <3>2 DEF Same, AttemptKnown
    <3>4. \A m \in Nat : m > 1 /\ Rerun!Guarded(m) => Rerun!Guarded(m)'
      BY <2>1, <3>1 DEF Rerun!Guarded, Rerun!Exists
    <3>5. 1 \in DOMAIN attempts =>
             attempts[1].version \in Nat /\ (attempts[1].late => attempts[1].target \in excused)
      BY <3>2 DEF RerunInv, OriginalKnown, Rerun!Exists, Attempt
    <3>6. Evolves
      BY <1>1, <3>1, <3>3, <3>4, <3>5 DEF Evolves
    <3>7. \A m \in Nat : Unfinished(m) => Unfinished(m)'
      BY <1>1, <3>1 DEF Unfinished
    <3> QED BY <3>1, <3>2, <3>6, <3>7
  <2>2. CASE attempts[n].target # 0
    <3>1. attempts' = [attempts EXCEPT ![n] = a]
      BY <1>1, <2>2 DEF Rerun!DeleteAttempt, RerunType
    <3>2. /\ a \in Attempt /\ a.target = attempts[n].target /\ attempts[n].version <= a.version
          /\ a.uid = attempts[n].uid /\ a.previous = attempts[n].previous
      <4>1. attempts[n].version \in Nat /\ attempts[n].version + 1 \in Nat /\ attempts[n].version <= attempts[n].version + 1
        BY <1>2 DEF Attempt
      <4>2. a \in Attempt
        BY <1>2, <4>1 DEF Attempt
      <4>3. a.target = attempts[n].target /\ a.version = attempts[n].version + 1
        BY <1>2 DEF Attempt
      <4>4. a.uid = attempts[n].uid /\ a.previous = attempts[n].previous
        BY <1>2 DEF Attempt
      <4> HIDE DEF a
      <4> QED BY <4>1, <4>2, <4>3, <4>4
    <3>3. /\ a.late = attempts[n].late /\ a.guarded = attempts[n].guarded
          /\ a.done = attempts[n].done
      BY <1>2 DEF Attempt
    <3>4. a.planned = attempts[n].planned /\ a.identity = attempts[n].identity /\ a.invalid = attempts[n].invalid
      BY <1>2 DEF Attempt
    <3> HIDE DEF a
    <3>5. Same(attempts[n], a)
      BY <1>1, <1>2, <3>2, <3>3, <3>4 DEF Same, AttemptKnown
    <3> QED BY <1>1, <3>1, <3>2, <3>3, <3>5, OneEvolves
  <2> QED BY <2>1, <2>2
<1>4. RerunType'
  BY <1>1, <1>3 DEF RerunType
<1> QED BY <1>1, <1>3, <1>4, EvolvesInv

LEMMA DeadlinePassesInv == ASSUME RerunInv, Rerun!DeadlinePasses PROVE RerunInv'
<1> DEFINE o == [attempts[1] EXCEPT !.late = TRUE]
<1>1. /\ RerunType /\ 1 \in DOMAIN attempts /\ excused' = excused \cup {attempts[1].target}
      /\ UNCHANGED <<secret, console, worker, made>>
  BY DEF RerunInv, Rerun!DeadlinePasses, Rerun!Exists
<1>2. attempts[1] \in Attempt /\ AttemptKnown(1)
  BY <1>1 DEF RerunInv, RerunType
<1>3. attempts' = [attempts EXCEPT ![1] = o]
  BY <1>1 DEF Rerun!DeadlinePasses, RerunType
<1>4. /\ o \in Attempt /\ o.target = attempts[1].target /\ attempts[1].version <= o.version
      /\ o.uid = attempts[1].uid /\ o.previous = attempts[1].previous
  <2>1. o \in Attempt
    BY <1>2 DEF Attempt
  <2>2. o.target = attempts[1].target /\ o.version = attempts[1].version /\ attempts[1].version \in Nat
    BY <1>2 DEF Attempt
  <2>3. o.uid = attempts[1].uid /\ o.previous = attempts[1].previous
    BY <1>2 DEF Attempt
  <2> HIDE DEF o
  <2> QED BY <2>1, <2>2, <2>3
<1>5. /\ o.guarded = attempts[1].guarded /\ o.deleting = attempts[1].deleting /\ o.done = attempts[1].done
  BY <1>2 DEF Attempt
<1>6. o.planned = attempts[1].planned /\ o.identity = attempts[1].identity /\ o.invalid = attempts[1].invalid
  BY <1>2 DEF Attempt
<1> HIDE DEF o
<1>7. Same(attempts[1], o)
  BY <1>2, <1>4, <1>5, <1>6 DEF Same, AttemptKnown
<1>8. /\ Evolves /\ (\A m \in Nat : Unfinished(m) => Unfinished(m)')
      /\ attempts' \in [DOMAIN attempts' -> Attempt] /\ DOMAIN attempts' \subseteq Nat \ {0}
  BY <1>1, <1>3, <1>4, <1>5, <1>6, <1>7, OriginalEvolves DEF Rerun!Exists
<1>9. RerunType'
  BY <1>1, <1>8 DEF RerunType
<1> QED BY <1>1, <1>8, <1>9, EvolvesInv

LEMMA CollectSecretInv == ASSUME RerunInv, Rerun!CollectSecret PROVE RerunInv'
<1>1. RunsStill /\ secret' = secret \cap Rerun!Uids /\ UNCHANGED <<console, worker>>
  BY DEF Rerun!CollectSecret, RunsStill
<1>2. \A n \in DOMAIN attempts : attempts[n].uid \in Rerun!Uids
  BY DEF Rerun!Uids
<1>3. Evolves /\ \A m \in Nat : Unfinished(m) => Unfinished(m)'
  BY <1>1, <1>2, StillEvolves
<1>4. RerunType'
  BY <1>1 DEF RerunInv, RerunType, RunsStill
<1> QED BY <1>1, <1>3, <1>4, EvolvesInv

LEMMA RerunNextInv == ASSUME RerunInv, Rerun!RerunNext PROVE RerunInv'
<1>1. CASE Rerun!WorkerFails
  <2>1. RunsStill /\ UNCHANGED <<secret, console>> /\ worker' = Rerun!IdleWorker
    BY <1>1 DEF Rerun!WorkerFails, RunsStill
  <2> QED BY <2>1, WorkerRests, WorkerInv
<1>2. CASE \E n \in 2..MaxAttempt : Rerun!BeginAttempt(n)
  BY <1>2, BeginAttemptInv
<1>3. CASE Rerun!OwnEventSnapshot \/ Rerun!ReleaseProtection \/ Rerun!PlanAttempt \/ Rerun!FinalizeProtection
  BY <1>3, OwnEventSnapshotInv, ReleaseProtectionInv, PlanAttemptInv, FinalizeProtectionInv
<1>4. CASE Rerun!DeadlinePasses \/ Rerun!CollectSecret
  BY <1>4, DeadlinePassesInv, CollectSecretInv
<1>5. CASE \E c \in Consoles : Rerun!ReadLineage(c) \/ Rerun!ProtectSnapshot(c) \/ Rerun!CreateAttempt(c) \/ Rerun!CreateFails(c)
  BY <1>5, ReadLineageInv, ProtectSnapshotInv, CreateAttemptInv, CreateFailsInv
<1>6. ASSUME NEW c \in Consoles, Rerun!ConsoleEnds(c)
      PROVE  RerunInv'
  <2>1. RunsStill /\ UNCHANGED <<secret, worker>> /\ console' = [console EXCEPT ![c] = Rerun!NoRequest]
    BY <1>6 DEF Rerun!ConsoleEnds, RunsStill
  <2>2. /\ console' \in [Consoles -> Ask]
        /\ \A d \in Consoles : console'[d] = console[d] \/ RequestKnown(console[d])'
    BY <2>1, RequestEnds
  <2>3. RerunType'
    BY <2>1, <2>2 DEF RerunInv, RerunType, RunsStill
  <2> QED BY <2>1, <2>2, <2>3, StillEvolves, EvolvesInv
<1>7. CASE \E n \in 1..MaxAttempt : Rerun!AttemptCompletes(n) \/ Rerun!DeleteAttempt(n)
  BY <1>7, AttemptCompletesInv, DeleteAttemptInv
<1> QED BY <1>1, <1>2, <1>3, <1>4, <1>5, <1>6, <1>7 DEF Rerun!RerunNext, Rerun!WorkerStep

LEMMA RerunInitInv == ASSUME Rerun!RerunInit PROVE RerunInv
<1> DEFINE o == attempts[1]
<1>1. /\ DOMAIN attempts = {1} /\ o = [Rerun!NewRun(1, 0, FALSE) EXCEPT !.identity = TRUE, !.planned = TRUE, !.done = TRUE]
      /\ attempts = [n \in {1} |-> o]
      /\ secret = {1} /\ console = [c \in Consoles |-> Rerun!NoRequest] /\ worker = Rerun!IdleWorker
      /\ made = 1 /\ excused = {}
  BY DEF Rerun!RerunInit
<1>2. /\ o \in Attempt /\ o.uid = 1 /\ o.previous = 0 /\ o.identity = TRUE /\ o.done = TRUE /\ o.late = FALSE
      /\ o.guarded = FALSE /\ o.deleting = FALSE
  <2> DEFINE e == [Rerun!NewRun(1, 0, FALSE) EXCEPT !.identity = TRUE, !.planned = TRUE, !.done = TRUE]
  <2>1. e \in Attempt
    BY DEF Rerun!NewRun, Attempt
  <2>2. e.uid = 1 /\ e.previous = 0 /\ e.identity = TRUE /\ e.done = TRUE
    BY DEF Rerun!NewRun
  <2>3. e.late = FALSE /\ e.guarded = FALSE /\ e.deleting = FALSE
    BY DEF Rerun!NewRun
  <2> HIDE DEF e
  <2>4. o = e
    BY <1>1 DEF e
  <2> QED BY <2>1, <2>2, <2>3, <2>4
<1> HIDE DEF o
<1>3. RerunType
  BY <1>1, <1>2 DEF RerunType, Ask, Work, Rerun!NoRequest, Rerun!IdleWorker
<1>4. AttemptKnown(1)
  <2>1. 1 - 1 \notin DOMAIN attempts
    BY <1>1
  <2>2. /\ attempts[1].uid = 1 /\ attempts[1].previous = 0 /\ attempts[1].identity = TRUE /\ attempts[1].done = TRUE
    BY <1>2 DEF o
  <2>3. Completed(1, attempts[1].previous)
    BY <2>1 DEF Completed, Follows, Rerun!Exists
  <2>4. attempts[1].uid <= made /\ attempts[1].previous <= made
    <3>1. made = 1
      BY <1>1
    <3> QED BY <2>2, <3>1
  <2> QED BY <2>2, <2>3, <2>4 DEF AttemptKnown
<1>5. OriginalKnown /\ WaitingKept
  BY <1>1, <1>2 DEF o, OriginalKnown, WaitingKept, Waits, Rerun!Exists
<1>6. WorkerKnown /\ \A c \in Consoles : RequestKnown(console[c])
  BY <1>1 DEF WorkerKnown, RequestKnown, Rerun!NoRequest, Rerun!IdleWorker
<1> QED BY <1>1, <1>3, <1>4, <1>5, <1>6 DEF RerunInv

LEMMA RerunStep ==
    ASSUME On("rerun") => RerunInv, [Next]_vars
    PROVE  (On("rerun") => RerunInv)'
<1>1. focus' = focus
  BY DEF Next, Alone, vars
<1> SUFFICES ASSUME On("rerun")
             PROVE  RerunInv'
  BY <1>1 DEF On
<1>2. CASE Next
  <2>1. Rerun!RerunNext
    BY <1>2 DEF Next, On
  <2> QED BY <2>1, RerunNextInv DEF On
<1>3. CASE UNCHANGED vars
  <2>1. UNCHANGED <<attempts, secret, console, worker, made, excused>>
    BY <1>3 DEF vars, rerunVars
  <2>2. Evolves /\ \A m \in Nat : Unfinished(m) => Unfinished(m)'
    BY <2>1, StillEvolves DEF RunsStill, On
  <2>3. RerunType'
    BY <2>1 DEF RerunInv, RerunType, On
  <2> QED BY <2>1, <2>2, <2>3, EvolvesInv DEF On
<1> QED BY <1>2, <1>3

(* Reruns: for every number of requests at once, of attempts, of deletions *)
(* and of failed calls, an attempt that was created under the protection   *)
(* of the event snapshot and is still to be planned can take it over.      *)
THEOREM GuardedAttemptsKeepSnapshot == Spec => []GuardedKeepsSnapshot
<1>1. Init => (On("rerun") => RerunInv)
  BY RerunInitInv DEF Init
<1>2. (On("rerun") => RerunInv) /\ [Next]_vars => (On("rerun") => RerunInv)'
  BY RerunStep
<1>3. (On("rerun") => RerunInv) => GuardedKeepsSnapshot
  <2> SUFFICES ASSUME RerunInv, NEW n \in DOMAIN attempts,
                      attempts[n].guarded, ~attempts[n].planned, ~attempts[n].done, Rerun!Valid(n), ~Rerun!Owned(n)
               PROVE  1 \in secret
    BY DEF GuardedKeepsSnapshot, Rerun!GuardedKeepsSnapshot, Rerun!MayOwn
  <2>1. Rerun!Guarded(n)
    BY DEF RerunInv, WaitingKept, Waits
  <2> QED BY <2>1 DEF RerunInv, OriginalKnown, Rerun!Guarded
<1> QED BY <1>1, <1>2, <1>3, PTL DEF Spec
=============================================================================
