---------------------------- MODULE DeliveryProofs ----------------------------
(* Proofs about the runs a webhook event starts (WebhookDelivery), for     *)
(* every table of revisions with finitely many workflows in each, and for  *)
(* every number of pushes, events and failures.                            *)
EXTENDS MCComponents, FiniteSetTheorems, SequenceTheorems, TLAPS

-----------------------------------------------------------------------------
(* WebhookDelivery.  What an event triggers depends on the revisions that  *)
(* are pinned for its candidates.                                          *)

Candidates == Delivery!DeliveryEvents(event)

Suppressed == event.jobToken /\ ~Delivery!AllowJobToken(event.name)

Resolved(pinned, c) == Delivery!Skipped(c) \/ (event.resolve => c \in DOMAIN pinned)

(* What SelectWorkflows makes of candidate c after p, and whether it fails *)
(* the delivery.                                                           *)
Add(p, pinned, c) ==
    LET r == Delivery!Revision(pinned, c)
    IN  IF Delivery!Skipped(c) \/ Delivery!Unacceptable(p, r) THEN p
        ELSE [selected |-> p.selected \o Delivery!Selections(c, r), count |-> p.count + Delivery!Jobs(r),
              seen |-> p.seen \cup {f.path : f \in Tree[r]}]

Fatal(p, pinned, c) ==
    /\ ~Delivery!Skipped(c) /\ Delivery!Unacceptable(p, Delivery!Revision(pinned, c))
    /\ ~(c = "pull_request" /\ event.fork)

(* The outcome for the first k candidates; there are at most two.          *)
NoneChosen == [selected |-> <<>>, count |-> 0, seen |-> {}]

Chosen(pinned, k) ==
    CASE k = 0 -> NoneChosen
      [] k = 1 -> Add(NoneChosen, pinned, Candidates[1])
      [] k = 2 -> Add(Add(NoneChosen, pinned, Candidates[1]), pinned, Candidates[2])

Selectable(pinned, k) ==
    \A i \in 1..k : Resolved(pinned, Candidates[i]) /\ ~Fatal(Chosen(pinned, i - 1), pinned, Candidates[i])

AllSelectable == Selectable(delivery.pinned, Len(Candidates))

Wanted == Chosen(delivery.pinned, Len(Candidates)).selected

RevisionOf(t) == Delivery!Revision(delivery.pinned, t[1])

-----------------------------------------------------------------------------
Keys == {<<Candidates[i], f.path>> : i \in DOMAIN Candidates, f \in UNION {Tree[r] : r \in DOMAIN Tree}}

PassStages == {"idle", "candidate", "select", "create", "own", "fail", "finish"}

DeliveryType ==
    /\ head \in DOMAIN Tree /\ uid \in Nat
    /\ delivery = [uid |-> delivery.uid, state |-> delivery.state, pinned |-> delivery.pinned]
    /\ delivery.uid \in Nat /\ delivery.state \in {"none", "new", "Completed", "Failed"}
    /\ delivery.pinned \in [DOMAIN delivery.pinned -> DOMAIN Tree]
    /\ snapshot = [controller |-> snapshot.controller, owners |-> snapshot.owners]
    /\ triggered = [t \in DOMAIN triggered |-> triggered[t]]
    /\ pass = [at |-> pass.at, copy |-> pass.copy, rest |-> pass.rest, selected |-> pass.selected,
               count |-> pass.count, seen |-> pass.seen]
    /\ pass.at \in PassStages

(* UIDs are not used twice, and a pass knows the delivery as it is.        *)
DeliveryKnown ==
    /\ delivery.uid < uid /\ (delivery.state = "none" <=> delivery.uid = 0)
    /\ \A x \in history : x[1] \in 1..uid - 1
    /\ pass.at # "idle" => pass.copy = delivery /\ delivery.state = "new"

(* The runs of the current delivery, and the runs that are there.          *)
HistoryFits ==
    /\ \A x \in history :
           x[1] = delivery.uid =>
               /\ AllSelectable /\ x[3] = RevisionOf(x[2])
               /\ delivery.state = "new" => x[2] \in DOMAIN triggered \/ x[2] \in early
    /\ \A t \in DOMAIN triggered : \E x \in history : x[2] = t /\ x[3] = triggered[t].rev

(* What the pass has selected so far.                                      *)
SelectionFits(k) ==
    /\ pass.rest = SubSeq(Candidates, k + 1, Len(Candidates)) /\ Selectable(delivery.pinned, k)
    /\ [selected |-> pass.selected, count |-> pass.count, seen |-> pass.seen] = Chosen(delivery.pinned, k)
    /\ pass.at = "select" =>
          k < Len(Candidates) /\ ~Delivery!Skipped(Candidates[k + 1]) /\ Resolved(delivery.pinned, Candidates[k + 1])

(* Of the runs wanted the first m are there or were.                       *)
Agreeing(t) == t \in DOMAIN triggered => triggered[t].rev = RevisionOf(t)

CreatedOnce(t) == Agreeing(t) /\ \E x \in history : x[2] = t /\ x[3] = RevisionOf(t)

CreationFits(j) ==
    /\ pass.selected = SubSeq(Wanted, j + 1, Len(Wanted))
    /\ pass.at = "own" => j < Len(Wanted)
    /\ \A m \in 1..(IF pass.at = "own" THEN j + 1 ELSE j) : CreatedOnce(Wanted[m])

PassFits ==
    /\ pass.at \in {"candidate", "select"} => \E k \in 0..Len(Candidates) : SelectionFits(k)
    /\ pass.at \in {"create", "own"} => AllSelectable /\ \E j \in 0..Len(Wanted) : CreationFits(j)
    /\ pass.at = "finish" <=> pass.at # "idle" /\ Suppressed

(* A run that does not own the snapshot yet is still to be visited by this *)
(* pass or by another one: nothing before it will fail the delivery.       *)
Owned(t) == triggered[t].uid \in snapshot.owners

Ahead(t, m) ==
    /\ Wanted[m] = t /\ \A l \in 1..m : Agreeing(Wanted[l])
    /\ pass.at \in {"create", "own"} => m > Len(Wanted) - Len(pass.selected)

Pending(t) ==
    /\ delivery.state = "new" /\ ~Suppressed /\ AllSelectable /\ pass.at # "fail"
    /\ \E m \in 1..Len(Wanted) : Ahead(t, m)

UnownedPending == \A t \in DOMAIN triggered : Owned(t) \/ Pending(t)

(* What is kept from delivery to delivery: the types, what a pass knows,   *)
(* what the history may hold, which runs no owner names yet, and the three *)
(* promises that DeliveryFaithful adds to a kept snapshot.                 *)
DeliveryInv ==
    /\ DeliveryType /\ DeliveryKnown /\ HistoryFits /\ PassFits /\ UnownedPending
    /\ Delivery!OneRevision /\ Delivery!NoDuplicateRun /\ Delivery!CompletedMeansAll

-----------------------------------------------------------------------------
LEMMA TwoCandidates ==
    ASSUME NEW x, NEW y
    PROVE  <<x>> \o <<y>> = <<x, y>> /\ <<>> \o <<y>> = <<y>> /\ <<y>> \o <<>> = <<y>>
<1>1. <<x>> \in Seq({x, y}) /\ <<y>> \in Seq({x, y}) /\ <<>> \in Seq({x, y}) /\ <<x, y>> \in Seq({x, y})
  OBVIOUS
<1>2. Len(<<x>> \o <<y>>) = 2 /\ (<<x>> \o <<y>>)[1] = x /\ (<<x>> \o <<y>>)[2] = y
  OBVIOUS
<1>3. <<x>> \o <<y>> \in Seq({x, y})
  BY <1>1
<1>4. <<x>> \o <<y>> = <<x, y>>
  <2>1. \A i \in 1..Len(<<x>> \o <<y>>) : (<<x>> \o <<y>>)[i] = <<x, y>>[i]
    BY <1>2
  <2>2. Len(<<x, y>>) = Len(<<x>> \o <<y>>)
    BY <1>2
  <2> QED BY <1>1, <1>3, <2>1, <2>2, SeqEqual
<1>5. <<>> \o <<y>> = <<y>> /\ <<y>> \o <<>> = <<y>>
  BY <1>1
<1> QED BY <1>4, <1>5

LEMMA CandidatesFacts ==
    /\ Candidates \in {<<event.name>>, <<"pull_request_target">>, <<"pull_request", "pull_request_target">>,
                       <<"pull_request_target", "pull_request">>}
    /\ Len(Candidates) \in 1..2 /\ DOMAIN Candidates = 1..Len(Candidates)
    /\ Candidates \in Seq({Candidates[i] : i \in DOMAIN Candidates})
<1>1. /\ <<"pull_request">> \o <<"pull_request_target">> = <<"pull_request", "pull_request_target">>
      /\ <<"pull_request_target">> \o <<"pull_request">> = <<"pull_request_target", "pull_request">>
      /\ <<>> \o <<"pull_request_target">> = <<"pull_request_target">>
      /\ <<"pull_request_target">> \o <<>> = <<"pull_request_target">>
  BY TwoCandidates
<1>2. Candidates \in {<<event.name>>, <<"pull_request_target">>, <<"pull_request", "pull_request_target">>,
                      <<"pull_request_target", "pull_request">>}
  BY <1>1, Zenon DEF Candidates, Delivery!DeliveryEvents
<1>3. ASSUME NEW x, NEW y
      PROVE  \A s \in {<<x>>, <<x, y>>} :
                 Len(s) \in 1..2 /\ DOMAIN s = 1..Len(s) /\ s \in Seq({s[i] : i \in DOMAIN s})
  <2>1. /\ Len(<<x>>) = 1 /\ DOMAIN <<x>> = 1..1 /\ <<x>> \in Seq({x}) /\ <<x>>[1] = x
        /\ Len(<<x, y>>) = 2 /\ DOMAIN <<x, y>> = 1..2 /\ <<x, y>> \in Seq({x, y})
        /\ <<x, y>>[1] = x /\ <<x, y>>[2] = y
    OBVIOUS
  <2>2. {<<x>>[i] : i \in 1..1} = {x} /\ {<<x, y>>[i] : i \in 1..2} = {x, y}
    BY <2>1
  <2> QED BY <2>1, <2>2
<1> QED BY <1>2, <1>3

LEMMA ChosenStep ==
    ASSUME NEW pinned
    PROVE  /\ Chosen(pinned, 0) = NoneChosen
           /\ \A k \in 0..Len(Candidates) - 1 : Chosen(pinned, k + 1) = Add(Chosen(pinned, k), pinned, Candidates[k + 1])
<1>1. \A k \in 0..Len(Candidates) - 1 : k = 0 \/ k = 1
  BY CandidatesFacts
<1>2. /\ Chosen(pinned, 0) = NoneChosen /\ Chosen(pinned, 0 + 1) = Add(NoneChosen, pinned, Candidates[0 + 1])
      /\ Chosen(pinned, 1 + 1) = Add(Chosen(pinned, 1), pinned, Candidates[1 + 1])
  BY DEF Chosen
<1> QED BY <1>1, <1>2

LEMMA EventStays ==
    ASSUME event' = event
    PROVE  /\ Candidates' = Candidates /\ Suppressed' = Suppressed
           /\ \A c : Delivery!Skipped(c)' = Delivery!Skipped(c)
           /\ \A pinned, k : Chosen(pinned, k)' = Chosen(pinned, k)
           /\ \A pinned, k : Selectable(pinned, k)' = Selectable(pinned, k)
<1>1. Candidates' = Candidates /\ Suppressed' = Suppressed
  BY DEF Candidates, Suppressed
<1>2. \A c : Delivery!Skipped(c)' = Delivery!Skipped(c)
  BY DEF Delivery!Skipped
<1>3. \A p, pinned, c : Add(p, pinned, c)' = Add(p, pinned, c) /\ Fatal(p, pinned, c)' = Fatal(p, pinned, c)
  BY <1>2, ZenonT(40) DEF Add, Fatal
<1>4. \A pinned, k : Chosen(pinned, k)' = Chosen(pinned, k)
  BY <1>1, <1>3, Zenon DEF Chosen
<1>5. \A pinned, k : Selectable(pinned, k)' = Selectable(pinned, k)
  BY <1>1, <1>2, <1>3, <1>4 DEF Selectable, Resolved
<1> QED BY <1>1, <1>2, <1>4, <1>5

(* The workflows of a revision in some order.                              *)
LEMMA OrderedSet ==
    ASSUME NEW S, IsFiniteSet(S)
    PROVE  /\ Delivery!SetToSeq(S) \in Seq(S)
           /\ \A x \in S : \E m \in 1..Len(Delivery!SetToSeq(S)) : Delivery!SetToSeq(S)[m] = x
<1> DEFINE n == Cardinality(S)
           Ordered(f) == f \in [1..n -> S] /\ Delivery!IsInjective(f)
<1>1. n \in Nat /\ ExistsBijection(1..n, S)
  BY FS_CardinalityType
<1>2. \A f : f \in [1..n -> S] /\ Delivery!IsInjective(f) <=> f \in Injection(1..n, S)
  BY DEF Delivery!IsInjective, Injection, IsInjective
<1>3. PICK g : g \in Bijection(1..n, S)
  BY <1>1 DEF ExistsBijection
<1>4. g \in [1..n -> S] /\ Delivery!IsInjective(g)
  BY <1>2, <1>3 DEF Bijection
<1> DEFINE f == CHOOSE f \in [1..n -> S] : Delivery!IsInjective(f)
<1>5. f \in [1..n -> S] /\ Delivery!IsInjective(f)
  BY <1>4, Zenon
<1>6. f = Delivery!SetToSeq(S)
  <2>1. Delivery!Cardinality(S) = Cardinality(S)
    BY DEF Delivery!Cardinality, Cardinality
  <2> QED BY <2>1, Zenon DEF Delivery!SetToSeq
<1> HIDE DEF f
<1>7. IsFiniteSet(1..n) /\ Cardinality(1..n) = n
  BY <1>1, FS_Interval
<1>8. f \in Surjection(1..n, S)
  BY <1>2, <1>5, <1>7, FS_Injection
<1>9. f \in Seq(S) /\ Len(f) = n
  BY <1>1, <1>5
<1>10. \A x \in S : \E m \in 1..n : f[m] = x
  BY <1>8 DEF Surjection
<1> QED BY <1>6, <1>9, <1>10

LEMMA SelectionsFacts ==
    ASSUME NEW i \in DOMAIN Candidates, NEW r \in DOMAIN Tree
    PROVE  /\ Delivery!Selections(Candidates[i], r) \in Seq(Keys)
           /\ \A f \in Tree[r] :
                  Delivery!Matches(Candidates[i], f) =>
                      \E m \in 1..Len(Delivery!Selections(Candidates[i], r)) :
                          Delivery!Selections(Candidates[i], r)[m] = <<Candidates[i], f.path>>
<1> DEFINE c == Candidates[i]
           G == {g \in Tree[r] : Delivery!Matches(c, g)}
           S == {<<c, f.path>> : f \in G}
           h == [f \in G |-> <<c, f.path>>]
<1>1. IsFiniteSet(G)
  <2>1. IsFiniteSet(Tree[r])
    BY TreeAssumption
  <2>2. G \in SUBSET Tree[r]
    OBVIOUS
  <2> QED BY <2>1, <2>2, FS_Subset
<1>2. h \in Surjection(G, S)
  BY DEF Surjection
<1>3. IsFiniteSet(S)
  BY <1>1, <1>2, FS_Surjection
<1>4. S \subseteq Keys
  BY DEF Keys
<1>5. Delivery!Selections(c, r) = Delivery!SetToSeq(S)
  BY DEF Delivery!Selections
<1>6. \A f \in Tree[r] : Delivery!Matches(c, f) => <<c, f.path>> \in S
  OBVIOUS
<1> HIDE DEF c, S, G, h
<1>7. /\ Delivery!SetToSeq(S) \in Seq(S)
      /\ \A x \in S : \E m \in 1..Len(Delivery!SetToSeq(S)) : Delivery!SetToSeq(S)[m] = x
  BY <1>3, OrderedSet
<1>8. Delivery!SetToSeq(S) \in Seq(Keys)
  BY <1>4, <1>7
<1> QED BY <1>5, <1>6, <1>7, <1>8 DEF c

Contains(s, t) == \E m \in 1..Len(s) : s[m] = t

LEMMA RevisionInTree ==
    ASSUME NEW pinned, pinned \in [DOMAIN pinned -> DOMAIN Tree], NEW c
    PROVE  Delivery!Revision(pinned, c) \in DOMAIN Tree
BY TreeAssumption DEF Delivery!Revision

LEMMA AddFacts ==
    ASSUME NEW pinned, pinned \in [DOMAIN pinned -> DOMAIN Tree], NEW i \in 1..Len(Candidates),
           NEW p, p.selected \in Seq(Keys)
    PROVE  /\ Add(p, pinned, Candidates[i]).selected \in Seq(Keys)
           /\ \A t : Contains(p.selected, t) => Contains(Add(p, pinned, Candidates[i]).selected, t)
           /\ ~Delivery!Skipped(Candidates[i]) /\ ~Delivery!Unacceptable(p, Delivery!Revision(pinned, Candidates[i])) =>
                  \A f \in Tree[Delivery!Revision(pinned, Candidates[i])] :
                      Delivery!Matches(Candidates[i], f) =>
                          Contains(Add(p, pinned, Candidates[i]).selected, <<Candidates[i], f.path>>)
<1> DEFINE c == Candidates[i]
           r == Delivery!Revision(pinned, c)
           s == Delivery!Selections(c, r)
           a == Add(p, pinned, c)
<1>1. r \in DOMAIN Tree /\ i \in DOMAIN Candidates
  BY RevisionInTree, CandidatesFacts
<1>2. /\ s \in Seq(Keys)
      /\ \A f \in Tree[r] : Delivery!Matches(c, f) => Contains(s, <<c, f.path>>)
  BY <1>1, SelectionsFacts DEF Contains
<1>3. a = p \/ a.selected = p.selected \o s
  BY DEF Add
<1>4. ~Delivery!Skipped(c) /\ ~Delivery!Unacceptable(p, r) => a.selected = p.selected \o s
  BY DEF Add
<1> HIDE DEF c, r, s, a
<1>5. \A t : Contains(p.selected, t) \/ Contains(s, t) => Contains(p.selected \o s, t)
  <2> DEFINE q == p.selected
             both == q \o s
  <2>1. /\ q \in Seq(Keys) /\ Len(q) \in Nat /\ Len(s) \in Nat /\ both \in Seq(Keys) /\ Len(both) = Len(q) + Len(s)
        /\ \A m \in 1..Len(q) + Len(s) : both[m] = IF m <= Len(q) THEN q[m] ELSE s[m - Len(q)]
    BY <1>2, ConcatProperties
  <2> HIDE DEF q, both
  <2>2. \A m \in 1..Len(q) : m \in 1..Len(both) /\ both[m] = q[m]
    BY <2>1
  <2>3. \A m \in 1..Len(s) : m + Len(q) \in 1..Len(both) /\ both[m + Len(q)] = s[m]
    BY <2>1
  <2>4. \A t : Contains(q, t) \/ Contains(s, t) => Contains(both, t)
    BY <2>2, <2>3 DEF Contains
  <2> QED BY <2>4 DEF q, both
<1>6. p.selected \o s \in Seq(Keys)
  BY <1>2, ConcatProperties
<1>7. a.selected \in Seq(Keys) /\ \A t : Contains(p.selected, t) => Contains(a.selected, t)
  BY <1>3, <1>5, <1>6
<1>8. ~Delivery!Skipped(c) /\ ~Delivery!Unacceptable(p, r) =>
          \A f \in Tree[r] : Delivery!Matches(c, f) => Contains(a.selected, <<c, f.path>>)
  BY <1>2, <1>4, <1>5
<1> QED BY <1>7, <1>8 DEF c, r, a

LEMMA ChosenFacts ==
    ASSUME NEW pinned, pinned \in [DOMAIN pinned -> DOMAIN Tree]
    PROVE  \A k \in 0..Len(Candidates) :
               /\ Chosen(pinned, k).selected \in Seq(Keys)
               /\ \A t : \A l \in 0..k : Contains(Chosen(pinned, l).selected, t) => Contains(Chosen(pinned, k).selected, t)
<1> DEFINE n == Len(Candidates)
           S(k) == Chosen(pinned, k).selected
<1>1. n \in 1..2
  BY CandidatesFacts
<1>2. S(0) \in Seq(Keys)
  <2>1. NoneChosen.selected = <<>> /\ <<>> \in Seq(Keys)
    BY DEF NoneChosen
  <2> QED BY <2>1, ChosenStep
<1>3. ASSUME NEW k \in 0..n - 1, S(k) \in Seq(Keys)
      PROVE  S(k + 1) \in Seq(Keys) /\ \A t : Contains(S(k), t) => Contains(S(k + 1), t)
  <2> DEFINE p == Chosen(pinned, k)
  <2>1. Chosen(pinned, k + 1) = Add(p, pinned, Candidates[k + 1]) /\ p.selected \in Seq(Keys) /\ k + 1 \in 1..n
    BY <1>1, <1>3, ChosenStep
  <2> HIDE DEF p
  <2>2. Add(p, pinned, Candidates[k + 1]).selected \in Seq(Keys)
        /\ \A t : Contains(p.selected, t) => Contains(Add(p, pinned, Candidates[k + 1]).selected, t)
    BY <2>1, AddFacts
  <2> QED BY <2>1, <2>2 DEF p
<1> HIDE DEF S
<1>4. S(1) \in Seq(Keys) /\ \A t : Contains(S(0), t) => Contains(S(1), t)
  BY <1>1, <1>2, <1>3
<1>5. n = 2 => S(2) \in Seq(Keys) /\ \A t : Contains(S(1), t) => Contains(S(2), t)
  BY <1>3, <1>4
<1> HIDE DEF n
<1>6. \A k \in 0..n : (k = 0 \/ k = 1 \/ (k = 2 /\ n = 2)) /\ \A l \in 0..k : l = k \/ l = 0 \/ (l = 1 /\ k = 2)
  <2>1. n = 1 \/ n = 2
    BY <1>1
  <2> QED BY <2>1
<1>7. \A k \in 0..n : S(k) \in Seq(Keys) /\ \A t : \A l \in 0..k : Contains(S(l), t) => Contains(S(k), t)
  BY <1>2, <1>4, <1>5, <1>6
<1> QED BY <1>7 DEF S, n

(* What has been selected stays when later candidates are pinned.          *)
LEMMA ChosenStays ==
    ASSUME NEW pinned, NEW more, NEW k \in 0..Len(Candidates), DOMAIN pinned \subseteq DOMAIN more,
           \A i \in 1..k : \/ Delivery!Skipped(Candidates[i])
                           \/ Delivery!Revision(more, Candidates[i]) = Delivery!Revision(pinned, Candidates[i])
    PROVE  /\ Chosen(more, k) = Chosen(pinned, k)
           /\ Selectable(pinned, k) => Selectable(more, k)
<1>1. Len(Candidates) = 1 \/ Len(Candidates) = 2
  BY CandidatesFacts
<1>2. \A i \in 1..k : \A p : /\ Add(p, more, Candidates[i]) = Add(p, pinned, Candidates[i])
                             /\ Fatal(p, more, Candidates[i]) <=> Fatal(p, pinned, Candidates[i])
  BY Zenon DEF Add, Fatal
<1>3. Chosen(more, 0) = Chosen(pinned, 0)
  BY ChosenStep
<1>4. ASSUME NEW l \in 0..k - 1, Chosen(more, l) = Chosen(pinned, l)
      PROVE  Chosen(more, l + 1) = Chosen(pinned, l + 1)
  <2>1. l \in 0..Len(Candidates) - 1 /\ l + 1 \in 1..k
    BY <1>1
  <2>2. /\ Chosen(more, l + 1) = Add(Chosen(more, l), more, Candidates[l + 1])
        /\ Chosen(pinned, l + 1) = Add(Chosen(pinned, l), pinned, Candidates[l + 1])
    BY <2>1, ChosenStep
  <2> QED BY <1>2, <1>4, <2>1, <2>2
<1>5. /\ k > 0 => Chosen(more, 1) = Chosen(pinned, 1)
      /\ k > 1 => Chosen(more, 2) = Chosen(pinned, 2)
  <2>1. k > 0 => Chosen(more, 1) = Chosen(pinned, 1)
    BY <1>3, <1>4
  <2> QED BY <1>4, <2>1
<1>6. \A l \in 0..k : Chosen(more, l) = Chosen(pinned, l)
  <2>1. \A l \in 0..k : l = 0 \/ (l = 1 /\ k > 0) \/ (l = 2 /\ k > 1)
    BY <1>1
  <2> QED BY <1>3, <1>5, <2>1
<1>7. Selectable(pinned, k) => Selectable(more, k)
  <2> SUFFICES ASSUME Selectable(pinned, k), NEW i \in 1..k
               PROVE  Resolved(more, Candidates[i]) /\ ~Fatal(Chosen(more, i - 1), more, Candidates[i])
    BY DEF Selectable
  <2>1. Resolved(pinned, Candidates[i]) /\ ~Fatal(Chosen(pinned, i - 1), pinned, Candidates[i])
    BY DEF Selectable
  <2>2. Chosen(more, i - 1) = Chosen(pinned, i - 1)
    BY <1>6
  <2>3. Resolved(more, Candidates[i])
    BY <2>1 DEF Resolved
  <2> QED BY <1>2, <2>1, <2>2, <2>3
<1> QED BY <1>6, <1>7

(* Everything a candidate triggers is wanted in the end.                   *)
LEMMA AllWanted ==
    ASSUME NEW pinned, pinned \in [DOMAIN pinned -> DOMAIN Tree], Selectable(pinned, Len(Candidates)),
           NEW i \in 1..Len(Candidates), ~Delivery!Skipped(Candidates[i]),
           ~(Candidates[i] = "pull_request" /\ event.fork),
           NEW f \in Tree[Delivery!Revision(pinned, Candidates[i])], Delivery!Matches(Candidates[i], f)
    PROVE  Contains(Chosen(pinned, Len(Candidates)).selected, <<Candidates[i], f.path>>)
<1> DEFINE n == Len(Candidates)
           p == Chosen(pinned, i - 1)
           t == <<Candidates[i], f.path>>
<1>1. n \in Nat /\ i - 1 \in 0..n - 1 /\ i - 1 \in 0..n /\ i \in 0..n /\ n \in 0..n /\ (i - 1) + 1 = i
  BY CandidatesFacts
<1>2. ~Delivery!Unacceptable(p, Delivery!Revision(pinned, Candidates[i]))
  BY DEF Selectable, Fatal
<1>3. p.selected \in Seq(Keys)
  BY <1>1, ChosenFacts
<1>4. Chosen(pinned, i) = Add(p, pinned, Candidates[i])
  BY <1>1, ChosenStep
<1> HIDE DEF p
<1>5. Contains(Chosen(pinned, i).selected, t)
  BY <1>2, <1>3, <1>4, AddFacts
<1> HIDE DEF n, t
<1>6. \A l \in 0..n : Contains(Chosen(pinned, l).selected, t) => Contains(Chosen(pinned, n).selected, t)
  BY <1>1, ChosenFacts DEF n
<1> QED BY <1>1, <1>5, <1>6 DEF n, t

-----------------------------------------------------------------------------
(* What the parts of the invariant depend on.                              *)
LEMMA DeliveryStays ==
    ASSUME event' = event, delivery'.pinned = delivery.pinned
    PROVE  /\ AllSelectable' = AllSelectable /\ Wanted' = Wanted
           /\ \A t : RevisionOf(t)' = RevisionOf(t)
<1>1. PICK pinned, n : pinned = delivery.pinned /\ n = Len(Candidates)
  OBVIOUS
<1>2. pinned = delivery'.pinned /\ n = Len(Candidates)'
  BY <1>1, EventStays
<1>3. Selectable(pinned, n)' = Selectable(pinned, n) /\ Chosen(pinned, n)' = Chosen(pinned, n)
  BY EventStays
<1>4. AllSelectable' = Selectable(pinned, n)' /\ AllSelectable = Selectable(pinned, n)
  BY <1>1, <1>2 DEF AllSelectable
<1>5. Wanted' = Chosen(pinned, n)'.selected /\ Wanted = Chosen(pinned, n).selected
  BY <1>1, <1>2 DEF Wanted
<1>6. \A t : RevisionOf(t)' = RevisionOf(t)
  BY DEF RevisionOf
<1> QED BY <1>3, <1>4, <1>5, <1>6

(* Runs may go, but those that stay do not change.                         *)
Fewer == \A t \in DOMAIN triggered' : t \in DOMAIN triggered /\ triggered'[t] = triggered[t]

LEMMA HistoryStays ==
    ASSUME HistoryFits, UNCHANGED <<event, history>>, Fewer,
           delivery'.pinned = delivery.pinned, delivery'.uid = delivery.uid,
           delivery'.state = "new" =>
               delivery.state = "new" /\ early \subseteq early' /\ \A t \in DOMAIN triggered : t \in DOMAIN triggered' \/ t \in early'
    PROVE  HistoryFits'
<1>1. AllSelectable' = AllSelectable /\ \A t : RevisionOf(t)' = RevisionOf(t)
  BY DeliveryStays
<1>2. \A x \in history' :
          x[1] = delivery'.uid =>
              /\ AllSelectable' /\ x[3] = RevisionOf(x[2])'
              /\ delivery'.state = "new" => x[2] \in DOMAIN triggered' \/ x[2] \in early'
  BY <1>1 DEF HistoryFits
<1>3. \A t \in DOMAIN triggered' : \E x \in history' : x[2] = t /\ x[3] = triggered'[t].rev
  BY DEF HistoryFits, Fewer
<1> QED BY <1>2, <1>3 DEF HistoryFits

LEMMA PassStays ==
    ASSUME PassFits, UNCHANGED <<event, pass>>, Fewer, history \subseteq history', delivery'.pinned = delivery.pinned
    PROVE  PassFits'
<1>1. /\ AllSelectable' = AllSelectable /\ Wanted' = Wanted /\ \A t : RevisionOf(t)' = RevisionOf(t)
      /\ Candidates' = Candidates /\ Suppressed' = Suppressed /\ \A c : Delivery!Skipped(c)' = Delivery!Skipped(c)
      /\ \A pinned, k : Chosen(pinned, k)' = Chosen(pinned, k) /\ Selectable(pinned, k)' = Selectable(pinned, k)
  BY DeliveryStays, EventStays
<1>2. \A k : SelectionFits(k) => SelectionFits(k)'
  <2>1. PICK pinned : pinned = delivery.pinned
    OBVIOUS
  <2>2. pinned = delivery'.pinned
    BY <2>1
  <2>3. \A c : Resolved(pinned, c)' = Resolved(pinned, c)
    BY <1>1 DEF Resolved
  <2> QED BY <1>1, <2>1, <2>2, <2>3 DEF SelectionFits
<1>3. \A t : CreatedOnce(t) => CreatedOnce(t)'
  BY <1>1 DEF CreatedOnce, Agreeing, Fewer
<1>4. \A j : CreationFits(j) => CreationFits(j)'
  <2>1. PICK w : w = Wanted
    OBVIOUS
  <2>2. w = Wanted'
    BY <1>1, <2>1
  <2>3. ASSUME NEW j, CreationFits(j)
        PROVE  \A m \in 1..(IF pass'.at = "own" THEN j + 1 ELSE j) : CreatedOnce(w[m])'
    BY <1>3, <2>1, <2>3 DEF CreationFits
  <2>4. ASSUME NEW j, CreationFits(j)
        PROVE  /\ pass'.selected = SubSeq(w, j + 1, Len(w))
               /\ pass'.at = "own" => j < Len(w)
    BY <2>1, <2>4 DEF CreationFits
  <2> QED BY <2>2, <2>3, <2>4 DEF CreationFits
<1> QED BY <1>1, <1>2, <1>4 DEF PassFits

LEMMA PendingStays ==
    ASSUME UnownedPending, UNCHANGED event, Fewer, delivery'.pinned = delivery.pinned,
           \A t \in DOMAIN triggered' : Owned(t) => Owned(t)',
           delivery.state = "new" =>
               /\ delivery'.state = "new"
               /\ pass'.at # "fail" \/ pass'.at = pass.at
               /\ pass'.at \in {"create", "own"} => pass' = pass
    PROVE  UnownedPending'
<1>1. /\ AllSelectable' = AllSelectable /\ Wanted' = Wanted /\ \A t : RevisionOf(t)' = RevisionOf(t)
      /\ Suppressed' = Suppressed
  BY DeliveryStays, EventStays
<1>2. PICK w : w = Wanted /\ w = Wanted'
  BY <1>1
<1>3. \A t : Agreeing(t) => Agreeing(t)'
  BY <1>1 DEF Agreeing, Fewer
<1>4. ASSUME NEW t, NEW m, Ahead(t, m), delivery.state = "new"
      PROVE  Ahead(t, m)'
  BY <1>2, <1>3, <1>4 DEF Ahead
<1>5. \A t : Pending(t) => Pending(t)'
  BY <1>1, <1>2, <1>4 DEF Pending
<1> QED BY <1>5 DEF UnownedPending, Fewer

LEMMA PromisesStay ==
    ASSUME Delivery!OneRevision, Delivery!NoDuplicateRun, Delivery!CompletedMeansAll, UNCHANGED <<event, history>>,
           early \subseteq early',
           delivery'.state = "Completed" => delivery.state = "Completed" /\ delivery'.pinned = delivery.pinned
    PROVE  Delivery!OneRevision' /\ Delivery!NoDuplicateRun' /\ Delivery!CompletedMeansAll'
<1>1. Delivery!OneRevision' /\ Delivery!NoDuplicateRun'
  BY DEF Delivery!OneRevision, Delivery!NoDuplicateRun
<1>2. Delivery!CompletedMeansAll'
  <2> SUFFICES ASSUME delivery'.state = "Completed"
               PROVE  Delivery!CompletedMeansAll'
    BY DEF Delivery!CompletedMeansAll
  <2>1. \A c : Delivery!Skipped(c)' = Delivery!Skipped(c)
    BY EventStays
  <2>2. Delivery!DeliveryEvents(event)' = Delivery!DeliveryEvents(event)
    OBVIOUS
  <2> QED BY <2>1, <2>2 DEF Delivery!CompletedMeansAll
<1> QED BY <1>1, <1>2

-----------------------------------------------------------------------------
(* The actions.  Those of the HTTP handler, the branch and the garbage     *)
(* collector leave the runs and the delivery alone.                        *)
LEMMA AroundInv ==
    ASSUME DeliveryInv, UNCHANGED <<event, delivery, triggered, pass, uid, history, early>>,
           head' \in DOMAIN Tree, snapshot' = [controller |-> snapshot'.controller, owners |-> snapshot'.owners],
           \A t \in DOMAIN triggered : Owned(t) => triggered[t].uid \in snapshot'.owners
    PROVE  DeliveryInv'
<1>1. DeliveryType'
  BY DEF DeliveryInv, DeliveryType
<1>2. DeliveryKnown'
  BY DEF DeliveryInv, DeliveryKnown
<1>3. Fewer
  BY DEF Fewer
<1>4. HistoryFits'
  BY <1>3, HistoryStays DEF DeliveryInv
<1>5. PassFits'
  BY <1>3, PassStays DEF DeliveryInv
<1>6. \A t \in DOMAIN triggered' : Owned(t) => Owned(t)'
  BY DEF Owned
<1>7. UnownedPending'
  BY <1>3, <1>6, PendingStays DEF DeliveryInv
<1>8. Delivery!OneRevision' /\ Delivery!NoDuplicateRun' /\ Delivery!CompletedMeansAll'
  BY PromisesStay DEF DeliveryInv
<1> QED BY <1>1, <1>2, <1>4, <1>5, <1>7, <1>8 DEF DeliveryInv

LEMMA EnsureEventSnapshotInv == ASSUME DeliveryInv, Delivery!EnsureEventSnapshot PROVE DeliveryInv'
<1> USE DEF Delivery!EnsureEventSnapshot
<1>1. UNCHANGED <<event, head, delivery, triggered, pass, uid, history, early>>
  OBVIOUS
<1>2. head' \in DOMAIN Tree /\ snapshot = [controller |-> snapshot.controller, owners |-> snapshot.owners]
  BY DEF DeliveryInv, DeliveryType
<1>3. \/ snapshot' = snapshot
      \/ snapshot = Delivery!NoSnapshot /\ snapshot' = [controller |-> delivery.uid, owners |-> {delivery.uid}]
  OBVIOUS
<1>4. \A t \in DOMAIN triggered : Owned(t) => triggered[t].uid \in snapshot'.owners
  BY <1>3 DEF Owned, Delivery!NoSnapshot
<1>5. snapshot' = [controller |-> snapshot'.controller, owners |-> snapshot'.owners]
  BY <1>2, <1>3
<1> QED BY <1>1, <1>2, <1>4, <1>5, AroundInv

LEMMA CollectSnapshotInv == ASSUME DeliveryInv, Delivery!CollectSnapshot PROVE DeliveryInv'
<1> USE DEF Delivery!CollectSnapshot
<1>1. /\ UNCHANGED <<event, head, delivery, triggered, pass, uid, history, early>>
      /\ snapshot' = [controller |-> 0, owners |-> {}] /\ snapshot.owners \cap Delivery!Alive = {}
  BY DEF Delivery!NoSnapshot
<1>2. \A t \in DOMAIN triggered : ~Owned(t)
  BY <1>1 DEF Owned, Delivery!Alive
<1>3. head' \in DOMAIN Tree /\ snapshot' = [controller |-> snapshot'.controller, owners |-> snapshot'.owners]
  BY <1>1 DEF DeliveryInv, DeliveryType
<1> QED BY <1>1, <1>2, <1>3, AroundInv

LEMMA RunExpiresInv == ASSUME DeliveryInv, NEW t \in DOMAIN triggered, Delivery!RunExpires(t) PROVE DeliveryInv'
<1>1. /\ UNCHANGED <<event, head, delivery, snapshot, pass, uid, history>>
      /\ triggered' = [u \in DOMAIN triggered \ {t} |-> triggered[u]]
      /\ early \subseteq early'
      /\ delivery.state = "new" => t \in early'
  BY DEF Delivery!RunExpires
<1>2. Fewer /\ \A u \in DOMAIN triggered : u \in DOMAIN triggered' \/ u = t
  BY <1>1 DEF Fewer
<1>3. DeliveryType'
  BY <1>1 DEF DeliveryInv, DeliveryType
<1>4. DeliveryKnown'
  BY <1>1 DEF DeliveryInv, DeliveryKnown
<1>5. HistoryFits'
  BY <1>1, <1>2, HistoryStays DEF DeliveryInv
<1>6. PassFits'
  BY <1>1, <1>2, PassStays DEF DeliveryInv
<1>7. \A u \in DOMAIN triggered' : Owned(u) => Owned(u)'
  BY <1>1, <1>2 DEF Owned, Fewer
<1>8. UnownedPending'
  BY <1>1, <1>2, <1>7, PendingStays DEF DeliveryInv
<1>9. Delivery!OneRevision' /\ Delivery!NoDuplicateRun' /\ Delivery!CompletedMeansAll'
  BY <1>1, PromisesStay DEF DeliveryInv
<1> QED BY <1>3, <1>4, <1>5, <1>6, <1>8, <1>9 DEF DeliveryInv

(* A delivery begins or goes while no pass works on it and all runs own    *)
(* the snapshot.                                                           *)
LEMMA OtherDeliveryInv ==
    ASSUME DeliveryInv, pass.at = "idle", delivery.state # "new", UNCHANGED <<event, head, snapshot, triggered, pass, history, early>>,
           delivery' = [uid |-> delivery'.uid, state |-> delivery'.state, pinned |-> <<>>],
           delivery'.uid \in Nat, delivery'.state \in {"none", "new"}, delivery'.state = "none" <=> delivery'.uid = 0,
           uid' \in Nat, uid <= uid', delivery'.uid < uid', \A x \in history : x[1] # delivery'.uid
    PROVE  DeliveryInv'
<1>1. DeliveryType'
  <2>1. <<>> \in [DOMAIN <<>> -> DOMAIN Tree]
    OBVIOUS
  <2>2. delivery'.pinned = <<>>
    OBVIOUS
  <2>3. delivery'.pinned \in [DOMAIN delivery'.pinned -> DOMAIN Tree]
    BY <2>1, <2>2, Zenon
  <2>4. delivery' = [uid |-> delivery'.uid, state |-> delivery'.state, pinned |-> delivery'.pinned]
    BY <2>2, Zenon
  <2> QED BY <2>3, <2>4 DEF DeliveryInv, DeliveryType
<1>2. DeliveryKnown'
  BY DEF DeliveryInv, DeliveryKnown, DeliveryType
<1>3. HistoryFits'
  BY DEF DeliveryInv, HistoryFits
<1>4. PassFits'
  BY DEF DeliveryInv, PassFits
<1>5. UnownedPending'
  <2>1. \A t \in DOMAIN triggered : Owned(t)
    BY DEF DeliveryInv, UnownedPending, Pending
  <2> QED BY <2>1 DEF UnownedPending, Owned
<1>6. Delivery!OneRevision' /\ Delivery!NoDuplicateRun' /\ Delivery!CompletedMeansAll'
  BY PromisesStay DEF DeliveryInv
<1> QED BY <1>1, <1>2, <1>3, <1>4, <1>5, <1>6 DEF DeliveryInv

LEMMA EnqueueInv == ASSUME DeliveryInv, Delivery!Enqueue PROVE DeliveryInv'
<1>1. UNCHANGED <<event, head, snapshot, triggered, pass, history, early>>
  BY DEF Delivery!Enqueue
<1>2. CASE delivery.state = "none"
  <2>1. delivery' = [uid |-> uid, state |-> "new", pinned |-> <<>>] /\ uid' = uid + 1
    BY <1>2 DEF Delivery!Enqueue
  <2>2. uid \in Nat /\ uid > 0 /\ pass.at = "idle" /\ \A x \in history : x[1] # uid
    BY <1>2 DEF DeliveryInv, DeliveryType, DeliveryKnown
  <2> QED BY <1>1, <1>2, <2>1, <2>2, OtherDeliveryInv
<1>3. CASE delivery.state # "none"
  <2>1. UNCHANGED <<delivery, uid>>
    BY <1>3 DEF Delivery!Enqueue
  <2> QED BY <1>1, <2>1, AroundInv DEF DeliveryInv, DeliveryType, Owned
<1> QED BY <1>2, <1>3

LEMMA ExpireInv == ASSUME DeliveryInv, Delivery!Expire PROVE DeliveryInv'
<1>1. /\ UNCHANGED <<event, head, snapshot, triggered, pass, uid, history, early>>
      /\ pass.at = "idle" /\ delivery.state # "new" /\ delivery' = [uid |-> 0, state |-> "none", pinned |-> <<>>]
  BY DEF Delivery!Expire, Delivery!NoDelivery
<1>2. uid \in Nat /\ 0 < uid /\ \A x \in history : x[1] # 0
  BY DEF DeliveryInv, DeliveryType, DeliveryKnown
<1> QED BY <1>1, <1>2, OtherDeliveryInv

-----------------------------------------------------------------------------
(* The steps of a pass.                                                    *)
LEMMA OnlyPassMoves ==
    ASSUME DeliveryInv, UNCHANGED <<event, head, delivery, snapshot, triggered, uid, history, early>>,
           pass' = [at |-> pass'.at, copy |-> pass'.copy, rest |-> pass'.rest, selected |-> pass'.selected,
                    count |-> pass'.count, seen |-> pass'.seen],
           pass'.at \in PassStages, pass'.at # "idle" => pass'.copy = delivery /\ delivery.state = "new",
           PassFits', UnownedPending'
    PROVE  DeliveryInv'
<1>1. DeliveryType'
  BY DEF DeliveryInv, DeliveryType
<1>2. DeliveryKnown'
  BY DEF DeliveryInv, DeliveryKnown
<1>3. HistoryFits'
  BY HistoryStays DEF DeliveryInv, Fewer
<1>4. Delivery!OneRevision' /\ Delivery!NoDuplicateRun' /\ Delivery!CompletedMeansAll'
  BY PromisesStay DEF DeliveryInv
<1> QED BY <1>1, <1>2, <1>3, <1>4 DEF DeliveryInv

LEMMA PassEndsInv ==
    ASSUME DeliveryInv, UNCHANGED <<event, head, delivery, snapshot, triggered, uid, history, early>>,
           pass' = Delivery!IdlePass
    PROVE  DeliveryInv'
<1> USE DEF Delivery!IdlePass
<1>1. PassFits'
  BY DEF PassFits
<1>2. \A t \in DOMAIN triggered' : Owned(t) => Owned(t)'
  BY DEF Owned
<1>3. UnownedPending'
  BY <1>2, PendingStays DEF DeliveryInv, Fewer
<1> QED BY <1>1, <1>3, OnlyPassMoves DEF PassStages

LEMMA SelectionMoves ==
    ASSUME event' = event, NEW k, NEW pinned, pinned = delivery'.pinned,
           pass'.rest = SubSeq(Candidates, k + 1, Len(Candidates)), Selectable(pinned, k),
           [selected |-> pass'.selected, count |-> pass'.count, seen |-> pass'.seen] = Chosen(pinned, k),
           pass'.at = "select" =>
               k < Len(Candidates) /\ ~Delivery!Skipped(Candidates[k + 1]) /\ Resolved(pinned, Candidates[k + 1])
    PROVE  SelectionFits(k)'
<1>1. /\ Candidates' = Candidates /\ \A c : Delivery!Skipped(c)' = Delivery!Skipped(c)
      /\ Chosen(pinned, k)' = Chosen(pinned, k) /\ Selectable(pinned, k)' = Selectable(pinned, k)
  BY EventStays
<1>2. \A c : Resolved(pinned, c)' = Resolved(pinned, c)
  BY <1>1 DEF Resolved
<1> QED BY <1>1, <1>2 DEF SelectionFits

LEMMA ReadDeliveryInv == ASSUME DeliveryInv, Delivery!ReadDelivery PROVE DeliveryInv'
<1> DEFINE p == pass'
<1>1. /\ UNCHANGED <<event, head, delivery, snapshot, triggered, uid, history, early>>
      /\ pass.at = "idle" /\ delivery.state = "new"
      /\ p = [at |-> IF Suppressed THEN "finish" ELSE "candidate", copy |-> delivery, rest |-> Candidates,
              selected |-> <<>>, count |-> 0, seen |-> {}]
  <2>1. PICK stage, c : stage = (IF Suppressed THEN "finish" ELSE "candidate") /\ c = Candidates
    OBVIOUS
  <2>2. pass' = [Delivery!IdlePass EXCEPT !.at = stage, !.copy = delivery, !.rest = c]
    BY <2>1, Zenon DEF Delivery!ReadDelivery, Suppressed, Candidates
  <2>3. p = [at |-> stage, copy |-> delivery, rest |-> c, selected |-> <<>>, count |-> 0, seen |-> {}]
    <3>1. PICK none : none = Delivery!NoDelivery
      OBVIOUS
    <3>2. Delivery!IdlePass \in [at : {"idle"}, copy : {none}, rest : {<<>>}, selected : {<<>>}, count : {0}, seen : {{}}]
      BY <3>1 DEF Delivery!IdlePass
    <3>3. p \in [at : {stage}, copy : {delivery}, rest : {c}, selected : {<<>>}, count : {0}, seen : {{}}]
      BY <2>2, <3>2
    <3> QED BY <3>3
  <2> QED BY <2>1, <2>3 DEF Delivery!ReadDelivery
<1>2. PassFits'
  <2>1. Suppressed' = Suppressed
    BY <1>1, EventStays
  <2>2. PICK pinned : pinned = delivery'.pinned
    OBVIOUS
  <2>3. Len(Candidates) \in Nat /\ SubSeq(Candidates, 0 + 1, Len(Candidates)) = Candidates
    BY CandidatesFacts
  <2>4. Selectable(pinned, 0)
    BY DEF Selectable
  <2>5. [selected |-> p.selected, count |-> p.count, seen |-> p.seen] = Chosen(pinned, 0)
    BY <1>1, ChosenStep DEF NoneChosen
  <2>6. p.at # "select" /\ p.rest = Candidates
    BY <1>1
  <2>7. SelectionFits(0)'
    BY <1>1, <2>2, <2>3, <2>4, <2>5, <2>6, SelectionMoves
  <2>8. 0 \in 0..Len(Candidates)' /\ p.at \in {"finish", "candidate"} /\ (p.at = "finish" <=> Suppressed)
    BY <1>1, <2>3, EventStays
  <2> QED BY <2>1, <2>7, <2>8 DEF PassFits
<1>3. UnownedPending'
  <2>1. \A t \in DOMAIN triggered' : Owned(t) => Owned(t)'
    BY <1>1 DEF Owned
  <2>2. p.at \in {"finish", "candidate"}
    BY <1>1
  <2> QED BY <1>1, <2>1, <2>2, PendingStays DEF DeliveryInv, Fewer
<1>4. p.at \in PassStages /\ p.copy = delivery
  BY <1>1 DEF PassStages
<1>5. p = [at |-> p.at, copy |-> p.copy, rest |-> p.rest, selected |-> p.selected, count |-> p.count, seen |-> p.seen]
  BY <1>1
<1> QED BY <1>1, <1>2, <1>3, <1>4, <1>5, OnlyPassMoves

(* The candidate the pass is at.                                           *)
LEMMA CurrentCandidate ==
    ASSUME DeliveryInv, NEW k \in 0..Len(Candidates), SelectionFits(k), pass.rest # <<>> \/ pass.at = "select"
    PROVE  /\ k + 1 \in 1..Len(Candidates) /\ (k + 1) - 1 = k
           /\ Head(pass.rest) = Candidates[k + 1]
           /\ Tail(pass.rest) = SubSeq(Candidates, (k + 1) + 1, Len(Candidates))
           /\ \A pinned : Selectable(pinned, k + 1) <=>
                              /\ Selectable(pinned, k) /\ Resolved(pinned, Candidates[k + 1])
                              /\ ~Fatal(Chosen(pinned, k), pinned, Candidates[k + 1])
<1> DEFINE n == Len(Candidates)
<1>1. n \in 1..2 /\ Candidates \in Seq({Candidates[i] : i \in DOMAIN Candidates})
  BY CandidatesFacts
<1>2. pass.rest = SubSeq(Candidates, k + 1, n)
  BY DEF SelectionFits
<1>3. k < n
  <2>1. k = n => SubSeq(Candidates, k + 1, n) = <<>>
    BY <1>1
  <2>2. pass.at = "select" => k < n
    BY DEF SelectionFits
  <2> QED BY <1>1, <1>2, <2>1, <2>2
<1>4. k + 1 \in 1..n /\ (k + 1) - 1 = k /\ n \in (k + 1)..n
  BY <1>1, <1>3
<1>5. Head(pass.rest) = Candidates[k + 1] /\ Tail(pass.rest) = SubSeq(Candidates, (k + 1) + 1, n)
  BY <1>1, <1>2, <1>4, HeadTailOfSubSeq
<1>6. \A i : i \in 1..k + 1 <=> i \in 1..k \/ i = k + 1
  BY <1>1
<1>7. \A pinned : Selectable(pinned, k + 1) <=>
                      /\ Selectable(pinned, k) /\ Resolved(pinned, Candidates[k + 1])
                      /\ ~Fatal(Chosen(pinned, k), pinned, Candidates[k + 1])
  BY <1>4, <1>6 DEF Selectable
<1> QED BY <1>4, <1>5, <1>7

LEMMA SkipCandidateInv ==
    ASSUME DeliveryInv, Delivery!ResolveCandidate, Delivery!Skipped(Head(pass.rest)) PROVE DeliveryInv'
<1> DEFINE p == pass'
<1>1. /\ UNCHANGED <<event, head, delivery, snapshot, triggered, uid, history, early>>
      /\ pass.at = "candidate" /\ pass.rest # <<>> /\ pass' = [pass EXCEPT !.rest = Tail(@)]
  BY DEF Delivery!ResolveCandidate
<1>2. /\ p = [at |-> "candidate", copy |-> pass.copy, rest |-> Tail(pass.rest), selected |-> pass.selected,
              count |-> pass.count, seen |-> pass.seen]
      /\ pass.copy = delivery /\ delivery.state = "new"
  <2>1. PICK r : r = Tail(pass.rest)
    OBVIOUS
  <2>2. pass' = [pass EXCEPT !.rest = r]
    BY <1>1, <2>1, Zenon
  <2>3. pass.copy = delivery /\ delivery.state = "new"
    BY <1>1 DEF DeliveryInv, DeliveryKnown
  <2>4. p = [at |-> "candidate", copy |-> pass.copy, rest |-> r, selected |-> pass.selected,
             count |-> pass.count, seen |-> pass.seen]
    BY <1>1, <2>2 DEF DeliveryInv, DeliveryType
  <2> QED BY <2>1, <2>3, <2>4
<1>3. PICK k \in 0..Len(Candidates) : SelectionFits(k)
  BY <1>1 DEF DeliveryInv, PassFits
<1>4. PICK pinned : pinned = delivery.pinned
  OBVIOUS
<1>5. /\ k + 1 \in 1..Len(Candidates) /\ Delivery!Skipped(Candidates[k + 1])
      /\ Tail(pass.rest) = SubSeq(Candidates, (k + 1) + 1, Len(Candidates))
      /\ Selectable(pinned, k + 1) <=>
             Selectable(pinned, k) /\ Resolved(pinned, Candidates[k + 1])
             /\ ~Fatal(Chosen(pinned, k), pinned, Candidates[k + 1])
  BY <1>1, <1>3, CurrentCandidate
<1>6. Selectable(pinned, k + 1)
  BY <1>3, <1>4, <1>5 DEF SelectionFits, Resolved, Fatal
<1>7. Chosen(pinned, k + 1) = Chosen(pinned, k)
  <2>1. k \in 0..Len(Candidates) - 1
    BY <1>5
  <2>2. Chosen(pinned, k + 1) = Add(Chosen(pinned, k), pinned, Candidates[k + 1])
    BY <2>1, ChosenStep
  <2> QED BY <1>5, <2>2, Zenon DEF Add
<1>8. [selected |-> p.selected, count |-> p.count, seen |-> p.seen] = Chosen(pinned, k + 1)
  BY <1>2, <1>3, <1>4, <1>7 DEF SelectionFits
<1>9. SelectionFits(k + 1)'
  <2>1. p.rest = SubSeq(Candidates, (k + 1) + 1, Len(Candidates)) /\ p.at # "select" /\ pinned = delivery'.pinned
    BY <1>1, <1>2, <1>4, <1>5
  <2> QED BY <1>1, <1>6, <1>8, <2>1, SelectionMoves
<1>10. PassFits'
  <2>1. Candidates' = Candidates /\ Suppressed' = Suppressed
    BY <1>1, EventStays
  <2>2. k + 1 \in 0..Len(Candidates)' /\ p.at = "candidate" /\ ~Suppressed
    BY <1>1, <1>2, <1>5, <2>1 DEF DeliveryInv, PassFits
  <2> QED BY <1>9, <2>1, <2>2 DEF PassFits
<1>11. UnownedPending'
  <2>1. \A t \in DOMAIN triggered' : Owned(t) => Owned(t)'
    BY <1>1 DEF Owned
  <2> QED BY <1>1, <1>2, <2>1, PendingStays DEF DeliveryInv, Fewer
<1>12. p = [at |-> p.at, copy |-> p.copy, rest |-> p.rest, selected |-> p.selected, count |-> p.count, seen |-> p.seen]
  BY <1>2
<1>13. p.at \in PassStages /\ p.copy = delivery /\ delivery.state = "new"
  BY <1>2 DEF PassStages
<1> QED BY <1>1, <1>10, <1>11, <1>12, <1>13, OnlyPassMoves

(* A pinned revision stays.                                                *)
LEMMA PinFacts ==
    ASSUME NEW pinned, pinned \in [DOMAIN pinned -> DOMAIN Tree], head \in DOMAIN Tree, NEW c,
           NEW more, more = IF event.resolve THEN Delivery!Pin(pinned, c) ELSE pinned
    PROVE  /\ more \in [DOMAIN more -> DOMAIN Tree] /\ DOMAIN pinned \subseteq DOMAIN more
           /\ \A d \in DOMAIN pinned : more[d] = pinned[d]
           /\ event.resolve => c \in DOMAIN more
           /\ Resolved(pinned, c) /\ ~Delivery!Skipped(c) => more = pinned
           /\ \A d : Resolved(pinned, d) => Delivery!Skipped(d) \/ Delivery!Revision(more, d) = Delivery!Revision(pinned, d)
<1>1. /\ Delivery!With(pinned, c, head) \in [DOMAIN pinned \cup {c} -> DOMAIN Tree]
      /\ DOMAIN Delivery!With(pinned, c, head) = DOMAIN pinned \cup {c}
      /\ c \notin DOMAIN pinned => \A d \in DOMAIN pinned : Delivery!With(pinned, c, head)[d] = pinned[d]
  BY DEF Delivery!With
<1>2. /\ more \in [DOMAIN more -> DOMAIN Tree] /\ DOMAIN pinned \subseteq DOMAIN more
      /\ \A d \in DOMAIN pinned : more[d] = pinned[d]
      /\ event.resolve => c \in DOMAIN more
      /\ ~event.resolve \/ c \in DOMAIN pinned => more = pinned
  <2>1. CASE ~event.resolve \/ c \in DOMAIN pinned
    <3>1. more = pinned
      BY <2>1 DEF Delivery!Pin
    <3> QED BY <2>1, <3>1
  <2>2. CASE event.resolve /\ c \notin DOMAIN pinned
    <3>1. more = Delivery!With(pinned, c, head)
      BY <2>2 DEF Delivery!Pin
    <3> QED BY <1>1, <2>2, <3>1
  <2> QED BY <2>1, <2>2
<1>3. Resolved(pinned, c) /\ ~Delivery!Skipped(c) => more = pinned
  BY <1>2 DEF Resolved
<1>4. \A d : Resolved(pinned, d) => Delivery!Skipped(d) \/ Delivery!Revision(more, d) = Delivery!Revision(pinned, d)
  BY <1>2 DEF Resolved, Delivery!Revision
<1> QED BY <1>2, <1>3, <1>4

(* The fields of a pass, and one or several of them replaced.              *)
Passes(a, c, r, s, n, e) == [at : {a}, copy : {c}, rest : {r}, selected : {s}, count : {n}, seen : {e}]

LEMMA PassShape ==
    ASSUME NEW a, NEW c, NEW r, NEW s, NEW n, NEW e, NEW p \in Passes(a, c, r, s, n, e)
    PROVE  /\ p.at = a /\ p.copy = c /\ p.rest = r /\ p.selected = s /\ p.count = n /\ p.seen = e
           /\ p = [at |-> p.at, copy |-> p.copy, rest |-> p.rest, selected |-> p.selected, count |-> p.count, seen |-> p.seen]
BY DEF Passes

LEMMA KnownPass ==
    ASSUME DeliveryInv
    PROVE  pass \in Passes(pass.at, pass.copy, pass.rest, pass.selected, pass.count, pass.seen)
<1>1. PICK a, c, r, s, n, e : pass = [at |-> a, copy |-> c, rest |-> r, selected |-> s, count |-> n, seen |-> e]
  BY DEF DeliveryInv, DeliveryType
<1> QED BY <1>1 DEF Passes

LEMMA PinCandidateInv ==
    ASSUME DeliveryInv, Delivery!ResolveCandidate, ~Delivery!Skipped(Head(pass.rest)) PROVE DeliveryInv'
<1> DEFINE p == pass'
<1>1. PICK pinned, c : pinned = delivery.pinned /\ c = Head(pass.rest)
  OBVIOUS
<1>2. PICK more : more = IF event.resolve THEN Delivery!Pin(pinned, c) ELSE pinned
  OBVIOUS
<1>3. /\ UNCHANGED <<event, head, snapshot, triggered, uid, history, early>>
      /\ pass.at = "candidate" /\ pass.rest # <<>>
  BY DEF Delivery!ResolveCandidate
<1>4. pass.copy = delivery /\ delivery.state = "new" /\ delivery.pinned = pinned
      /\ delivery = [uid |-> delivery.uid, state |-> delivery.state, pinned |-> delivery.pinned]
  BY <1>1, <1>3 DEF DeliveryInv, DeliveryKnown, DeliveryType
<1>5. PICK copy : copy = [delivery EXCEPT !.pinned = more]
  OBVIOUS
<1>6. /\ copy = [uid |-> delivery.uid, state |-> delivery.state, pinned |-> more]
      /\ copy.pinned = more /\ copy.uid = delivery.uid /\ copy.state = "new"
  BY <1>4, <1>5
<1>7. p = [pass EXCEPT !.at = "select", !.copy = copy]
  <2>1. p = [pass EXCEPT !.at = "select", !.copy.pinned = IF event.resolve THEN Delivery!Pin(@, c) ELSE @]
    BY <1>1, Zenon DEF Delivery!ResolveCandidate
  <2>2. pass.copy.pinned = pinned
    BY <1>1, <1>4
  <2>3. p = [pass EXCEPT !.at = "select", !.copy = [pass.copy EXCEPT !.pinned = more]]
    BY <1>2, <2>1, <2>2
  <2> QED BY <1>4, <1>5, <2>3
<1>8. p \in Passes("select", copy, pass.rest, pass.selected, pass.count, pass.seen)
  BY <1>7, KnownPass DEF Passes
<1>9. /\ p.at = "select" /\ p.copy = copy /\ p.rest = pass.rest /\ p.selected = pass.selected
      /\ p.count = pass.count /\ p.seen = pass.seen
      /\ p = [at |-> p.at, copy |-> p.copy, rest |-> p.rest, selected |-> p.selected, count |-> p.count, seen |-> p.seen]
  BY <1>8, PassShape
<1>10. delivery' = copy
  <2>1. delivery' = IF delivery.uid = pass.copy.uid THEN [delivery EXCEPT !.pinned = p.copy.pinned] ELSE delivery
    BY Zenon DEF Delivery!ResolveCandidate
  <2>2. p.copy.pinned = more
    BY <1>6, <1>9
  <2> QED BY <1>4, <1>5, <2>1, <2>2
<1>11. pinned \in [DOMAIN pinned -> DOMAIN Tree] /\ head \in DOMAIN Tree
  BY <1>1 DEF DeliveryInv, DeliveryType
<1>12. /\ more \in [DOMAIN more -> DOMAIN Tree] /\ DOMAIN pinned \subseteq DOMAIN more
       /\ event.resolve => c \in DOMAIN more
       /\ Resolved(pinned, c) => more = pinned
       /\ \A d : Resolved(pinned, d) => Delivery!Skipped(d) \/ Delivery!Revision(more, d) = Delivery!Revision(pinned, d)
  <2>1. ~Delivery!Skipped(c)
    BY <1>1
  <2>2. /\ more \in [DOMAIN more -> DOMAIN Tree] /\ DOMAIN pinned \subseteq DOMAIN more
        /\ event.resolve => c \in DOMAIN more
        /\ Resolved(pinned, c) /\ ~Delivery!Skipped(c) => more = pinned
        /\ \A d : Resolved(pinned, d) => Delivery!Skipped(d) \/ Delivery!Revision(more, d) = Delivery!Revision(pinned, d)
    BY <1>2, <1>11, PinFacts, ZenonT(40)
  <2> QED BY <2>1, <2>2
<1>13. PICK k \in 0..Len(Candidates) : SelectionFits(k)
  BY <1>3 DEF DeliveryInv, PassFits
<1>14. /\ k + 1 \in 1..Len(Candidates) /\ c = Candidates[k + 1]
       /\ Selectable(pinned, k)
       /\ pass.rest = SubSeq(Candidates, k + 1, Len(Candidates))
       /\ [selected |-> pass.selected, count |-> pass.count, seen |-> pass.seen] = Chosen(pinned, k)
  BY <1>1, <1>3, <1>13, CurrentCandidate DEF SelectionFits
<1>15. Chosen(more, k) = Chosen(pinned, k) /\ Selectable(more, k)
  <2>1. \A i \in 1..k : \/ Delivery!Skipped(Candidates[i])
                        \/ Delivery!Revision(more, Candidates[i]) = Delivery!Revision(pinned, Candidates[i])
    BY <1>12, <1>14 DEF Selectable
  <2> QED BY <1>12, <1>14, <2>1, ChosenStays
<1>16. SelectionFits(k)'
  <2>1. Resolved(more, c)
    BY <1>12 DEF Resolved
  <2>2. /\ pass'.rest = SubSeq(Candidates, k + 1, Len(Candidates)) /\ more = delivery'.pinned
        /\ [selected |-> pass'.selected, count |-> pass'.count, seen |-> pass'.seen] = Chosen(more, k)
    BY <1>6, <1>9, <1>10, <1>14, <1>15
  <2>3. k < Len(Candidates) /\ ~Delivery!Skipped(Candidates[k + 1]) /\ Resolved(more, Candidates[k + 1])
    BY <1>1, <1>14, <2>1
  <2> QED BY <1>3, <1>15, <2>2, <2>3, SelectionMoves
<1>17. PassFits'
  <2>1. Candidates' = Candidates /\ Suppressed' = Suppressed
    BY <1>3, EventStays
  <2>2. k \in 0..Len(Candidates)' /\ p.at = "select" /\ ~Suppressed
    BY <1>3, <1>9, <2>1 DEF DeliveryInv, PassFits
  <2> QED BY <1>16, <2>1, <2>2 DEF PassFits
<1>18. DeliveryType'
  <2>1. delivery' = [uid |-> delivery'.uid, state |-> delivery'.state, pinned |-> delivery'.pinned]
        /\ delivery'.uid = delivery.uid /\ delivery'.state = "new" /\ delivery'.pinned = more
    BY <1>6, <1>10
  <2> QED BY <1>3, <1>9, <1>12, <2>1 DEF DeliveryInv, DeliveryType, PassStages
<1>19. delivery'.uid = delivery.uid /\ delivery'.state = delivery.state
  BY <1>4, <1>6, <1>10
<1>20. DeliveryKnown'
  BY <1>3, <1>4, <1>9, <1>10, <1>19 DEF DeliveryInv, DeliveryKnown
<1>21. Fewer /\ \A t \in DOMAIN triggered' : Owned(t) => Owned(t)'
  BY <1>3 DEF Fewer, Owned
<1>22. HistoryFits' /\ UnownedPending'
  <2>1. CASE AllSelectable
    <3>1. Resolved(pinned, c)
      BY <1>1, <1>14, <2>1 DEF AllSelectable, Selectable
    <3>2. delivery'.pinned = delivery.pinned
      BY <1>1, <1>6, <1>10, <1>12, <3>1
    <3> QED BY <1>3, <1>9, <1>19, <1>21, <3>2, HistoryStays, PendingStays DEF DeliveryInv
  <2>2. CASE ~AllSelectable
    <3>1. HistoryFits'
      BY <1>3, <1>19, <2>2 DEF DeliveryInv, HistoryFits
    <3>2. \A t \in DOMAIN triggered : Owned(t)
      BY <2>2 DEF DeliveryInv, UnownedPending, Pending
    <3> QED BY <1>3, <1>21, <3>1, <3>2 DEF UnownedPending
  <2> QED BY <2>1, <2>2
<1>23. Delivery!OneRevision' /\ Delivery!NoDuplicateRun' /\ Delivery!CompletedMeansAll'
  BY <1>3, <1>4, <1>19, PromisesStay DEF DeliveryInv
<1> QED BY <1>17, <1>18, <1>20, <1>22, <1>23 DEF DeliveryInv

(* The pass goes on to the next candidate, with what this one added.       *)
LEMMA NextCandidate ==
    ASSUME DeliveryInv, UNCHANGED <<event, head, delivery, snapshot, triggered, uid, history, early>>,
           NEW k \in 0..Len(Candidates), SelectionFits(k), pass.at = "select", NEW p, p = pass',
           ~Fatal(Chosen(delivery.pinned, k), delivery.pinned, Candidates[k + 1]),
           [selected |-> p.selected, count |-> p.count, seen |-> p.seen]
               = Add(Chosen(delivery.pinned, k), delivery.pinned, Candidates[k + 1]),
           p = [at |-> p.at, copy |-> p.copy, rest |-> p.rest, selected |-> p.selected, count |-> p.count, seen |-> p.seen],
           p.at = "candidate", p.copy = pass.copy, p.rest = Tail(pass.rest)
    PROVE  DeliveryInv'
<1>1. PICK pinned : pinned = delivery.pinned /\ pinned = delivery'.pinned
  OBVIOUS
<1>2. /\ k + 1 \in 1..Len(Candidates) /\ Tail(pass.rest) = SubSeq(Candidates, (k + 1) + 1, Len(Candidates))
      /\ Selectable(pinned, k + 1) <=>
             Selectable(pinned, k) /\ Resolved(pinned, Candidates[k + 1])
             /\ ~Fatal(Chosen(pinned, k), pinned, Candidates[k + 1])
  BY CurrentCandidate
<1>3. Selectable(pinned, k + 1)
  BY <1>1, <1>2 DEF SelectionFits
<1>4. [selected |-> p.selected, count |-> p.count, seen |-> p.seen] = Chosen(pinned, k + 1)
  <2>1. k \in 0..Len(Candidates) - 1
    BY <1>2
  <2>2. Chosen(pinned, k + 1) = Add(Chosen(pinned, k), pinned, Candidates[k + 1])
    BY <2>1, ChosenStep
  <2> QED BY <1>1, <2>2
<1>5. SelectionFits(k + 1)'
  <2>1. /\ pass'.rest = SubSeq(Candidates, (k + 1) + 1, Len(Candidates)) /\ pass'.at # "select"
        /\ [selected |-> pass'.selected, count |-> pass'.count, seen |-> pass'.seen] = Chosen(pinned, k + 1)
    BY <1>2, <1>4
  <2> QED BY <1>1, <1>3, <2>1, SelectionMoves
<1>6. PassFits'
  <2>1. Candidates' = Candidates /\ Suppressed' = Suppressed
    BY EventStays
  <2>2. k + 1 \in 0..Len(Candidates)' /\ pass'.at = "candidate" /\ ~Suppressed
    BY <1>2, <2>1 DEF DeliveryInv, PassFits
  <2> QED BY <1>5, <2>1, <2>2 DEF PassFits
<1>7. UnownedPending'
  <2>1. \A t \in DOMAIN triggered' : Owned(t) => Owned(t)'
    BY DEF Owned
  <2> QED BY <2>1, PendingStays DEF DeliveryInv, Fewer
<1>8. pass'.at \in PassStages /\ pass'.copy = delivery /\ delivery.state = "new"
  BY DEF PassStages, DeliveryInv, DeliveryKnown
<1> QED BY <1>6, <1>7, <1>8, OnlyPassMoves

(* Nobody waits for the snapshot when the delivery fails.                  *)
LEMMA FailInv ==
    ASSUME DeliveryInv, UNCHANGED <<event, head, delivery, snapshot, triggered, uid, history, early>>,
           pass' = Delivery!FinishWith(pass, "Failed"), pass.at \notin {"idle", "finish"},
           \A t \in DOMAIN triggered : ~Pending(t)
    PROVE  DeliveryInv'
<1> DEFINE p == pass'
<1>1. p \in Passes("fail", pass.copy, pass.rest, pass.selected, pass.count, pass.seen)
  <2>1. p = [pass EXCEPT !.at = "fail"]
    BY Zenon DEF Delivery!FinishWith
  <2> QED BY <2>1, KnownPass DEF Passes
<1>2. /\ p.at = "fail" /\ p.copy = pass.copy
      /\ p = [at |-> p.at, copy |-> p.copy, rest |-> p.rest, selected |-> p.selected, count |-> p.count, seen |-> p.seen]
  BY <1>1, PassShape
<1>3. PassFits'
  <2>1. Suppressed' = Suppressed /\ ~Suppressed
    BY EventStays DEF DeliveryInv, PassFits
  <2> QED BY <1>2, <2>1 DEF PassFits
<1>4. UnownedPending'
  <2>1. \A t \in DOMAIN triggered : Owned(t)
    BY DEF DeliveryInv, UnownedPending
  <2> QED BY <2>1 DEF UnownedPending, Owned
<1>5. pass'.at \in PassStages /\ pass'.copy = delivery /\ delivery.state = "new"
  BY <1>2 DEF PassStages, DeliveryInv, DeliveryKnown
<1> QED BY <1>2, <1>3, <1>4, <1>5, OnlyPassMoves

LEMMA SelectWorkflowsInv == ASSUME DeliveryInv, Delivery!SelectWorkflows PROVE DeliveryInv'
<1> DEFINE p == pass'
           c == Head(pass.rest)
           r == Delivery!Revision(pass.copy.pinned, c)
<1>1. UNCHANGED <<event, head, delivery, snapshot, triggered, uid, history, early>> /\ pass.at = "select"
  BY DEF Delivery!SelectWorkflows
<1>2. PICK k \in 0..Len(Candidates) : SelectionFits(k)
  BY <1>1 DEF DeliveryInv, PassFits
<1>3. PICK pinned, chosen : pinned = delivery.pinned /\ chosen = Chosen(pinned, k)
  OBVIOUS
<1>4. /\ k + 1 \in 1..Len(Candidates) /\ c = Candidates[k + 1] /\ pass.copy = delivery /\ r = Delivery!Revision(pinned, c)
      /\ ~Delivery!Skipped(c)
      /\ chosen = [selected |-> pass.selected, count |-> pass.count, seen |-> pass.seen]
  BY <1>1, <1>2, <1>3, CurrentCandidate DEF SelectionFits, DeliveryInv, DeliveryKnown
<1> HIDE DEF c, r
<1>5. Delivery!Unacceptable(pass, r) <=> Delivery!Unacceptable(chosen, r)
  <2>1. chosen.seen = pass.seen /\ chosen.count = pass.count
    BY <1>4
  <2> QED BY <2>1, Zenon DEF Delivery!Unacceptable
<1>6. p = IF ~Delivery!Unacceptable(pass, r)
          THEN [pass EXCEPT !.at = "candidate", !.rest = Tail(pass.rest),
                            !.selected = pass.selected \o Delivery!Selections(c, r),
                            !.count = pass.count + Delivery!Jobs(r), !.seen = pass.seen \cup {f.path : f \in Tree[r]}]
          ELSE IF c = "pull_request" /\ event.fork
          THEN [pass EXCEPT !.at = "candidate", !.rest = Tail(pass.rest)]
          ELSE Delivery!FinishWith(pass, "Failed")
  BY Zenon DEF Delivery!SelectWorkflows, c, r
<1>7. CASE ~Delivery!Unacceptable(pass, r)
  <2>1. PICK rest, sel, n, e :
            rest = Tail(pass.rest) /\ sel = pass.selected \o Delivery!Selections(c, r)
            /\ n = pass.count + Delivery!Jobs(r) /\ e = pass.seen \cup {f.path : f \in Tree[r]}
    OBVIOUS
  <2>2. p = [pass EXCEPT !.at = "candidate", !.rest = rest, !.selected = sel, !.count = n, !.seen = e]
    BY <1>6, <1>7, <2>1, Zenon
  <2>3. p \in Passes("candidate", pass.copy, rest, sel, n, e)
    BY <2>2, KnownPass DEF Passes
  <2>4. /\ p.at = "candidate" /\ p.copy = pass.copy /\ p.rest = rest /\ p.selected = sel /\ p.count = n /\ p.seen = e
        /\ p = [at |-> p.at, copy |-> p.copy, rest |-> p.rest, selected |-> p.selected, count |-> p.count, seen |-> p.seen]
    BY <2>3, PassShape
  <2>5. Add(chosen, pinned, c) =
            [selected |-> chosen.selected \o Delivery!Selections(c, r), count |-> chosen.count + Delivery!Jobs(r),
             seen |-> chosen.seen \cup {f.path : f \in Tree[r]}]
    BY <1>4, <1>5, <1>7, Zenon DEF Add
  <2>6. chosen.selected = pass.selected /\ chosen.count = pass.count /\ chosen.seen = pass.seen
    BY <1>4
  <2>7. Add(chosen, pinned, c) = [selected |-> sel, count |-> n, seen |-> e]
    BY <2>1, <2>5, <2>6, Zenon
  <2>8. ~Fatal(chosen, pinned, c)
    BY <1>4, <1>5, <1>7, Zenon DEF Fatal
  <2>9. /\ ~Fatal(Chosen(delivery.pinned, k), delivery.pinned, Candidates[k + 1])
        /\ [selected |-> p.selected, count |-> p.count, seen |-> p.seen]
               = Add(Chosen(delivery.pinned, k), delivery.pinned, Candidates[k + 1])
    BY <1>3, <1>4, <2>4, <2>7, <2>8
  <2> QED BY <1>1, <1>2, <2>1, <2>4, <2>9, NextCandidate
<1>8. CASE Delivery!Unacceptable(pass, r) /\ c = "pull_request" /\ event.fork
  <2>1. PICK rest : rest = Tail(pass.rest)
    OBVIOUS
  <2>2. p = [pass EXCEPT !.at = "candidate", !.rest = rest]
    BY <1>6, <1>8, <2>1, Zenon
  <2>3. p \in Passes("candidate", pass.copy, rest, pass.selected, pass.count, pass.seen)
    BY <2>2, KnownPass DEF Passes
  <2>4. /\ p.at = "candidate" /\ p.copy = pass.copy /\ p.rest = rest
        /\ p.selected = pass.selected /\ p.count = pass.count /\ p.seen = pass.seen
        /\ p = [at |-> p.at, copy |-> p.copy, rest |-> p.rest, selected |-> p.selected, count |-> p.count, seen |-> p.seen]
    BY <2>3, PassShape
  <2>5. Add(chosen, pinned, c) = chosen /\ ~Fatal(chosen, pinned, c)
    BY <1>4, <1>5, <1>8, Zenon DEF Add, Fatal
  <2>6. /\ ~Fatal(Chosen(delivery.pinned, k), delivery.pinned, Candidates[k + 1])
        /\ [selected |-> p.selected, count |-> p.count, seen |-> p.seen]
               = Add(Chosen(delivery.pinned, k), delivery.pinned, Candidates[k + 1])
    BY <1>3, <1>4, <2>4, <2>5
  <2> QED BY <1>1, <1>2, <2>1, <2>4, <2>6, NextCandidate
<1>9. CASE Delivery!Unacceptable(pass, r) /\ ~(c = "pull_request" /\ event.fork)
  <2>1. Fatal(chosen, pinned, c)
    BY <1>4, <1>5, <1>9, Zenon DEF Fatal
  <2>2. ~AllSelectable
    <3>1. (k + 1) - 1 = k
      OBVIOUS
    <3>2. Fatal(Chosen(pinned, (k + 1) - 1), pinned, Candidates[k + 1])
      BY <1>3, <1>4, <2>1, <3>1
    <3>3. ~Selectable(pinned, Len(Candidates))
      BY <1>4, <3>2, Zenon DEF Selectable
    <3> QED BY <1>3, <3>3 DEF AllSelectable
  <2>3. \A t \in DOMAIN triggered : ~Pending(t)
    BY <2>2 DEF Pending
  <2>4. pass' = Delivery!FinishWith(pass, "Failed")
    BY <1>6, <1>9, Zenon
  <2> QED BY <1>1, <2>3, <2>4, FailInv
<1> QED BY <1>7, <1>8, <1>9

(* What is left of a sequence after its first j elements.                  *)
LEMMA SuffixFacts ==
    ASSUME NEW S, NEW w \in Seq(S), NEW j \in 0..Len(w)
    PROVE  /\ Len(w) \in Nat /\ Len(SubSeq(w, j + 1, Len(w))) = Len(w) - j
           /\ j = 0 => SubSeq(w, j + 1, Len(w)) = w
           /\ j < Len(w) =>
                  /\ SubSeq(w, j + 1, Len(w)) # <<>>
                  /\ Head(SubSeq(w, j + 1, Len(w))) = w[j + 1]
                  /\ Tail(SubSeq(w, j + 1, Len(w))) = SubSeq(w, (j + 1) + 1, Len(w))
           /\ j = Len(w) => SubSeq(w, j + 1, Len(w)) = <<>>
<1> DEFINE s == SubSeq(w, j + 1, Len(w))
<1>1. Len(w) \in Nat /\ s \in Seq(S) /\ Len(s) = Len(w) - j
  <2>1. \A i \in (j + 1)..Len(w) : w[i] \in S
    OBVIOUS
  <2>2. s \in Seq(S) /\ Len(s) = IF j + 1 <= Len(w) THEN Len(w) - (j + 1) + 1 ELSE 0
    BY <2>1, SubSeqProperties
  <2> QED BY <2>2
<1>2. j = 0 => s = w
  OBVIOUS
<1>3. j < Len(w) => s # <<>> /\ Head(s) = w[j + 1] /\ Tail(s) = SubSeq(w, (j + 1) + 1, Len(w))
  <2> SUFFICES ASSUME j < Len(w)
               PROVE  s # <<>> /\ Head(s) = w[j + 1] /\ Tail(s) = SubSeq(w, (j + 1) + 1, Len(w))
    OBVIOUS
  <2>1. j + 1 \in 1..Len(w) /\ Len(w) \in (j + 1)..Len(w)
    BY <1>1
  <2>2. s # <<>>
    <3> HIDE DEF s
    <3>1. Len(s) > 0 /\ Len(<<>>) = 0
      BY <1>1
    <3> QED BY <3>1
  <2> QED BY <2>1, <2>2, HeadTailOfSubSeq
<1>4. j = Len(w) => s = <<>>
  <2> HIDE DEF s
  <2> SUFFICES ASSUME j = Len(w), s # <<>>
               PROVE  FALSE
    OBVIOUS
  <2>1. s \in Seq(S)
    BY <1>1
  <2>2. Len(s) \in Nat \ {0}
    BY <2>1, EmptySeq, Zenon
  <2>3. Len(s) = 0
    BY <1>1
  <2> QED BY <2>2, <2>3
<1> QED BY <1>1, <1>2, <1>3, <1>4

LEMMA WantedFacts == ASSUME DeliveryInv PROVE Wanted \in Seq(Keys)
<1>1. Len(Candidates) \in 0..Len(Candidates)
  BY CandidatesFacts
<1>2. delivery.pinned \in [DOMAIN delivery.pinned -> DOMAIN Tree]
  BY DEF DeliveryInv, DeliveryType
<1> QED BY <1>1, <1>2, ChosenFacts DEF Wanted

LEMMA CreationMoves ==
    ASSUME event' = event, delivery'.pinned = delivery.pinned, NEW j, NEW w, w = Wanted,
           pass'.selected = SubSeq(w, j + 1, Len(w)), pass'.at = "own" => j < Len(w),
           \A m \in 1..(IF pass'.at = "own" THEN j + 1 ELSE j) : CreatedOnce(w[m])'
    PROVE  CreationFits(j)'
<1>1. w = Wanted'
  BY DeliveryStays
<1> QED BY <1>1 DEF CreationFits

LEMMA SelectedInv == ASSUME DeliveryInv, Delivery!Selected PROVE DeliveryInv'
<1> DEFINE p == pass'
<1>1. /\ UNCHANGED <<event, head, delivery, snapshot, triggered, uid, history, early>>
      /\ pass.at = "candidate" /\ pass.rest = <<>> /\ p = [pass EXCEPT !.at = "create"]
  BY DEF Delivery!Selected
<1>2. p \in Passes("create", pass.copy, pass.rest, pass.selected, pass.count, pass.seen)
  BY <1>1, KnownPass DEF Passes
<1>3. /\ p.at = "create" /\ p.copy = pass.copy /\ p.selected = pass.selected
      /\ p = [at |-> p.at, copy |-> p.copy, rest |-> p.rest, selected |-> p.selected, count |-> p.count, seen |-> p.seen]
  BY <1>2, PassShape
<1>4. PICK k \in 0..Len(Candidates) : SelectionFits(k)
  BY <1>1 DEF DeliveryInv, PassFits
<1>5. k = Len(Candidates)
  <2>1. ASSUME k # Len(Candidates)
        PROVE  Len(SubSeq(Candidates, k + 1, Len(Candidates))) > 0
    <3>1. PICK c : c = Candidates
      OBVIOUS
    <3> DEFINE S == {c[i] : i \in DOMAIN c}
    <3>2. c \in Seq(S)
      BY <3>1, CandidatesFacts, Zenon
    <3> HIDE DEF S
    <3>3. k \in 0..Len(c) /\ k # Len(c)
      BY <2>1, <3>1
    <3>4. Len(SubSeq(c, k + 1, Len(c))) = Len(c) - k /\ Len(c) \in Nat
      BY <3>2, <3>3, SuffixFacts
    <3>5. Len(SubSeq(c, k + 1, Len(c))) > 0
      BY <3>3, <3>4
    <3> QED BY <3>1, <3>5
  <2> QED BY <1>1, <1>4, <2>1 DEF SelectionFits
<1>6. AllSelectable /\ pass.selected = Wanted /\ ~Suppressed
  <2>1. [selected |-> pass.selected, count |-> pass.count, seen |-> pass.seen] = Chosen(delivery.pinned, Len(Candidates))
    BY <1>4, <1>5 DEF SelectionFits
  <2>2. pass.selected = Wanted
    BY <2>1 DEF Wanted
  <2> QED BY <1>1, <1>4, <1>5, <2>2 DEF SelectionFits, AllSelectable, DeliveryInv, PassFits
<1>7. PICK w : w = Wanted /\ w = Wanted'
  BY <1>1, DeliveryStays
<1>8. Len(w) \in Nat /\ SubSeq(w, 0 + 1, Len(w)) = w
  <2>1. w \in Seq(Keys)
    BY <1>7, WantedFacts
  <2> QED BY <2>1
<1>9. CreationFits(0)'
  <2>1. p.selected = SubSeq(w, 0 + 1, Len(w)) /\ p.at # "own"
    BY <1>3, <1>6, <1>7, <1>8
  <2>2. \A m \in 1..(IF p.at = "own" THEN 0 + 1 ELSE 0) : CreatedOnce(w[m])'
    BY <2>1
  <2> QED BY <1>1, <1>7, <2>1, <2>2, CreationMoves
<1>10. AllSelectable' = AllSelectable /\ Suppressed' = Suppressed
  BY <1>1, DeliveryStays, EventStays
<1>11. PassFits'
  <2>1. 0 \in 0..Len(Wanted)'
    BY <1>7, <1>8
  <2> QED BY <1>3, <1>6, <1>9, <1>10, <2>1 DEF PassFits
<1>12. UnownedPending'
  <2>1. \A t : RevisionOf(t)' = RevisionOf(t)
    BY <1>1, DeliveryStays
  <2>2. ASSUME NEW t, NEW m \in 1..Len(w), Ahead(t, m)
        PROVE  Ahead(t, m)'
    <3>1. \A u : Agreeing(u) => Agreeing(u)'
      BY <1>1, <2>1 DEF Agreeing
    <3>2. p.at = "create" /\ m > Len(w) - Len(p.selected)
      BY <1>3, <1>6, <1>7, <1>8
    <3> QED BY <1>7, <2>2, <3>1, <3>2 DEF Ahead
  <2>3. \A t : Pending(t) => Pending(t)'
    BY <1>1, <1>3, <1>7, <1>10, <2>2 DEF Pending
  <2> QED BY <1>1, <2>3 DEF DeliveryInv, UnownedPending, Owned
<1>13. p.at \in PassStages /\ p.copy = delivery /\ delivery.state = "new"
  BY <1>1, <1>3 DEF PassStages, DeliveryInv, DeliveryKnown
<1> QED BY <1>1, <1>3, <1>11, <1>12, <1>13, OnlyPassMoves

(* The run whose turn it is.                                               *)
LEMMA CurrentRun ==
    ASSUME DeliveryInv, NEW w, w = Wanted, NEW j \in 0..Len(w), CreationFits(j), pass.selected # <<>> \/ pass.at = "own"
    PROVE  /\ j + 1 \in 1..Len(w) /\ Len(w) \in Nat /\ Head(pass.selected) = w[j + 1]
           /\ Tail(pass.selected) = SubSeq(w, (j + 1) + 1, Len(w)) /\ pass.selected = SubSeq(w, j + 1, Len(w))
           /\ Len(pass.selected) = Len(w) - j
<1>1. w \in Seq(Keys) /\ pass.selected = SubSeq(w, j + 1, Len(w))
  BY WantedFacts DEF CreationFits
<1>2. /\ Len(w) \in Nat /\ Len(SubSeq(w, j + 1, Len(w))) = Len(w) - j
      /\ j < Len(w) =>
             /\ Head(SubSeq(w, j + 1, Len(w))) = w[j + 1]
             /\ Tail(SubSeq(w, j + 1, Len(w))) = SubSeq(w, (j + 1) + 1, Len(w))
      /\ j = Len(w) => SubSeq(w, j + 1, Len(w)) = <<>>
  BY <1>1, SuffixFacts
<1>3. j < Len(w)
  <2>1. pass.at = "own" => j < Len(w)
    BY DEF CreationFits
  <2>2. j = Len(w) => pass.selected = <<>>
    BY <1>1, <1>2, Zenon
  <2> QED BY <1>2, <2>1, <2>2
<1>4. j + 1 \in 1..Len(w)
  BY <1>2, <1>3
<1> QED BY <1>1, <1>2, <1>3, <1>4, Zenon

(* The run is there already: made by an earlier pass for the same revision,*)
(* or for another one, and then no run waits for the snapshot.             *)
LEMMA CreatedBefore ==
    ASSUME DeliveryInv, Delivery!CreateWorkflowRun, Head(pass.selected) \in DOMAIN triggered
    PROVE  DeliveryInv'
<1> DEFINE p == pass'
<1>1. PICK t : t = Head(pass.selected)
  OBVIOUS
<1>2. /\ UNCHANGED <<event, head, delivery, snapshot, triggered, uid, history, early>>
      /\ pass.at = "create" /\ pass.selected # <<>> /\ t \in DOMAIN triggered
      /\ pass' = IF triggered[t].rev = Delivery!Revision(pass.copy.pinned, t[1])
                 THEN [pass EXCEPT !.at = "own"] ELSE Delivery!FinishWith(pass, "Failed")
  BY <1>1, Zenon DEF Delivery!CreateWorkflowRun
<1>3. pass.copy = delivery /\ delivery.state = "new" /\ AllSelectable /\ ~Suppressed
  BY <1>2 DEF DeliveryInv, DeliveryKnown, PassFits
<1>4. PICK w : w = Wanted
  OBVIOUS
<1>5. PICK j \in 0..Len(w) : CreationFits(j)
  BY <1>2, <1>4 DEF DeliveryInv, PassFits
<1>6. /\ j + 1 \in 1..Len(w) /\ Len(w) \in Nat /\ t = w[j + 1]
      /\ pass.selected = SubSeq(w, j + 1, Len(w)) /\ Len(pass.selected) = Len(w) - j
  BY <1>1, <1>2, <1>4, <1>5, CurrentRun
<1>7. Delivery!Revision(pass.copy.pinned, t[1]) = RevisionOf(t)
  BY <1>3 DEF RevisionOf
<1>8. CASE triggered[t].rev = RevisionOf(t)
  <2>1. p = [pass EXCEPT !.at = "own"]
    BY <1>2, <1>7, <1>8
  <2>2. p \in Passes("own", pass.copy, pass.rest, pass.selected, pass.count, pass.seen)
    BY <2>1, KnownPass DEF Passes
  <2>3. /\ p.at = "own" /\ p.copy = pass.copy /\ p.selected = pass.selected
        /\ p = [at |-> p.at, copy |-> p.copy, rest |-> p.rest, selected |-> p.selected, count |-> p.count, seen |-> p.seen]
    BY <2>2, PassShape
  <2>4. /\ AllSelectable' = AllSelectable /\ Wanted' = w /\ Suppressed' = Suppressed
        /\ \A u : RevisionOf(u)' = RevisionOf(u)
    BY <1>2, <1>4, DeliveryStays, EventStays
  <2>5. \A u : Agreeing(u) => Agreeing(u)'
    BY <1>2, <2>4 DEF Agreeing
  <2>6. \A u : CreatedOnce(u) => CreatedOnce(u)'
    BY <1>2, <2>4, <2>5 DEF CreatedOnce
  <2>7. CreatedOnce(t)
    BY <1>2, <1>8 DEF CreatedOnce, Agreeing, DeliveryInv, HistoryFits
  <2>8. \A m \in 1..j : CreatedOnce(w[m])
    BY <1>2, <1>4, <1>5 DEF CreationFits
  <2>9. \A m \in 1..j + 1 : CreatedOnce(w[m])'
    <3>1. \A m \in 1..j + 1 : m \in 1..j \/ m = j + 1
      OBVIOUS
    <3> QED BY <1>6, <2>6, <2>7, <2>8, <3>1
  <2>10. CreationFits(j)'
    <3>1. pass'.selected = SubSeq(w, j + 1, Len(w)) /\ j < Len(w)
      BY <1>6, <2>3
    <3>2. \A m \in 1..(IF pass'.at = "own" THEN j + 1 ELSE j) : CreatedOnce(w[m])'
      BY <2>3, <2>9
    <3> QED BY <1>2, <1>4, <3>1, <3>2, CreationMoves
  <2>11. PassFits'
    BY <1>3, <1>5, <2>3, <2>4, <2>10 DEF PassFits
  <2>12. UnownedPending'
    <3>1. ASSUME NEW u, NEW m \in 1..Len(w), Ahead(u, m)
          PROVE  Ahead(u, m)'
      BY <1>2, <1>4, <2>3, <2>4, <2>5, <3>1 DEF Ahead
    <3>2. \A u : Pending(u) => Pending(u)'
      BY <1>2, <1>4, <2>3, <2>4, <3>1 DEF Pending
    <3> QED BY <1>2, <3>2 DEF DeliveryInv, UnownedPending, Owned
  <2>13. p.at \in PassStages /\ p.copy = delivery
    BY <1>3, <2>3 DEF PassStages
  <2> QED BY <1>2, <1>3, <2>3, <2>11, <2>12, <2>13, OnlyPassMoves
<1>9. CASE triggered[t].rev # RevisionOf(t)
  <2>1. ASSUME NEW u, Pending(u)
        PROVE  FALSE
    <3>1. PICK m \in 1..Len(w) : Ahead(u, m)
      BY <1>4, <2>1 DEF Pending
    <3>2. m > Len(w) - Len(pass.selected)
      BY <1>2, <1>4, <3>1 DEF Ahead
    <3>3. j + 1 \in 1..m
      BY <1>6, <3>2
    <3>4. Agreeing(w[j + 1])
      BY <1>4, <3>1, <3>3 DEF Ahead
    <3> QED BY <1>2, <1>6, <1>9, <3>4 DEF Agreeing
  <2>2. pass' = Delivery!FinishWith(pass, "Failed")
    BY <1>2, <1>7, <1>9
  <2> QED BY <1>2, <2>1, <2>2, FailInv
<1> QED BY <1>8, <1>9

LEMMA CreatedNow ==
    ASSUME DeliveryInv, Delivery!CreateWorkflowRun, Head(pass.selected) \notin DOMAIN triggered
    PROVE  DeliveryInv'
<1> DEFINE p == pass'
<1>1. PICK t : t = Head(pass.selected)
  OBVIOUS
<1>2. PICK rev, id : rev = RevisionOf(t) /\ id = delivery.uid
  OBVIOUS
<1>3. pass.at = "create" /\ pass.selected # <<>> /\ t \notin DOMAIN triggered
  BY <1>1 DEF Delivery!CreateWorkflowRun
<1>4. pass.copy = delivery /\ delivery.state = "new" /\ AllSelectable /\ ~Suppressed /\ uid \in Nat /\ id \in 1..uid - 1
  <2>1. delivery.uid \in Nat /\ uid \in Nat
    BY DEF DeliveryInv, DeliveryType
  <2> QED BY <1>2, <1>3, <2>1 DEF DeliveryInv, DeliveryKnown, PassFits
<1>5. /\ UNCHANGED <<event, head, delivery, snapshot, early>>
      /\ triggered' = Delivery!With(triggered, t, [rev |-> rev, uid |-> uid])
      /\ uid' = uid + 1 /\ history' = history \cup {<<id, t, rev, uid>>}
      /\ p = [pass EXCEPT !.at = "own"]
  <2>1. Delivery!Revision(pass.copy.pinned, t[1]) = rev
    BY <1>2, <1>4 DEF RevisionOf
  <2> QED BY <1>1, <1>2, <1>3, <2>1, Zenon DEF Delivery!CreateWorkflowRun
<1>6. /\ DOMAIN triggered' = DOMAIN triggered \cup {t} /\ triggered'[t].rev = rev
      /\ \A u \in DOMAIN triggered : triggered'[u] = triggered[u]
      /\ triggered' = [u \in DOMAIN triggered' |-> triggered'[u]]
  BY <1>3, <1>5 DEF Delivery!With
<1>7. PICK w : w = Wanted
  OBVIOUS
<1>8. PICK j \in 0..Len(w) : CreationFits(j)
  BY <1>3, <1>7 DEF DeliveryInv, PassFits
<1>9. /\ j + 1 \in 1..Len(w) /\ Len(w) \in Nat /\ t = w[j + 1]
      /\ pass.selected = SubSeq(w, j + 1, Len(w)) /\ Len(pass.selected) = Len(w) - j
  BY <1>1, <1>3, <1>7, <1>8, CurrentRun
<1>10. p \in Passes("own", pass.copy, pass.rest, pass.selected, pass.count, pass.seen)
  BY <1>5, KnownPass DEF Passes
<1>11. /\ p.at = "own" /\ p.copy = pass.copy /\ p.selected = pass.selected
       /\ p = [at |-> p.at, copy |-> p.copy, rest |-> p.rest, selected |-> p.selected, count |-> p.count, seen |-> p.seen]
  BY <1>10, PassShape
<1>12. /\ AllSelectable' = AllSelectable /\ Wanted' = w /\ Suppressed' = Suppressed
       /\ \A u : RevisionOf(u)' = RevisionOf(u)
  BY <1>5, <1>7, DeliveryStays, EventStays
<1>13. Agreeing(t)' /\ \A u : Agreeing(u) => Agreeing(u)'
  BY <1>2, <1>6, <1>12 DEF Agreeing
<1>14. CreatedOnce(t)' /\ \A u : CreatedOnce(u) => CreatedOnce(u)'
  <2>1. PICK x : x = <<id, t, rev, uid>>
    OBVIOUS
  <2>2. x[2] = t /\ x[3] = rev /\ x \in history' /\ history \subseteq history'
    BY <1>5, <2>1
  <2> QED BY <1>2, <1>12, <1>13, <2>2 DEF CreatedOnce
<1>15. DeliveryType'
  <2>1. DeliveryType
    BY DEF DeliveryInv
  <2> QED BY <1>4, <1>5, <1>6, <1>11, <2>1 DEF DeliveryType, PassStages
<1>16. DeliveryKnown'
  <2>1. \A x \in history' : x \in history \/ x[1] = id
    BY <1>5
  <2>2. \A x \in history' : x[1] \in 1..uid' - 1
    BY <1>4, <1>5, <2>1 DEF DeliveryInv, DeliveryKnown
  <2>3. delivery'.uid < uid' /\ (delivery'.state = "none" <=> delivery'.uid = 0)
    <3>1. delivery.uid \in Nat
      BY DEF DeliveryInv, DeliveryType
    <3> QED BY <1>4, <1>5, <3>1 DEF DeliveryInv, DeliveryKnown
  <2>4. p.at # "idle" => p.copy = delivery' /\ delivery'.state = "new"
    BY <1>4, <1>5, <1>11
  <2> QED BY <2>2, <2>3, <2>4 DEF DeliveryKnown
<1>17. \A x \in history' : x \in history \/ (x[1] = id /\ x[2] = t /\ x[3] = rev)
  BY <1>5
<1>18. HistoryFits'
  <2>1. \A x \in history' :
            x[1] = delivery'.uid =>
                /\ AllSelectable' /\ x[3] = RevisionOf(x[2])'
                /\ delivery'.state = "new" => x[2] \in DOMAIN triggered' \/ x[2] \in early'
    BY <1>2, <1>4, <1>5, <1>6, <1>12, <1>17 DEF DeliveryInv, HistoryFits
  <2>2. \A u \in DOMAIN triggered' : \E x \in history' : x[2] = u /\ x[3] = triggered'[u].rev
    <3>1. ASSUME NEW u \in DOMAIN triggered
          PROVE  \E x \in history' : x[2] = u /\ x[3] = triggered'[u].rev
      BY <1>5, <1>6 DEF DeliveryInv, HistoryFits
    <3>2. \E x \in history' : x[2] = t /\ x[3] = triggered'[t].rev
      <4>1. PICK x : x = <<id, t, rev, uid>>
        OBVIOUS
      <4>2. x[2] = t /\ x[3] = rev /\ x \in history'
        BY <1>5, <4>1
      <4> QED BY <1>6, <4>2
    <3> QED BY <1>6, <3>1, <3>2
  <2> QED BY <2>1, <2>2 DEF HistoryFits
<1>19. PassFits'
  <2>1. \A m \in 1..j : CreatedOnce(w[m])
    BY <1>3, <1>7, <1>8 DEF CreationFits
  <2>2. \A m \in 1..j + 1 : CreatedOnce(w[m])'
    <3>1. \A m \in 1..j + 1 : m \in 1..j \/ m = j + 1
      OBVIOUS
    <3> QED BY <1>9, <1>14, <2>1, <3>1
  <2>3. CreationFits(j)'
    <3>1. pass'.selected = SubSeq(w, j + 1, Len(w)) /\ j < Len(w)
      BY <1>9, <1>11
    <3>2. \A m \in 1..(IF pass'.at = "own" THEN j + 1 ELSE j) : CreatedOnce(w[m])'
      BY <1>11, <2>2
    <3> QED BY <1>5, <1>7, <3>1, <3>2, CreationMoves
  <2> QED BY <1>4, <1>8, <1>11, <1>12, <2>3 DEF PassFits
<1>20. UnownedPending'
  <2>1. ASSUME NEW u, NEW m \in 1..Len(w), Ahead(u, m)
        PROVE  Ahead(u, m)'
    BY <1>3, <1>7, <1>11, <1>12, <1>13, <2>1 DEF Ahead
  <2>2. ASSUME NEW u, \E m \in 1..Len(w) : Ahead(u, m)'
        PROVE  Pending(u)'
    BY <1>4, <1>5, <1>11, <1>12, <2>2 DEF Pending
  <2>3. \A u : Pending(u) => Pending(u)'
    BY <1>7, <2>1, <2>2 DEF Pending
  <2>4. Ahead(t, j + 1)'
    <3>1. \A l \in 1..j + 1 : Agreeing(w[l])'
      BY <1>3, <1>7, <1>8, <1>9, <1>13 DEF CreationFits, CreatedOnce
    <3>2. j + 1 > Len(w) - Len(pass'.selected)
      BY <1>9, <1>11
    <3> QED BY <1>9, <1>12, <3>1, <3>2 DEF Ahead
  <2>5. Pending(t)'
    BY <1>9, <2>2, <2>4
  <2>6. \A u \in DOMAIN triggered : Owned(u) => Owned(u)'
    BY <1>5, <1>6 DEF Owned
  <2> QED BY <1>6, <2>3, <2>5, <2>6 DEF DeliveryInv, UnownedPending
<1>21. Delivery!OneRevision'
  <2>1. \A x \in history : x[1] = id => x[3] = RevisionOf(x[2])
    BY <1>2 DEF DeliveryInv, HistoryFits
  <2>2. \A u : u[1] = t[1] => RevisionOf(u) = rev
    BY <1>2 DEF RevisionOf
  <2> QED BY <1>17, <2>1, <2>2 DEF DeliveryInv, Delivery!OneRevision
<1>22. Delivery!NoDuplicateRun'
  <2>1. \A x \in history : x[1] = id /\ x[2] = t => t \in early
    BY <1>2, <1>3, <1>4 DEF DeliveryInv, HistoryFits
  <2>2. \A x \in history' : x \in history \/ x = <<id, t, rev, uid>>
    BY <1>5
  <2>3. \A x, y \in history' : x[1] = y[1] /\ x[2] = y[2] => x = y \/ x[2] \in early
    <3>1. ASSUME NEW x \in history, NEW y \in history, x[1] = y[1], x[2] = y[2]
          PROVE  x = y \/ x[2] \in early
      BY <3>1 DEF DeliveryInv, Delivery!NoDuplicateRun
    <3>2. \A x \in history' : x \in history \/ (x = <<id, t, rev, uid>> /\ x[1] = id /\ x[2] = t)
      BY <2>2
    <3> QED BY <2>1, <3>1, <3>2
  <2> QED BY <1>5, <2>3 DEF Delivery!NoDuplicateRun
<1>23. Delivery!CompletedMeansAll'
  BY <1>4, <1>5 DEF Delivery!CompletedMeansAll
<1> QED BY <1>15, <1>16, <1>18, <1>19, <1>20, <1>21, <1>22, <1>23 DEF DeliveryInv

LEMMA OwnSnapshotInv == ASSUME DeliveryInv, Delivery!OwnSnapshot PROVE DeliveryInv'
<1> DEFINE p == pass'
<1>1. PICK t, rest : t = Head(pass.selected) /\ rest = Tail(pass.selected)
  OBVIOUS
<1>2. UNCHANGED <<event, head, delivery, triggered, uid, history, early>> /\ pass.at = "own"
  BY DEF Delivery!OwnSnapshot
<1>3. CASE snapshot = Delivery!NoSnapshot
  BY <1>2, <1>3, PassEndsInv DEF Delivery!OwnSnapshot
<1>4. CASE snapshot # Delivery!NoSnapshot
  <2>1. /\ snapshot' = IF t \in DOMAIN triggered
                       THEN [snapshot EXCEPT !.owners = snapshot.owners \cup {triggered[t].uid}] ELSE snapshot
        /\ p = [pass EXCEPT !.at = "create", !.selected = rest]
    BY <1>1, <1>4, Zenon DEF Delivery!OwnSnapshot
  <2>2. /\ snapshot' = [controller |-> snapshot'.controller, owners |-> snapshot'.owners]
        /\ snapshot.owners \subseteq snapshot'.owners
        /\ t \in DOMAIN triggered => triggered[t].uid \in snapshot'.owners
    <3>1. snapshot = [controller |-> snapshot.controller, owners |-> snapshot.owners]
      BY DEF DeliveryInv, DeliveryType
    <3>2. PICK more : more = IF t \in DOMAIN triggered THEN snapshot.owners \cup {triggered[t].uid} ELSE snapshot.owners
      OBVIOUS
    <3>3. snapshot' = [controller |-> snapshot.controller, owners |-> more]
      BY <2>1, <3>1, <3>2
    <3> QED BY <3>2, <3>3
  <2>3. p \in Passes("create", pass.copy, pass.rest, rest, pass.count, pass.seen)
    BY <2>1, KnownPass DEF Passes
  <2>4. /\ p.at = "create" /\ p.copy = pass.copy /\ p.selected = rest
        /\ p = [at |-> p.at, copy |-> p.copy, rest |-> p.rest, selected |-> p.selected, count |-> p.count, seen |-> p.seen]
    BY <2>3, PassShape
  <2>5. pass.copy = delivery /\ delivery.state = "new" /\ AllSelectable /\ ~Suppressed
    BY <1>2 DEF DeliveryInv, DeliveryKnown, PassFits
  <2>6. PICK w : w = Wanted
    OBVIOUS
  <2>7. PICK j \in 0..Len(w) : CreationFits(j)
    BY <1>2, <2>6 DEF DeliveryInv, PassFits
  <2>8. /\ j + 1 \in 1..Len(w) /\ Len(w) \in Nat /\ t = w[j + 1]
        /\ rest = SubSeq(w, (j + 1) + 1, Len(w)) /\ Len(pass.selected) = Len(w) - j
    BY <1>1, <1>2, <2>6, <2>7, CurrentRun
  <2>9. Len(rest) = Len(w) - (j + 1)
    <3>1. w \in Seq(Keys) /\ j + 1 \in 0..Len(w)
      BY <2>6, <2>8, WantedFacts
    <3> QED BY <2>8, <3>1, SuffixFacts
  <2>10. /\ AllSelectable' = AllSelectable /\ Wanted' = w /\ Suppressed' = Suppressed
         /\ \A u : RevisionOf(u)' = RevisionOf(u)
    BY <1>2, <2>6, DeliveryStays, EventStays
  <2>11. \A u : (Agreeing(u) => Agreeing(u)') /\ (CreatedOnce(u) => CreatedOnce(u)')
    BY <1>2, <2>10 DEF Agreeing, CreatedOnce
  <2>12. DeliveryType'
    BY <1>2, <2>2, <2>4 DEF DeliveryInv, DeliveryType, PassStages
  <2>13. DeliveryKnown'
    BY <1>2, <2>4, <2>5 DEF DeliveryInv, DeliveryKnown
  <2>14. HistoryFits'
    BY <1>2, HistoryStays DEF DeliveryInv, Fewer
  <2>15. PassFits'
    <3>1. pass'.selected = SubSeq(w, (j + 1) + 1, Len(w)) /\ pass'.at # "own"
      BY <2>4, <2>8
    <3>2. \A m \in 1..(IF pass'.at = "own" THEN (j + 1) + 1 ELSE j + 1) : CreatedOnce(w[m])'
      BY <1>2, <2>6, <2>7, <2>11, <3>1 DEF CreationFits
    <3>3. CreationFits(j + 1)'
      BY <1>2, <2>6, <3>1, <3>2, CreationMoves
    <3>4. j + 1 \in 0..Len(w)
      BY <2>8
    <3> QED BY <2>4, <2>5, <2>10, <3>3, <3>4 DEF PassFits
  <2>16. UnownedPending'
    <3>1. \A u \in DOMAIN triggered : Owned(u) => Owned(u)'
      BY <1>2, <2>2 DEF Owned
    <3>2. ASSUME NEW u \in DOMAIN triggered, NEW m \in 1..Len(w), Ahead(u, m), u # t
          PROVE  Ahead(u, m)'
      <4>1. w[m] = u /\ m > j
        BY <1>2, <2>6, <2>8, <3>2 DEF Ahead
      <4>2. m # j + 1
        BY <2>8, <3>2, <4>1
      <4>3. PICK left : left = Len(p.selected)
        OBVIOUS
      <4>4. left = Len(w) - (j + 1) /\ Len(w) \in Nat
        BY <2>4, <2>8, <2>9, <4>3, Zenon
      <4>5. m > Len(w) - left
        BY <2>7, <4>1, <4>2, <4>4
      <4> QED BY <2>6, <2>10, <2>11, <3>2, <4>3, <4>5 DEF Ahead
    <3>3. ASSUME NEW u \in DOMAIN triggered, Pending(u), u # t
          PROVE  Pending(u)'
      BY <1>2, <2>4, <2>6, <2>10, <3>2, <3>3 DEF Pending
    <3>4. t \in DOMAIN triggered => Owned(t)'
      BY <1>2, <2>2 DEF Owned
    <3> QED BY <1>2, <3>1, <3>3, <3>4 DEF DeliveryInv, UnownedPending
  <2>17. Delivery!OneRevision' /\ Delivery!NoDuplicateRun' /\ Delivery!CompletedMeansAll'
    BY <1>2, PromisesStay DEF DeliveryInv
  <2> QED BY <2>12, <2>13, <2>14, <2>15, <2>16, <2>17 DEF DeliveryInv
<1> QED BY <1>3, <1>4

(* CompletedMeansAll, as what has to hold of a completed delivery.         *)
Created(c) ==
    \/ Delivery!Skipped(c) \/ Suppressed
    \/ c = "pull_request" /\ event.fork
    \/ \A f \in Tree[Delivery!Revision(delivery.pinned, c)] :
           Delivery!Matches(c, f) =>
               \E x \in history : x[2] = <<c, f.path>> /\ x[3] = Delivery!Revision(delivery.pinned, c)

AllCreated == \A i \in DOMAIN Candidates : Created(Candidates[i])

LEMMA FinishDeliveryInv == ASSUME DeliveryInv, Delivery!FinishDelivery PROVE DeliveryInv'
<1>1. /\ UNCHANGED <<event, head, snapshot, triggered, uid, history, early>> /\ pass' = Delivery!IdlePass
      /\ pass.at \in {"finish", "fail"} \/ (pass.at = "create" /\ pass.selected = <<>>)
  BY DEF Delivery!FinishDelivery, Delivery!CreatedAll
<1>2. pass.copy = delivery /\ delivery.state = "new"
  BY <1>1 DEF DeliveryInv, DeliveryKnown
<1>3. PICK state \in {"Failed", "Completed"} : state = IF pass.at = "fail" THEN "Failed" ELSE "Completed"
  OBVIOUS
<1>4. delivery' = [delivery EXCEPT !.state = state]
  BY <1>2, <1>3, Zenon DEF Delivery!FinishDelivery
<1>5. delivery' = [uid |-> delivery.uid, state |-> state, pinned |-> delivery.pinned]
  BY <1>4 DEF DeliveryInv, DeliveryType
<1>6. delivery'.uid = delivery.uid /\ delivery'.state = state /\ delivery'.pinned = delivery.pinned
      /\ delivery' = [uid |-> delivery'.uid, state |-> delivery'.state, pinned |-> delivery'.pinned]
  BY <1>5
<1>7. pass'.at = "idle"
      /\ pass' = [at |-> pass'.at, copy |-> pass'.copy, rest |-> pass'.rest, selected |-> pass'.selected,
                  count |-> pass'.count, seen |-> pass'.seen]
  BY <1>1 DEF Delivery!IdlePass
<1>8. \A t \in DOMAIN triggered : Owned(t)
  <2> SUFFICES ASSUME NEW t, Pending(t)
               PROVE  FALSE
    BY DEF DeliveryInv, UnownedPending
  <2>1. ~Suppressed /\ pass.at # "fail"
    BY DEF Pending
  <2>2. pass.at = "create" /\ pass.selected = <<>>
    BY <1>1, <2>1 DEF DeliveryInv, PassFits
  <2>3. PICK w : w = Wanted
    OBVIOUS
  <2>4. PICK m \in 1..Len(w) : m > Len(w) - Len(pass.selected)
    BY <2>2, <2>3 DEF Pending, Ahead
  <2>5. Len(w) \in Nat /\ Len(pass.selected) = 0
    <3>1. w \in Seq(Keys)
      BY <2>3, WantedFacts
    <3> QED BY <2>2, <3>1
  <2> QED BY <2>4, <2>5
<1>9. DeliveryType'
  BY <1>1, <1>6, <1>7 DEF DeliveryInv, DeliveryType, PassStages
<1>10. DeliveryKnown'
  BY <1>1, <1>2, <1>6, <1>7 DEF DeliveryInv, DeliveryKnown
<1>11. HistoryFits'
  BY <1>1, <1>6, HistoryStays DEF DeliveryInv, Fewer
<1>12. PassFits'
  BY <1>7 DEF PassFits
<1>13. UnownedPending'
  BY <1>1, <1>8 DEF UnownedPending, Owned
<1>14. Delivery!OneRevision' /\ Delivery!NoDuplicateRun'
  BY <1>1 DEF DeliveryInv, Delivery!OneRevision, Delivery!NoDuplicateRun
<1>15. Delivery!CompletedMeansAll'
  <2> SUFFICES ASSUME NEW i \in DOMAIN Candidates, delivery'.state = "Completed",
                      ~Delivery!Skipped(Candidates[i]), ~Suppressed, ~(Candidates[i] = "pull_request" /\ event.fork),
                      NEW f \in Tree[Delivery!Revision(delivery.pinned, Candidates[i])], Delivery!Matches(Candidates[i], f)
               PROVE  \E x \in history :
                          x[2] = <<Candidates[i], f.path>> /\ x[3] = Delivery!Revision(delivery.pinned, Candidates[i])
    <3>1. \A c : Delivery!Skipped(c)' = Delivery!Skipped(c)
      BY <1>1, EventStays
    <3>2. \A i \in DOMAIN Candidates :
              \/ delivery'.state # "Completed" \/ Delivery!Skipped(Candidates[i]) \/ Suppressed
              \/ Candidates[i] = "pull_request" /\ event.fork
              \/ \A f \in Tree[Delivery!Revision(delivery.pinned, Candidates[i])] :
                     Delivery!Matches(Candidates[i], f) =>
                         \E x \in history :
                             x[2] = <<Candidates[i], f.path>> /\ x[3] = Delivery!Revision(delivery.pinned, Candidates[i])
      BY Zenon
    <3>3. event' = event /\ history' = history /\ delivery'.pinned = delivery.pinned
      BY <1>1, <1>6
    <3>4. (delivery.state = "Completed" => AllCreated)' <=> Delivery!CompletedMeansAll'
      BY DEF AllCreated, Created, Delivery!CompletedMeansAll, Candidates, Suppressed
    <3>5. Candidates' = Candidates /\ Suppressed' = Suppressed
      BY <1>1, EventStays
    <3>6. \A c : Created(c)' = Created(c)
      BY <3>1, <3>3, <3>5 DEF Created
    <3>7. AllCreated' = AllCreated
      BY <3>5, <3>6, Zenon DEF AllCreated
    <3>8. delivery'.state = "Completed" => AllCreated
      BY <3>2 DEF AllCreated, Created
    <3> QED BY <3>4, <3>7, <3>8
  <2>1. pass.at = "create" /\ pass.selected = <<>> /\ AllSelectable
    BY <1>1, <1>3, <1>6 DEF DeliveryInv, PassFits
  <2>2. PICK w, t : w = Wanted /\ t = <<Candidates[i], f.path>>
    OBVIOUS
  <2>3. PICK j \in 0..Len(w) : CreationFits(j)
    BY <2>1, <2>2 DEF DeliveryInv, PassFits
  <2>4. w \in Seq(Keys) /\ j = Len(w)
    <3>1. w \in Seq(Keys)
      BY <2>2, WantedFacts
    <3>2. PICK s : s = SubSeq(w, j + 1, Len(w))
      OBVIOUS
    <3>3. Len(s) = Len(w) - j /\ Len(w) \in Nat
      BY <3>1, <3>2, SuffixFacts
    <3>4. s = <<>>
      BY <2>1, <2>2, <2>3, <3>2 DEF CreationFits
    <3>5. Len(s) = 0
      BY <3>4
    <3> QED BY <2>3, <3>1, <3>3, <3>5
  <2>5. Contains(w, t)
    <3>1. delivery.pinned \in [DOMAIN delivery.pinned -> DOMAIN Tree] /\ i \in 1..Len(Candidates)
      BY CandidatesFacts DEF DeliveryInv, DeliveryType
    <3>2. Selectable(delivery.pinned, Len(Candidates))
      BY <2>1 DEF AllSelectable
    <3>3. Contains(Chosen(delivery.pinned, Len(Candidates)).selected, <<Candidates[i], f.path>>)
      BY <3>1, <3>2, AllWanted
    <3> QED BY <2>2, <3>3 DEF Wanted
  <2>6. CreatedOnce(t)
    <3>1. \A m \in 1..Len(w) : CreatedOnce(w[m])
      BY <2>1, <2>2, <2>3, <2>4 DEF CreationFits
    <3> QED BY <2>5, <3>1 DEF Contains
  <2>7. t[1] = Candidates[i] /\ t = <<Candidates[i], f.path>>
    BY <2>2
  <2> QED BY <2>6, <2>7 DEF CreatedOnce, RevisionOf
<1> QED BY <1>9, <1>10, <1>11, <1>12, <1>13, <1>14, <1>15 DEF DeliveryInv

LEMMA DeliveryInitInv == ASSUME Delivery!DeliveryInit PROVE DeliveryInv
<1> USE DEF Delivery!DeliveryInit, Delivery!NoDelivery, Delivery!NoSnapshot, Delivery!IdlePass
<1>1. DOMAIN triggered = {} /\ triggered = [t \in DOMAIN triggered |-> triggered[t]] /\ history = {}
  OBVIOUS
<1>2. delivery.pinned \in [DOMAIN delivery.pinned -> DOMAIN Tree] /\ head \in DOMAIN Tree
  BY TreeAssumption
<1>3. pass.at = "idle" /\ delivery.state = "none" /\ delivery.uid = 0 /\ uid = 1
  OBVIOUS
<1>4. pass = [at |-> pass.at, copy |-> pass.copy, rest |-> pass.rest, selected |-> pass.selected,
              count |-> pass.count, seen |-> pass.seen]
  OBVIOUS
<1>5. /\ delivery = [uid |-> delivery.uid, state |-> delivery.state, pinned |-> delivery.pinned]
      /\ snapshot = [controller |-> snapshot.controller, owners |-> snapshot.owners]
  OBVIOUS
<1>6. DeliveryType
  <2>1. uid \in Nat /\ delivery.uid \in Nat /\ delivery.state \in {"none", "new", "Completed", "Failed"} /\ pass.at \in PassStages
    BY <1>3 DEF PassStages
  <2> QED BY <1>1, <1>2, <1>4, <1>5, <2>1, Zenon DEF DeliveryType
<1>7. DeliveryKnown /\ HistoryFits /\ PassFits /\ UnownedPending
  BY <1>1, <1>3 DEF DeliveryKnown, HistoryFits, PassFits, UnownedPending
<1>8. Delivery!OneRevision /\ Delivery!NoDuplicateRun /\ Delivery!CompletedMeansAll
  BY <1>1, <1>3 DEF Delivery!OneRevision, Delivery!NoDuplicateRun, Delivery!CompletedMeansAll
<1> QED BY <1>6, <1>7, <1>8 DEF DeliveryInv

LEMMA DeliveryNextInv == ASSUME DeliveryInv, Delivery!DeliveryNext PROVE DeliveryInv'
<1> SUFFICES \/ Delivery!Receive \/ Delivery!HandlerStep \/ Delivery!PassStep \/ Delivery!Expire \/ Delivery!Push
             \/ Delivery!HandlerEnds \/ Delivery!PassFails \/ Delivery!CollectSnapshot
             \/ \E t \in DOMAIN triggered : Delivery!RunExpires(t)
             => DeliveryInv'
  BY Zenon DEF Delivery!DeliveryNext
<1>1. /\ head \in DOMAIN Tree /\ snapshot = [controller |-> snapshot.controller, owners |-> snapshot.owners]
      /\ \A t \in DOMAIN triggered : Owned(t) => triggered[t].uid \in snapshot.owners
  BY DEF DeliveryInv, DeliveryType, Owned
<1>2. ASSUME Delivery!Receive \/ Delivery!Push \/ Delivery!HandlerEnds
      PROVE  DeliveryInv'
  <2>1. UNCHANGED <<event, delivery, snapshot, triggered, pass, uid, history, early>> /\ head' \in DOMAIN Tree
    BY <1>1, <1>2 DEF Delivery!Receive, Delivery!Push, Delivery!HandlerEnds
  <2> QED BY <1>1, <2>1, AroundInv
<1>3. ASSUME Delivery!HandlerStep
      PROVE  DeliveryInv'
  BY <1>3, EnqueueInv, EnsureEventSnapshotInv DEF Delivery!HandlerStep
<1>4. ASSUME Delivery!PassFails
      PROVE  DeliveryInv'
  BY <1>4, PassEndsInv DEF Delivery!PassFails
<1>5. ASSUME Delivery!PassStep
      PROVE  DeliveryInv'
  <2>1. ASSUME Delivery!ResolveCandidate
        PROVE  DeliveryInv'
    BY <2>1, SkipCandidateInv, PinCandidateInv
  <2>2. ASSUME Delivery!CreateWorkflowRun
        PROVE  DeliveryInv'
    BY <2>2, CreatedBefore, CreatedNow
  <2> QED BY <1>5, <2>1, <2>2, ReadDeliveryInv, SelectWorkflowsInv, SelectedInv, OwnSnapshotInv, FinishDeliveryInv
          DEF Delivery!PassStep
<1> QED BY <1>2, <1>3, <1>4, <1>5, ExpireInv, CollectSnapshotInv, RunExpiresInv

LEMMA DeliveryStep ==
    ASSUME On("delivery") => DeliveryInv, [Next]_vars
    PROVE  (On("delivery") => DeliveryInv)'
<1>1. focus' = focus
  BY DEF Next, Alone, vars
<1> SUFFICES ASSUME On("delivery")
             PROVE  DeliveryInv'
  BY <1>1 DEF On
<1>2. CASE Next
  <2>1. Delivery!DeliveryNext
    BY <1>2 DEF Next, On
  <2> QED BY <2>1, DeliveryNextInv DEF On
<1>3. CASE UNCHANGED vars
  <2>1. UNCHANGED <<event, head, delivery, snapshot, triggered, pass, uid, history, early>>
    BY <1>3 DEF vars, deliveryVars
  <2>2. DeliveryInv
    OBVIOUS
  <2>3. /\ head' \in DOMAIN Tree /\ snapshot' = [controller |-> snapshot'.controller, owners |-> snapshot'.owners]
        /\ \A t \in DOMAIN triggered : Owned(t) => triggered[t].uid \in snapshot'.owners
    BY <2>1, <2>2 DEF DeliveryInv, DeliveryType, Owned
  <2> QED BY <2>1, <2>2, <2>3, AroundInv
<1> QED BY <1>2, <1>3

(* Deliveries: for all webhooks, revisions and limits, and every number of *)
(* repetitions, pushes, expiries and failures, all runs of a delivery for  *)
(* one event have one revision, none is created twice, a delivery that is  *)
(* done has created what its revision triggers, and its snapshot stays as  *)
(* long as a run is there.                                                 *)
THEOREM DeliveriesAreFaithful == Spec => []DeliveryFaithful
<1>1. Init => (On("delivery") => DeliveryInv)
  BY DeliveryInitInv DEF Init
<1>2. (On("delivery") => DeliveryInv) /\ [Next]_vars => (On("delivery") => DeliveryInv)'
  BY DeliveryStep
<1>3. DeliveryInv => Delivery!SnapshotKept
  BY DEF DeliveryInv, UnownedPending, Pending, Owned, Delivery!SnapshotKept
<1>4. (On("delivery") => DeliveryInv) => DeliveryFaithful
  BY <1>3 DEF DeliveryInv, DeliveryFaithful
<1> QED BY <1>1, <1>2, <1>4, PTL DEF Spec
=============================================================================
